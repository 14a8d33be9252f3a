--------------------------- MODULE HoldBackProofs ---------------------------
(***************************************************************************)
(* What the hold-back rule of the streaming buffer computes, for texts of  *)
(* any length: where it cuts, that what is held after a cut cannot be cut  *)
(* again, and when nothing but the window is held.                         *)
(***************************************************************************)
EXTENDS HoldBack, SequenceInduction

LEMMA LiteralLengths == Len(Opener) \in Nat /\ Len(Closer) \in Nat /\ Window \in Nat
BY LiteralsAssumption, RoomAssumption, LenProperties DEF Window

(* Where drain finds an opener or the beginning of one.                    *)
LEMMA LastOpenerIs ==
    ASSUME NEW S, NEW text \in Seq(S)
    PROVE  /\ LastOpener(text) \in 0..Len(text)
           /\ LastOpener(text) # 0 => Opener # <<>> /\ LiteralAt(text, LastOpener(text), Opener)
           /\ \A i \in 1..Len(text) :
                 (Opener # <<>> /\ LiteralAt(text, i, Opener)) => i <= LastOpener(text)
<1> DEFINE T == {i \in 1..Len(text) : Opener # <<>> /\ LiteralAt(text, i, Opener)}
<1>1. {0} \cup T \subseteq 0..Len(text) /\ {0} \cup T # {} /\ Len(text) \in Nat
    OBVIOUS
<1>2. LastOpener(text) = Max({0} \cup T)
    BY DEF LastOpener
<1>3. LastOpener(text) \in {0} \cup T /\ \A y \in {0} \cup T : LastOpener(text) >= y
    <2> HIDE DEF T
    <2> QED
        BY <1>1, <1>2, MaxProperties
<1> QED
    BY <1>1, <1>3

LEMMA LastUnclosedOpenerIs ==
    ASSUME NEW S, NEW text \in Seq(S)
    PROVE  /\ LastUnclosedOpener(text) \in {0, LastOpener(text)}
           /\ LastUnclosedOpener(text) \in 0..Len(text)
BY LastOpenerIs DEF LastUnclosedOpener

(* The length of the prefix of the opener with which text ends.            *)
PrefixLengths(text) ==
    {m \in 1..Len(Opener)-1 :
        m <= Len(text) /\ LiteralAt(text, Len(text) - m + 1, SubSeq(Opener, 1, m))}

LEMMA TrailingPrefixIs ==
    ASSUME NEW S, NEW text \in Seq(S)
    PROVE  /\ TrailingOpenerPrefix(text) \in 0..Len(text)
           /\ TrailingOpenerPrefix(text) = 0 => PrefixLengths(text) = {}
           /\ TrailingOpenerPrefix(text) # 0 =>
                 /\ Len(text) - TrailingOpenerPrefix(text) + 1 \in PrefixLengths(text)
                 /\ \A m \in PrefixLengths(text) : m <= Len(text) - TrailingOpenerPrefix(text) + 1
<1> DEFINE T == PrefixLengths(text)
           n == Max({0} \cup T)
<1>1. {0} \cup T \subseteq 0..Len(text) /\ {0} \cup T # {} /\ Len(text) \in Nat
    BY LiteralLengths DEF PrefixLengths
<1>2. TrailingOpenerPrefix(text) = IF n = 0 THEN 0 ELSE Len(text) - n + 1
    BY DEF TrailingOpenerPrefix, PrefixLengths
<1>3. n \in {0} \cup T /\ \A y \in {0} \cup T : n >= y
    <2> HIDE DEF T
    <2> QED
        BY <1>1, MaxProperties
<1>4. 0 \notin T
    BY LiteralLengths DEF PrefixLengths
<1> HIDE DEF T, n
<1> QED
    BY <1>1, <1>2, <1>3, <1>4 DEF T

-----------------------------------------------------------------------------

(* An opener that is complete stands before the beginning of another.      *)
LEMMA HoldBackPointIs ==
    ASSUME NEW S, NEW text \in Seq(S)
    PROVE  /\ HoldBackPoint(text) \in 0..Len(text)
           /\ HoldBackPoint(text) = IF LastUnclosedOpener(text) # 0
                                    THEN LastUnclosedOpener(text)
                                    ELSE TrailingOpenerPrefix(text)
           /\ TrailingOpenerPrefix(text) # 0 =>
                 HoldBackPoint(text) \in 1..TrailingOpenerPrefix(text)
<1> DEFINE L == LastUnclosedOpener(text)
           P == TrailingOpenerPrefix(text)
           points == {L, P} \ {0}
<1>0. Len(text) \in Nat /\ L \in 0..Len(text) /\ P \in 0..Len(text)
    BY LastUnclosedOpenerIs, TrailingPrefixIs
<1>1. L # 0 /\ P # 0 => L < P
    <2>1. SUFFICES ASSUME L # 0, P # 0 PROVE L < P
        OBVIOUS
    <2>2. L + Len(Opener) - 1 <= Len(text)
        BY <2>1, LastUnclosedOpenerIs, LastOpenerIs DEF LiteralAt
    <2>3. Len(text) - P + 1 \in 1..Len(Opener)-1
        BY <2>1, TrailingPrefixIs DEF PrefixLengths
    <2> HIDE DEF L, P
    <2> QED
        BY <1>0, <2>2, <2>3, LiteralLengths
<1>2. HoldBackPoint(text) = IF points = {} THEN 0 ELSE Min(points)
    BY DEF HoldBackPoint
<1> HIDE DEF L, P
<1>3. points # {} => Min(points) \in points /\ \A y \in points : Min(points) <= y
    <2>1. points \subseteq Nat
        BY <1>0
    <2> HIDE DEF points
    <2> QED
        BY <2>1, MinProperties
<1> QED
    <2>1. ASSUME L # 0 PROVE Min(points) = L
        <3>1. L \in points
            BY <2>1
        <3> DEFINE m == Min(points)
        <3>2. m \in points /\ m <= L
            BY <1>3, <3>1
        <3>3. m = L \/ (m = P /\ P # 0)
            BY <3>2
        <3> HIDE DEF m, points
        <3>4. m = L
            BY <1>0, <1>1, <2>1, <3>2, <3>3
        <3> QED
            BY <3>4 DEF m
    <2>2. L = 0 /\ P # 0 => Min(points) = P
        BY <1>0, <1>3
    <2>3. HoldBackPoint(text) = IF L # 0 THEN L ELSE P
        BY <1>0, <1>2, <2>1, <2>2
    <2> QED
        BY <1>0, <1>1, <2>3 DEF L, P

(* A literal in a tail of a text stands in the text itself.                *)
LEMMA LiteralInTail ==
    ASSUME NEW S, NEW text \in Seq(S), NEW h \in 1..Len(text), NEW i \in 1..Len(text) - h + 1,
           NEW lit, Len(lit) \in Nat
    PROVE  /\ LiteralAt(SubSeq(text, h, Len(text)), i, lit) <=> LiteralAt(text, h + i - 1, lit)
<1> DEFINE t == SubSeq(text, h, Len(text))
           n == Len(text)
<1>1. n \in Nat /\ h \in 1..n
    OBVIOUS
<1>2. Len(t) = n - h + 1 /\ \A k \in 1..n-h+1 : t[k] = text[h+k-1]
    OBVIOUS
<1> HIDE DEF t, n
<1>3. i + Len(lit) - 1 <= Len(t) <=> (h + i - 1) + Len(lit) - 1 <= n
    BY <1>1, <1>2 DEF n
<1>4. ASSUME i + Len(lit) - 1 <= Len(t), NEW k \in 1..Len(lit)
      PROVE  t[i + k - 1] = text[(h + i - 1) + k - 1]
    <2>1. i + k - 1 \in 1..n-h+1 /\ h + (i + k - 1) - 1 = (h + i - 1) + k - 1
        BY <1>1, <1>2, <1>4 DEF n
    <2> QED
        BY <1>2, <2>1
<1>5. i + Len(lit) - 1 <= Len(t) =>
         ((\A k \in 1..Len(lit) : t[i + k - 1] = lit[k]) <=>
          (\A k \in 1..Len(lit) : text[(h + i - 1) + k - 1] = lit[k]))
    BY <1>4
<1> QED
    BY <1>3, <1>5 DEF LiteralAt, t, n

(* The text from the hold-back point on is held from its first character.  *)
LEMMA HoldBackPointStays ==
    ASSUME NEW S, NEW text \in Seq(S), HoldBackPoint(text) # 0
    PROVE  HoldBackPoint(SubSeq(text, HoldBackPoint(text), Len(text))) = 1
<1> DEFINE h == HoldBackPoint(text)
           n == Len(text)
           t == SubSeq(text, h, n)
<1>1. n \in Nat /\ h \in 1..n
    BY HoldBackPointIs
<1>2. t \in Seq(S) /\ Len(t) = n - h + 1 /\ \A k \in 1..n-h+1 : t[k] = text[h+k-1]
    <2> HIDE DEF h
    <2> QED
        BY <1>1
<1>3. CASE LastUnclosedOpener(text) # 0
    <2>1. h = LastOpener(text) /\ LastUnclosedOpener(text) = h
        BY <1>3, HoldBackPointIs, LastUnclosedOpenerIs
    <2>2. Opener # <<>> /\ LiteralAt(text, h, Opener) /\ \A k \in h..n : text[k] # Bracket
        BY <1>3, <2>1, LastOpenerIs DEF LastUnclosedOpener
    <2>3. \A i \in 1..n : LiteralAt(text, i, Opener) => i <= h
        BY <2>1, <2>2, LastOpenerIs
    <2> HIDE DEF h
    <2>4. LiteralAt(t, 1, Opener)
        BY <1>1, <2>2, LiteralInTail, LiteralLengths
    <2>5. \A i \in 1..n-h+1 : LiteralAt(t, i, Opener) => i <= 1
        <3>1. ASSUME NEW i \in 1..n-h+1, LiteralAt(t, i, Opener) PROVE i <= 1
            <4>1. LiteralAt(text, h + i - 1, Opener)
                BY <1>1, <3>1, LiteralInTail, LiteralLengths
            <4>2. h + i - 1 \in 1..n
                BY <1>1
            <4>3. h + i - 1 <= h
                BY <2>3, <4>1, <4>2
            <4> QED
                BY <1>1, <4>3
        <3> QED
            BY <3>1
    <2>6. LastOpener(t) = 1
        <3>1. LastOpener(t) \in 0..Len(t) /\ 1 <= LastOpener(t)
            <4> HIDE DEF t
            <4>1. 1 \in 1..Len(t)
                BY <1>1, <1>2
            <4> QED
                BY <1>2, <2>2, <2>4, <4>1, LastOpenerIs
        <3> HIDE DEF t
        <3>2. LiteralAt(t, LastOpener(t), Opener)
            BY <1>1, <1>2, <3>1, LastOpenerIs
        <3> QED
            BY <1>1, <1>2, <2>5, <3>1, <3>2
    <2>7. \A k \in 1..Len(t) : t[k] # Bracket
        <3> HIDE DEF t
        <3>1. ASSUME NEW k \in 1..Len(t) PROVE t[k] # Bracket
            <4>1. h + k - 1 \in h..n
                BY <1>1, <1>2
            <4> QED
                BY <1>2, <2>2, <4>1
        <3> QED
            BY <3>1
    <2>8. LastUnclosedOpener(t) = 1
        BY <2>6, <2>7 DEF LastUnclosedOpener
    <2> QED
        <3>1. HoldBackPoint(t) = 1
            <4> HIDE DEF t
            <4> QED
                BY <1>2, <2>8, HoldBackPointIs
        <3> QED
            BY <3>1 DEF h
<1>4. CASE LastUnclosedOpener(text) = 0
    <2>1. h = TrailingOpenerPrefix(text)
        BY <1>4, HoldBackPointIs
    <2>2. n - h + 1 \in PrefixLengths(text)
        BY <1>1, <2>1, TrailingPrefixIs
    <2> HIDE DEF h
    <2>3. n - h + 1 < Len(Opener) /\ n - h + 1 \in Nat \ {0}
        BY <1>1, <2>2, LiteralLengths DEF PrefixLengths
    <2>4. LastOpener(t) = 0
        <3>1. LastOpener(t) \in 0..Len(t) /\ (LastOpener(t) # 0 => LiteralAt(t, LastOpener(t), Opener))
            BY <1>2, LastOpenerIs
        <3>2. LastOpener(t) # 0 => LastOpener(t) + Len(Opener) - 1 <= Len(t)
            BY <3>1 DEF LiteralAt
        <3> HIDE DEF t
        <3> QED
            BY <1>1, <1>2, <2>3, <3>1, <3>2, LiteralLengths
    <2>5. LastUnclosedOpener(t) = 0
        BY <2>4 DEF LastUnclosedOpener
    <2>6. n - h + 1 \in PrefixLengths(t)
        <3> DEFINE m == n - h + 1
                   lit == SubSeq(Opener, 1, m)
        <3>1. LiteralAt(text, n - m + 1, lit) /\ n - m + 1 = h
            BY <1>1, <2>2 DEF PrefixLengths
        <3>2. Len(lit) \in Nat
            BY <2>3, LiteralsAssumption
        <3>3. LiteralAt(t, 1, lit)
            <4> HIDE DEF lit
            <4> QED
                BY <1>1, <3>1, <3>2, LiteralInTail
        <3> HIDE DEF t, lit
        <3>4. Len(t) - m + 1 = 1 /\ m <= Len(t) /\ m \in 1..Len(Opener)-1
            BY <1>1, <1>2, <2>3, LiteralLengths
        <3> QED
            BY <3>3, <3>4 DEF PrefixLengths, lit
    <2>7. TrailingOpenerPrefix(t) = 1
        <3>1. TrailingOpenerPrefix(t) \in 0..Len(t) /\ TrailingOpenerPrefix(t) # 0
            BY <1>2, <2>6, TrailingPrefixIs
        <3>2. n - h + 1 <= Len(t) - TrailingOpenerPrefix(t) + 1
            BY <1>2, <2>6, <3>1, TrailingPrefixIs
        <3> HIDE DEF t
        <3> QED
            BY <1>1, <1>2, <3>1, <3>2
    <2> QED
        <3>1. HoldBackPoint(t) = 1
            <4> HIDE DEF t
            <4> QED
                BY <1>2, <2>5, <2>7, HoldBackPointIs
        <3> QED
            BY <3>1 DEF h
<1> QED
    BY <1>3, <1>4

-----------------------------------------------------------------------------

(* What drain emits ends before the window, and before the hold-back point *)
(* of what stands there.                                                   *)
LEMMA CutIs ==
    ASSUME NEW S, NEW text \in Seq(S)
    PROVE  /\ Cut(text) \in 0..Len(text)
           /\ Len(text) <= Window => Cut(text) = 0
           /\ Len(text) > Window =>
                 LET n     == Len(text) - Window
                     point == HoldBackPoint(SubSeq(text, 1, n))
                 IN  /\ n \in 1..Len(text) /\ point \in 0..n
                     /\ Cut(text) = IF point # 0 THEN point - 1 ELSE n
<1> DEFINE n == Len(text) - Window
           ready == SubSeq(text, 1, n)
           point == HoldBackPoint(ready)
<1>0. Len(text) \in Nat /\ Window \in Nat
    BY LiteralLengths
<1>1. Len(text) > Window => n \in 1..Len(text) /\ ready \in Seq(S) /\ Len(ready) = n
    <2> SUFFICES ASSUME Len(text) > Window PROVE n \in 1..Len(text) /\ ready \in Seq(S) /\ Len(ready) = n
        OBVIOUS
    <2>1. n \in 1..Len(text)
        BY <1>0
    <2> HIDE DEF n
    <2> QED
        BY <2>1
<1>2. Len(text) > Window => point \in 0..n
    <2> HIDE DEF ready, n
    <2> QED
        BY <1>1, HoldBackPointIs
<1>3. Len(text) <= Window => Cut(text) = 0
    BY DEF Cut
<1>4. Len(text) > Window => Cut(text) = IF point # 0 THEN point - 1 ELSE Len(ready)
    BY <1>0 DEF Cut
<1> HIDE DEF n, ready, point
<1> QED
    BY <1>0, <1>1, <1>2, <1>3, <1>4 DEF n, ready, point

(* What is held cannot be cut again: a chunk without text sets nothing     *)
(* free.                                                                   *)
LEMMA CutIdempotent ==
    ASSUME NEW S, NEW text \in Seq(S)
    PROVE  Cut(SubSeq(text, Cut(text) + 1, Len(text))) = 0
<1> DEFINE n == Len(text)
           c == Cut(text)
           t == SubSeq(text, c + 1, n)
           w == n - Window
           ready == SubSeq(text, 1, w)
           h == HoldBackPoint(ready)
<1>0. n \in Nat /\ Window \in Nat /\ c \in 0..n
    BY LiteralLengths, CutIs
<1>1. t \in Seq(S) /\ Len(t) = n - c /\ \A k \in 1..n-c : t[k] = text[c+k]
    <2> HIDE DEF c
    <2> QED
        BY <1>0
<1>2. CASE n <= Window
    <2>1. c = 0
        BY <1>2, CutIs
    <2>2. Len(t) <= Window
        BY <1>0, <1>1, <1>2, <2>1
    <2> QED
        BY <1>1, <2>2, CutIs
<1>3. CASE n > Window /\ h = 0
    <2>1. c = w
        BY <1>3, CutIs
    <2>2. Len(t) <= Window
        BY <1>0, <1>1, <2>1
    <2> QED
        BY <1>1, <2>2, CutIs
<1>4. CASE n > Window /\ h # 0
    <2>1. w \in 1..n /\ h \in 1..w /\ c = h - 1
        BY <1>0, <1>4, CutIs
    <2>2. ready \in Seq(S) /\ Len(ready) = w /\ \A k \in 1..w : ready[k] = text[k]
        <3> HIDE DEF w
        <3> QED
            BY <1>0, <2>1
    <2> DEFINE tail == SubSeq(ready, h, w)
               front == SubSeq(t, 1, Len(t) - Window)
    <2>3. HoldBackPoint(tail) = 1
        <3> HIDE DEF ready, w
        <3> QED
            BY <1>4, <2>2, HoldBackPointStays DEF h
    <2> HIDE DEF c, t, ready, h
    <2>4. Len(t) > Window /\ Len(t) - Window = w - h + 1 /\ Len(t) \in Nat
        BY <1>0, <1>1, <2>1
    <2>5. tail \in Seq(S) /\ Len(tail) = w - h + 1 /\ \A k \in 1..w-h+1 : tail[k] = ready[h+k-1]
        <3> HIDE DEF w
        <3>1. h \in 1..Len(ready) /\ w \in h..Len(ready)
            BY <2>1, <2>2
        <3> QED
            BY <2>2, <3>1, SubSeqHolds, SMTT(60)
    <2>6. front \in Seq(S) /\ Len(front) = w - h + 1 /\ \A k \in 1..w-h+1 : front[k] = t[k]
        <3> HIDE DEF w
        <3> QED
            BY <1>0, <1>1, <2>1, <2>4
    <2>7. \A k \in 1..w-h+1 : front[k] = tail[k]
        <3> HIDE DEF tail, front
        <3>1. ASSUME NEW k \in 1..w-h+1 PROVE front[k] = tail[k]
            <4>1. k \in 1..n-c /\ h + k - 1 \in 1..w /\ c + k = h + k - 1
                BY <1>0, <2>1
            <4> QED
                BY <1>1, <2>2, <2>5, <2>6, <4>1
        <3> QED
            BY <3>1
    <2>8. front = tail
        <3> HIDE DEF tail, front, w
        <3> QED
            BY <2>5, <2>6, <2>7, SeqEqual
    <2>9. Cut(t) = 0
        <3>1. Cut(t) = IF HoldBackPoint(front) # 0 THEN HoldBackPoint(front) - 1 ELSE Len(t) - Window
            BY <1>1, <2>4, CutIs
        <3>2. HoldBackPoint(front) = 1
            BY <2>3, <2>8
        <3> QED
            BY <3>1, <3>2
    <2> QED
        BY <2>9 DEF t, c
<1> QED
    BY <1>0, <1>2, <1>3, <1>4

-----------------------------------------------------------------------------

(* The longest body that begins at i.                                      *)
LEMMA LongestBody ==
    ASSUME NEW S, NEW text \in Seq(S), NEW i \in 1..Len(text), MatchesAt(text, i)
    PROVE  /\ Max(BodyEnds(text, i)) \in BodyEnds(text, i)
           /\ \A e \in BodyEnds(text, i) : e <= Max(BodyEnds(text, i))
<1>1. BodyEnds(text, i) \subseteq 0..Len(text) /\ Len(text) \in Nat
    BY DEF BodyEnds
<1>2. BodyEnds(text, i) # {}
    BY DEF MatchesAt
<1> QED
    BY <1>1, <1>2, MaxProperties

LEMMA MatchEndIn ==
    ASSUME NEW S, NEW text \in Seq(S), NEW i \in 1..Len(text), MatchesAt(text, i)
    PROVE  MatchEnd(text, i) \in i..Len(text)
<1> DEFINE e == Max(BodyEnds(text, i))
           suffix == {k \in e+2..Len(text) :
                         /\ text[e+1] = Hyphen
                         /\ \A d \in e+2..k : text[d] \in Digits}
<1>1. e \in i..Len(text) /\ Len(text) \in Nat
    BY LongestBody DEF BodyEnds
<1>2. MatchEnd(text, i) = Max({e} \cup suffix)
    BY DEF MatchEnd
<1> HIDE DEF e
<1>3. {e} \cup suffix \subseteq 0..Len(text) /\ {e} \cup suffix # {}
    BY <1>1
<1>4. {e} \cup suffix \subseteq i..Len(text)
    BY <1>1
<1> HIDE DEF suffix
<1> QED
    BY <1>1, <1>2, <1>3, <1>4, MaxProperties

(* Where the match may end whose longest body ends at e.                   *)
Ends(text, e) ==
    {e} \cup {k \in e+2..Len(text) :
                 text[e+1] = Hyphen /\ \A d \in e+2..k : text[d] \in Digits}

LEMMA MatchEndIs ==
    ASSUME NEW S, NEW text \in Seq(S), NEW i \in 1..Len(text), MatchesAt(text, i)
    PROVE  LET E == Ends(text, Max(BodyEnds(text, i)))
           IN  MatchEnd(text, i) \in E /\ \A y \in E : y <= MatchEnd(text, i)
<1> DEFINE e == Max(BodyEnds(text, i))
<1>1. e \in i..Len(text) /\ Len(text) \in Nat
    BY LongestBody DEF BodyEnds
<1>2. MatchEnd(text, i) = Max(Ends(text, e))
    BY DEF MatchEnd, Ends
<1> HIDE DEF e
<1>3. Ends(text, e) \subseteq 0..Len(text) /\ Ends(text, e) # {}
    BY <1>1 DEF Ends
<1>4. Max(Ends(text, e)) \in Ends(text, e) /\ \A y \in Ends(text, e) : Max(Ends(text, e)) >= y
    BY <1>1, <1>3, MaxProperties
<1>5. \A y \in Ends(text, e) : y \in Nat
    BY <1>1, <1>3
<1> QED
    BY <1>2, <1>4, <1>5 DEF e

(* No placeholder of text is followed by a hyphen and a digit, as one with *)
(* a disambiguator is.                                                     *)
Unsuffixed(text) ==
    \A i \in 1..Len(text) : \A e \in BodyEnds(text, i) :
        e + 2 <= Len(text) => ~(text[e+1] = Hyphen /\ text[e+2] \in Digits)

LEMMA UnsuffixedEnd ==
    ASSUME NEW S, NEW text \in Seq(S), Unsuffixed(text),
           NEW i \in 1..Len(text), MatchesAt(text, i)
    PROVE  MatchEnd(text, i) = Max(BodyEnds(text, i))
<1> DEFINE e == Max(BodyEnds(text, i))
           suffix == {k \in e+2..Len(text) :
                         /\ text[e+1] = Hyphen
                         /\ \A d \in e+2..k : text[d] \in Digits}
<1>1. e \in i..Len(text) /\ Len(text) \in Nat /\ e \in BodyEnds(text, i)
    <2>1. e \in BodyEnds(text, i)
        BY LongestBody
    <2>2. BodyEnds(text, i) \subseteq i..Len(text)
        BY DEF BodyEnds
    <2> QED
        BY <2>1, <2>2
<1>2. MatchEnd(text, i) = Max({e} \cup suffix)
    BY DEF MatchEnd
<1>3. e + 2 <= Len(text) => ~(text[e+1] = Hyphen /\ text[e+2] \in Digits)
    <2> HIDE DEF e
    <2> QED
        BY <1>1 DEF Unsuffixed
<1> HIDE DEF e
<1>4. suffix = {}
    <2>1. ASSUME NEW k \in suffix PROVE FALSE
        <3>1. k \in e+2..Len(text) /\ text[e+1] = Hyphen /\ \A d \in e+2..k : text[d] \in Digits
            OBVIOUS
        <3>2. e + 2 \in e+2..k /\ e + 2 <= Len(text)
            BY <1>1, <3>1
        <3> QED
            BY <1>3, <3>1, <3>2
    <2> HIDE DEF suffix
    <2> QED
        BY <2>1
<1>5. Max({e}) = e
    BY <1>1 DEF Max
<1> HIDE DEF suffix
<1>6. {e} \cup suffix = {e}
    BY <1>4
<1>7. MatchEnd(text, i) = e
    BY <1>2, <1>5, <1>6
<1> QED
    BY <1>7 DEF e

-----------------------------------------------------------------------------

(* The function by which Restore is defined, and its equation.             *)
RestoreStep(text, vault, from, i) ==
    IF i > Len(text) THEN <<>>
    ELSE IF MatchesAt(text, i)
         THEN LET e == MatchEnd(text, i)
                  p == SubSeq(text, i, e)
              IN  (IF p \in DOMAIN vault THEN vault[p] ELSE p) \o from[e + 1]
         ELSE <<text[i]>> \o from[i + 1]

RestoreFrom(text, vault) ==
    CHOOSE from : from = [i \in 1..Len(text)+1 |->
        IF i > Len(text) THEN <<>>
        ELSE IF MatchesAt(text, i)
             THEN LET e == MatchEnd(text, i)
                      p == SubSeq(text, i, e)
                  IN  (IF p \in DOMAIN vault THEN vault[p] ELSE p) \o from[e + 1]
             ELSE <<text[i]>> \o from[i + 1]]

LEMMA RestoreIs ==
    ASSUME NEW text, NEW vault
    PROVE  Restore(text, vault) = RestoreFrom(text, vault)[1]
BY DEF Restore, RestoreFrom

(* A step looks only at what stands behind it.                             *)
LEMMA RestoreStepLocal ==
    ASSUME NEW S, NEW text \in Seq(S), NEW vault, NEW i \in 1..Len(text)+1, NEW f, NEW g,
           \A j \in i+1..Len(text)+1 : f[j] = g[j]
    PROVE  RestoreStep(text, vault, f, i) = RestoreStep(text, vault, g, i)
<1>1. CASE i > Len(text)
    BY <1>1 DEF RestoreStep
<1>2. CASE i \in 1..Len(text) /\ MatchesAt(text, i)
    <2>1. MatchEnd(text, i) + 1 \in i+1..Len(text)+1
        BY <1>2, MatchEndIn
    <2>2. f[MatchEnd(text, i) + 1] = g[MatchEnd(text, i) + 1]
        BY <2>1
    <2> QED
        BY <1>2, <2>2 DEF RestoreStep
<1>3. CASE i \in 1..Len(text) /\ ~MatchesAt(text, i)
    <2>1. f[i + 1] = g[i + 1]
        BY <1>3
    <2> QED
        BY <1>3, <2>1 DEF RestoreStep
<1> QED
    BY <1>1, <1>2, <1>3

LEMMA RestoreEquation ==
    ASSUME NEW S, NEW text \in Seq(S), NEW vault
    PROVE  \A i \in 1..Len(text)+1 :
               RestoreFrom(text, vault)[i] = RestoreStep(text, vault, RestoreFrom(text, vault), i)
<1> DEFINE n == Len(text)
           Defined(k) == \E f : f = [i \in n+2-k..n+1 |-> RestoreStep(text, vault, f, i)]
           T == {k \in Nat : k <= n + 1 => Defined(k)}
<1>0. n \in Nat
    OBVIOUS
<1>1. 0 \in T
    <2>1. [i \in n+2-0..n+1 |-> 0] =
          [i \in n+2-0..n+1 |-> RestoreStep(text, vault, [j \in n+2-0..n+1 |-> 0], i)]
        <3>1. n+2-0..n+1 = {}
            BY <1>0
        <3> QED
            BY <3>1
    <2>2. Defined(0)
        BY <2>1
    <2> HIDE DEF Defined
    <2> QED
        BY <2>2
<1>2. ASSUME NEW k \in Nat, k \in T
      PROVE  k + 1 \in T
    <2>1. SUFFICES ASSUME k + 1 <= n + 1 PROVE Defined(k + 1)
        <3> HIDE DEF Defined, n
        <3> QED
            BY <1>0
    <2>2. PICK f : f = [i \in n+2-k..n+1 |-> RestoreStep(text, vault, f, i)]
        BY <1>0, <1>2, <2>1
    <2> DEFINE D == n+2-(k+1)..n+1
               g == [i \in D |-> IF i \in n+2-k..n+1 THEN f[i]
                                 ELSE RestoreStep(text, vault, f, i)]
    <2>3. \A i \in D : g[i] = IF i \in n+2-k..n+1 THEN f[i]
                              ELSE RestoreStep(text, vault, f, i)
        OBVIOUS
    <2>4. DOMAIN g = D /\ g = [i \in DOMAIN g |-> g[i]]
        OBVIOUS
    <2>5. \A i \in n+2-k..n+1 : f[i] = RestoreStep(text, vault, f, i)
        BY <2>2
    <2> HIDE DEF g
    <2>6. ASSUME NEW i \in D PROVE g[i] = RestoreStep(text, vault, g, i)
        <3>1. g[i] = RestoreStep(text, vault, f, i)
            BY <2>3, <2>5
        <3>2. i \in 1..n+1 /\ \A j \in i+1..n+1 : j \in n+2-k..n+1 /\ j \in D
            BY <1>0, <2>1
        <3>3. \A j \in i+1..n+1 : f[j] = g[j]
            BY <2>3, <3>2
        <3>4. RestoreStep(text, vault, f, i) = RestoreStep(text, vault, g, i)
            BY <3>2, <3>3, RestoreStepLocal
        <3> QED
            BY <3>1, <3>4
    <2>7. g = [i \in D |-> RestoreStep(text, vault, g, i)]
        BY <2>4, <2>6
    <2> QED
        BY <2>7, Zenon
<1>3. n + 1 \in T
    <2>1. \A k \in Nat : k \in T
        <3> HIDE DEF T
        <3> QED
            BY <1>1, <1>2, NatSetInduction
    <2> HIDE DEF T
    <2> QED
        BY <1>0, <2>1
<1>4. n + 2 - (n + 1) = 1
    BY <1>0
<1>5. \E f : f = [i \in 1..n+1 |-> RestoreStep(text, vault, f, i)]
    <2>1. Defined(n + 1)
        <3> HIDE DEF Defined
        <3> QED
            BY <1>0, <1>3
    <2> HIDE DEF n
    <2> QED
        BY <1>4, <2>1
<1>6. RestoreFrom(text, vault) = CHOOSE f : f = [i \in 1..n+1 |-> RestoreStep(text, vault, f, i)]
    BY Zenon DEF RestoreFrom, RestoreStep
<1>7. RestoreFrom(text, vault) =
          [i \in 1..n+1 |-> RestoreStep(text, vault, RestoreFrom(text, vault), i)]
    BY <1>5, <1>6, Zenon
<1> DEFINE f == RestoreFrom(text, vault)
<1> HIDE DEF f
<1>8. f = [i \in 1..n+1 |-> RestoreStep(text, vault, f, i)]
    BY <1>7, Zenon DEF f
<1>9. \A i \in 1..n+1 : f[i] = RestoreStep(text, vault, f, i)
    BY <1>8
<1> QED
    BY <1>9 DEF f

(* The vault gives texts for texts.                                        *)
GivesTexts(vault, S) == \A p \in DOMAIN vault : vault[p] \in Seq(S)

LEMMA RestoreStepType ==
    ASSUME NEW S, NEW text \in Seq(S), NEW vault, GivesTexts(vault, S), NEW f,
           NEW i \in 1..Len(text)+1, \A j \in i+1..Len(text)+1 : f[j] \in Seq(S)
    PROVE  RestoreStep(text, vault, f, i) \in Seq(S)
<1>1. CASE i > Len(text)
    BY <1>1, EmptySeq DEF RestoreStep
<1>2. CASE i \in 1..Len(text) /\ MatchesAt(text, i)
    <2> DEFINE e == MatchEnd(text, i)
               p == SubSeq(text, i, e)
               q == IF p \in DOMAIN vault THEN vault[p] ELSE p
    <2>1. e \in i..Len(text) /\ e + 1 \in i+1..Len(text)+1
        BY <1>2, MatchEndIn
    <2>2. p \in Seq(S)
        <3> HIDE DEF e
        <3> QED
            BY <2>1
    <2>3. q \in Seq(S)
        BY <2>2 DEF GivesTexts
    <2>4. f[e + 1] \in Seq(S)
        BY <2>1
    <2>5. RestoreStep(text, vault, f, i) = q \o f[e + 1]
        <3>1. ~(i > Len(text)) /\ MatchesAt(text, i)
            BY <1>2
        <3> QED
            BY <3>1, Zenon DEF RestoreStep
    <2> HIDE DEF q, e
    <2> QED
        BY <2>3, <2>4, <2>5, ConcatProperties
<1>3. CASE i \in 1..Len(text) /\ ~MatchesAt(text, i)
    <2>1. f[i + 1] \in Seq(S) /\ <<text[i]>> \in Seq(S)
        BY <1>3
    <2>2. RestoreStep(text, vault, f, i) = <<text[i]>> \o f[i + 1]
        BY <1>3 DEF RestoreStep
    <2> QED
        BY <2>1, <2>2, ConcatProperties
<1> QED
    BY <1>1, <1>2, <1>3

(* What is restored from any place on is a text.                           *)
LEMMA RestoreFromType ==
    ASSUME NEW S, NEW text \in Seq(S), NEW vault, GivesTexts(vault, S)
    PROVE  \A i \in 1..Len(text)+1 : RestoreFrom(text, vault)[i] \in Seq(S)
<1> DEFINE n == Len(text)
           f == RestoreFrom(text, vault)
           T == {k \in Nat : \A i \in 1..n+1 : i >= n + 1 - k => f[i] \in Seq(S)}
<1>0. n \in Nat /\ \A i \in 1..n+1 : f[i] = RestoreStep(text, vault, f, i)
    BY RestoreEquation
<1> HIDE DEF f
<1>1. 0 \in T
    <2>1. ASSUME NEW i \in 1..n+1, i >= n + 1 - 0 PROVE f[i] \in Seq(S)
        <3>1. i > Len(text)
            BY <1>0, <2>1
        <3> QED
            BY <1>0, <3>1, EmptySeq DEF RestoreStep
    <2> QED
        BY <2>1
<1>2. ASSUME NEW k \in Nat, k \in T
      PROVE  k + 1 \in T
    <2>1. ASSUME NEW i \in 1..n+1, i >= n + 1 - (k + 1) PROVE f[i] \in Seq(S)
        <3>1. \A j \in i+1..n+1 : f[j] \in Seq(S)
            <4>1. ASSUME NEW j \in i+1..n+1 PROVE f[j] \in Seq(S)
                <5>1. j \in 1..n+1 /\ j >= n + 1 - k
                    BY <1>0, <2>1
                <5> QED
                    BY <1>2, <5>1
            <4> QED
                BY <4>1
        <3>2. RestoreStep(text, vault, f, i) \in Seq(S)
            BY <3>1, RestoreStepType
        <3> QED
            BY <1>0, <3>2
    <2> QED
        BY <2>1
<1>3. \A k \in Nat : k \in T
    <2> HIDE DEF T
    <2> QED
        BY <1>1, <1>2, NatSetInduction
<1>4. n + 1 \in T
    <2> HIDE DEF T
    <2> QED
        BY <1>0, <1>3
<1>5. ASSUME NEW i \in 1..n+1 PROVE f[i] \in Seq(S)
    <2>1. i >= n + 1 - (n + 1)
        BY <1>0
    <2> QED
        BY <1>4, <2>1
<1> QED
    BY <1>5 DEF f

(* A restored text is a text, and nothing restored is nothing.             *)
LEMMA RestoreType ==
    ASSUME NEW S, NEW text \in Seq(S), NEW vault, GivesTexts(vault, S)
    PROVE  Restore(text, vault) \in Seq(S)
<1>1. 1 \in 1..Len(text)+1
    OBVIOUS
<1> QED
    BY <1>1, RestoreFromType, RestoreIs

LEMMA RestoreNothing ==
    ASSUME NEW vault
    PROVE  Restore(<<>>, vault) = <<>>
<1>1. <<>> \in Seq({}) /\ Len(<<>>) = 0
    BY EmptySeq
<1>2. 1 \in 1..Len(<<>>)+1 /\ 1 > Len(<<>>)
    BY <1>1
<1>3. RestoreFrom(<<>>, vault)[1] = RestoreStep(<<>>, vault, RestoreFrom(<<>>, vault), 1)
    <2>1. \A i \in 1..Len(<<>>)+1 :
              RestoreFrom(<<>>, vault)[i] = RestoreStep(<<>>, vault, RestoreFrom(<<>>, vault), i)
        BY <1>1, RestoreEquation, Zenon
    <2> QED
        BY <1>2, <2>1, Zenon
<1> QED
    BY <1>2, <1>3, RestoreIs DEF RestoreStep

-----------------------------------------------------------------------------

(* Where bodies stand in the two parts of a text that no body joins.       *)
LEMMA LiteralInFront ==
    ASSUME NEW S, NEW text \in Seq(S), NEW E \in 0..Len(text), NEW i \in 1..E+1,
           NEW lit, Len(lit) \in Nat
    PROVE  LiteralAt(SubSeq(text, 1, E), i, lit) <=>
               (LiteralAt(text, i, lit) /\ i + Len(lit) - 1 <= E)
<1> DEFINE t == SubSeq(text, 1, E)
<1>1. Len(text) \in Nat /\ E \in 0..Len(text)
    OBVIOUS
<1>2. Len(t) = E /\ \A k \in 1..E : t[k] = text[k]
    OBVIOUS
<1> HIDE DEF t
<1>3. ASSUME i + Len(lit) - 1 <= E, NEW k \in 1..Len(lit) PROVE t[i + k - 1] = text[i + k - 1]
    <2>1. i + k - 1 \in 1..E
        BY <1>1, <1>3
    <2> QED
        BY <1>2, <2>1
<1>4. i + Len(lit) - 1 <= E =>
         ((\A k \in 1..Len(lit) : t[i + k - 1] = lit[k]) <=>
          (\A k \in 1..Len(lit) : text[i + k - 1] = lit[k]))
    BY <1>3
<1>5. i + Len(lit) - 1 <= E => i + Len(lit) - 1 <= Len(text)
    BY <1>1
<1> QED
    BY <1>2, <1>4, <1>5 DEF LiteralAt, t

(* A body, said of its end.                                                *)
IsBody(text, i, e) ==
    LET first == i + Len(Opener)
        last  == e - Len(Closer)
    IN  /\ LiteralAt(text, i, Opener)
        /\ first <= last
        /\ \A k \in first..last : text[k] \in CodeChars
        /\ LiteralAt(text, last + 1, Closer)

LEMMA BodyEndsAre ==
    ASSUME NEW text, NEW i, NEW e
    PROVE  e \in BodyEnds(text, i) <=> (e \in i..Len(text) /\ IsBody(text, i, e))
BY DEF BodyEnds, IsBody

LEMMA BodyInFront ==
    ASSUME NEW S, NEW text \in Seq(S), NEW E \in 0..Len(text), NEW i \in 1..E, NEW e \in i..E
    PROVE  e \in BodyEnds(SubSeq(text, 1, E), i) <=> e \in BodyEnds(text, i)
<1> DEFINE t == SubSeq(text, 1, E)
           first == i + Len(Opener)
           last == e - Len(Closer)
<1>1. Len(text) \in Nat /\ E \in Nat /\ E <= Len(text) /\ i \in Nat /\ e \in Nat /\ e <= E /\ i >= 1
    OBVIOUS
<1>2. Len(t) = E /\ \A k \in 1..E : t[k] = text[k]
    OBVIOUS
<1>3. Len(Opener) \in Nat /\ Len(Closer) \in Nat
    BY LiteralLengths
<1>4. ASSUME first <= last
      PROVE  /\ LiteralAt(t, i, Opener) <=> LiteralAt(text, i, Opener)
             /\ LiteralAt(t, last + 1, Closer) <=> LiteralAt(text, last + 1, Closer)
             /\ \A k \in first..last : t[k] = text[k]
    <2>1. i + Len(Opener) - 1 <= E /\ last + 1 \in 1..E+1 /\ (last + 1) + Len(Closer) - 1 <= E
        BY <1>1, <1>3, <1>4
    <2>2. LiteralAt(t, i, Opener) <=> LiteralAt(text, i, Opener)
        <3>1. i \in 1..E+1
            BY <1>1
        <3> QED
            BY <1>3, <2>1, <3>1, LiteralInFront
    <2>3. LiteralAt(t, last + 1, Closer) <=> LiteralAt(text, last + 1, Closer)
        <3> HIDE DEF last, t
        <3> QED
            BY <1>3, <2>1, LiteralInFront DEF t
    <2>4. \A k \in first..last : k \in 1..E
        BY <1>1, <1>3, <1>4
    <2> HIDE DEF t
    <2> QED
        BY <1>2, <2>2, <2>3, <2>4
<1>5. IsBody(t, i, e) <=> IsBody(text, i, e)
    <2> HIDE DEF t
    <2> QED
        BY <1>4 DEF IsBody
<1>6. e \in i..Len(t) /\ e \in i..Len(text)
    <2> HIDE DEF t
    <2> QED
        BY <1>1, <1>2
<1> HIDE DEF t
<1>7. e \in BodyEnds(t, i) <=> e \in BodyEnds(text, i)
    BY <1>5, <1>6, BodyEndsAre
<1> QED
    BY <1>7 DEF t

LEMMA BodyInTail ==
    ASSUME NEW S, NEW text \in Seq(S), NEW h \in 1..Len(text),
           NEW i \in 1..Len(text)-h+1, NEW e \in i..Len(text)-h+1
    PROVE  e \in BodyEnds(SubSeq(text, h, Len(text)), i) <=>
               h + e - 1 \in BodyEnds(text, h + i - 1)
<1> DEFINE n == Len(text)
           t == SubSeq(text, h, n)
           first == i + Len(Opener)
           last == e - Len(Closer)
           first2 == (h + i - 1) + Len(Opener)
           last2 == (h + e - 1) - Len(Closer)
<1>1. n \in Nat /\ h \in Nat /\ h >= 1 /\ h <= n /\ i \in Nat /\ i >= 1 /\ e \in Nat /\ e >= i
      /\ e <= n - h + 1
    OBVIOUS
<1>2. Len(t) = n - h + 1 /\ \A k \in 1..n-h+1 : t[k] = text[h+k-1]
    OBVIOUS
<1>3. Len(Opener) \in Nat /\ Len(Closer) \in Nat
    BY LiteralLengths
<1>4. first2 = h + first - 1 /\ last2 = h + last - 1 /\ (first <= last <=> first2 <= last2)
    BY <1>1, <1>3
<1>5. LiteralAt(t, i, Opener) <=> LiteralAt(text, h + i - 1, Opener)
    BY <1>3, LiteralInTail
<1>6. ASSUME first <= last
      PROVE  LiteralAt(t, last + 1, Closer) <=> LiteralAt(text, last2 + 1, Closer)
    <2>1. CASE last + 1 \in 1..n-h+1
        <3>1. LiteralAt(t, last + 1, Closer) <=> LiteralAt(text, h + (last + 1) - 1, Closer)
            <4> HIDE DEF last
            <4> QED
                BY <1>3, <2>1, LiteralInTail
        <3>2. h + (last + 1) - 1 = last2 + 1
            BY <1>1, <1>3
        <3> HIDE DEF t, last, last2
        <3> QED
            BY <3>1, <3>2
    <2>2. CASE last + 1 = n - h + 2
        <3>1. Len(Closer) = 0 /\ last2 + 1 = n + 1
            BY <1>1, <1>3, <2>2
        <3>2. LiteralAt(t, last + 1, Closer)
            <4> HIDE DEF t, last
            <4> QED
                BY <1>1, <1>2, <2>2, <3>1 DEF LiteralAt
        <3>3. LiteralAt(text, last2 + 1, Closer)
            <4> HIDE DEF last2
            <4> QED
                BY <1>1, <3>1 DEF LiteralAt
        <3> QED
            BY <3>2, <3>3
    <2>3. last + 1 \in 1..n-h+1 \/ last + 1 = n - h + 2
        BY <1>1, <1>3, <1>6
    <2> QED
        BY <2>1, <2>2, <2>3
<1>7. ASSUME first <= last
      PROVE  (\A k \in first..last : t[k] \in CodeChars) <=>
             (\A k \in first2..last2 : text[k] \in CodeChars)
    <2>1. \A k \in first..last : k \in 1..n-h+1 /\ h + k - 1 \in first2..last2
        BY <1>1, <1>3
    <2>2. \A k \in first2..last2 : k - h + 1 \in first..last /\ h + (k - h + 1) - 1 = k
        BY <1>1, <1>3
    <2> HIDE DEF first, first2, last, last2, t, n
    <2>3. \A k \in first..last : t[k] = text[h + k - 1]
        BY <1>2, <2>1
    <2>4. ASSUME \A k \in first..last : t[k] \in CodeChars, NEW k \in first2..last2
          PROVE  text[k] \in CodeChars
        BY <2>2, <2>3, <2>4
    <2>5. ASSUME \A k \in first2..last2 : text[k] \in CodeChars, NEW k \in first..last
          PROVE  t[k] \in CodeChars
        BY <2>1, <2>3, <2>5
    <2> QED
        BY <2>4, <2>5
<1>8. IsBody(t, i, e) <=> IsBody(text, h + i - 1, h + e - 1)
    <2>1. IsBody(t, i, e) <=>
             /\ LiteralAt(t, i, Opener) /\ first <= last
             /\ \A k \in first..last : t[k] \in CodeChars
             /\ LiteralAt(t, last + 1, Closer)
        BY DEF IsBody
    <2>2. IsBody(text, h + i - 1, h + e - 1) <=>
             /\ LiteralAt(text, h + i - 1, Opener) /\ first2 <= last2
             /\ \A k \in first2..last2 : text[k] \in CodeChars
             /\ LiteralAt(text, last2 + 1, Closer)
        BY DEF IsBody
    <2> HIDE DEF first, first2, last, last2, t, n
    <2> QED
        BY <1>4, <1>5, <1>6, <1>7, <2>1, <2>2
<1>9. e \in i..Len(t) /\ h + e - 1 \in h+i-1..n
    <2> HIDE DEF t
    <2> QED
        BY <1>1, <1>2
<1> HIDE DEF t
<1>10. e \in BodyEnds(t, i) <=> h + e - 1 \in BodyEnds(text, h + i - 1)
    BY <1>8, <1>9, BodyEndsAre
<1> QED
    BY <1>10 DEF t

-----------------------------------------------------------------------------

(* A cut that no placeholder spans.                                        *)
Clean(text, E) == \A i \in 1..E : \A e \in BodyEnds(text, i) : e <= E

LEMMA UnsuffixedFront ==
    ASSUME NEW S, NEW text \in Seq(S), NEW E \in 0..Len(text), Unsuffixed(text)
    PROVE  Unsuffixed(SubSeq(text, 1, E))
<1> DEFINE t == SubSeq(text, 1, E)
<1>1. Len(text) \in Nat /\ E \in Nat /\ E <= Len(text) /\ Len(t) = E /\ \A k \in 1..E : t[k] = text[k]
    OBVIOUS
<1>2. ASSUME NEW i \in 1..Len(t), NEW e \in BodyEnds(t, i), e + 2 <= Len(t)
      PROVE  ~(t[e+1] = Hyphen /\ t[e+2] \in Digits)
    <2>1. e \in i..Len(t)
        BY DEF BodyEnds
    <2>2. i \in 1..E /\ e \in i..E /\ i \in 1..Len(text) /\ e + 1 \in 1..E /\ e + 2 \in 1..E
          /\ e + 2 <= Len(text)
        <3> HIDE DEF t
        <3> QED
            BY <1>1, <1>2, <2>1
    <2>3. e \in BodyEnds(text, i)
        BY <1>2, <2>2, BodyInFront
    <2>4. ~(text[e+1] = Hyphen /\ text[e+2] \in Digits)
        BY <2>2, <2>3 DEF Unsuffixed
    <2> HIDE DEF t
    <2> QED
        BY <1>1, <2>2, <2>4
<1> HIDE DEF t
<1>3. Unsuffixed(t)
    BY <1>2 DEF Unsuffixed
<1> QED
    BY <1>3 DEF t

LEMMA UnsuffixedTail ==
    ASSUME NEW S, NEW text \in Seq(S), NEW h \in 1..Len(text)+1, Unsuffixed(text)
    PROVE  Unsuffixed(SubSeq(text, h, Len(text)))
<1> DEFINE n == Len(text)
           t == SubSeq(text, h, n)
<1>1. n \in Nat /\ h \in Nat /\ h >= 1 /\ h <= n + 1 /\ Len(t) = n - h + 1
      /\ \A k \in 1..n-h+1 : t[k] = text[h+k-1]
    OBVIOUS
<1>2. ASSUME NEW i \in 1..Len(t), NEW e \in BodyEnds(t, i), e + 2 <= Len(t)
      PROVE  ~(t[e+1] = Hyphen /\ t[e+2] \in Digits)
    <2>1. e \in i..Len(t)
        BY DEF BodyEnds
    <2>2. /\ h \in 1..n /\ i \in 1..n-h+1 /\ e \in i..n-h+1
          /\ e + 1 \in 1..n-h+1 /\ e + 2 \in 1..n-h+1
        <3> HIDE DEF t
        <3> QED
            BY <1>1, <1>2, <2>1
    <2>3. h + i - 1 \in 1..n /\ (h + e - 1) + 2 <= n
          /\ h + (e + 1) - 1 = (h + e - 1) + 1 /\ h + (e + 2) - 1 = (h + e - 1) + 2
        BY <1>1, <2>2
    <2>4. h + e - 1 \in BodyEnds(text, h + i - 1)
        BY <1>2, <2>2, BodyInTail
    <2>5. ~(text[(h+e-1)+1] = Hyphen /\ text[(h+e-1)+2] \in Digits)
        BY <2>3, <2>4 DEF Unsuffixed
    <2> HIDE DEF t
    <2> QED
        BY <1>1, <2>2, <2>3, <2>5
<1> HIDE DEF t
<1>3. Unsuffixed(t)
    BY <1>2 DEF Unsuffixed
<1> QED
    BY <1>3 DEF t

(* Before a clean cut the same placeholders are found in the front alone.  *)
LEMMA MatchInFront ==
    ASSUME NEW S, NEW text \in Seq(S), Unsuffixed(text), NEW E \in 0..Len(text),
           Clean(text, E), NEW i \in 1..E
    PROVE  /\ MatchesAt(SubSeq(text, 1, E), i) <=> MatchesAt(text, i)
           /\ MatchesAt(text, i) =>
                 /\ MatchEnd(SubSeq(text, 1, E), i) = MatchEnd(text, i)
                 /\ MatchEnd(text, i) \in i..E
<1> DEFINE t == SubSeq(text, 1, E)
<1>1. Len(text) \in Nat /\ E \in Nat /\ E <= Len(text) /\ Len(t) = E /\ t \in Seq(S)
    OBVIOUS
<1>2. BodyEnds(t, i) \subseteq i..E
    <2>1. BodyEnds(t, i) \subseteq i..Len(t)
        BY DEF BodyEnds
    <2> HIDE DEF t
    <2> QED
        BY <1>1, <2>1
<1>3. BodyEnds(text, i) \subseteq i..E
    <2>1. ASSUME NEW e \in BodyEnds(text, i) PROVE e \in i..E
        <3>1. e \in i..Len(text)
            BY DEF BodyEnds
        <3>2. e <= E
            BY DEF Clean
        <3> QED
            BY <1>1, <3>1, <3>2
    <2> QED
        BY <2>1
<1>4. \A e \in i..E : e \in BodyEnds(t, i) <=> e \in BodyEnds(text, i)
    BY BodyInFront
<1> HIDE DEF t
<1>5. BodyEnds(t, i) = BodyEnds(text, i)
    BY <1>2, <1>3, <1>4
<1>6. Unsuffixed(t)
    BY UnsuffixedFront DEF t
<1>7. MatchesAt(t, i) <=> MatchesAt(text, i)
    BY <1>5 DEF MatchesAt
<1>8. ASSUME MatchesAt(text, i)
      PROVE  MatchEnd(t, i) = MatchEnd(text, i) /\ MatchEnd(text, i) \in i..E
    <2>1. i \in 1..Len(t) /\ i \in 1..Len(text)
        BY <1>1
    <2>2. MatchEnd(t, i) = Max(BodyEnds(t, i))
        BY <1>1, <1>6, <1>7, <1>8, <2>1, UnsuffixedEnd
    <2>3. MatchEnd(text, i) = Max(BodyEnds(text, i))
        BY <1>8, <2>1, UnsuffixedEnd
    <2>4. Max(BodyEnds(text, i)) \in BodyEnds(text, i)
        BY <1>8, <2>1, LongestBody
    <2> QED
        BY <1>3, <1>5, <2>2, <2>3, <2>4
<1> QED
    BY <1>7, <1>8 DEF t

(* Behind any cut the same placeholders are found in the tail alone.       *)
LEMMA MatchInTail ==
    ASSUME NEW S, NEW text \in Seq(S), NEW h \in 1..Len(text),
           NEW i \in 1..Len(text)-h+1
    PROVE  /\ MatchesAt(SubSeq(text, h, Len(text)), i) <=> MatchesAt(text, h + i - 1)
           /\ MatchesAt(text, h + i - 1) =>
                 MatchEnd(text, h + i - 1) = h + MatchEnd(SubSeq(text, h, Len(text)), i) - 1
<1> DEFINE n == Len(text)
           t == SubSeq(text, h, n)
           j == h + i - 1
<1>1. n \in Nat /\ h \in 1..n /\ i \in 1..n-h+1 /\ Len(t) = n-h+1 /\ t \in Seq(S) /\ j \in 1..n
    OBVIOUS
<1>2. BodyEnds(t, i) \subseteq i..n-h+1
    <2>1. BodyEnds(t, i) \subseteq i..Len(t)
        BY DEF BodyEnds
    <2> HIDE DEF t
    <2> QED
        BY <1>1, <2>1
<1>3. BodyEnds(text, j) \subseteq j..n
    BY DEF BodyEnds
<1>4. \A e \in i..n-h+1 : e \in BodyEnds(t, i) <=> h + e - 1 \in BodyEnds(text, j)
    BY BodyInTail
<1>5. \A k \in 1..n-h+1 : t[k] = text[h + k - 1]
    OBVIOUS
<1> HIDE DEF t
<1>6. ASSUME NEW d \in BodyEnds(text, j)
      PROVE  d - h + 1 \in BodyEnds(t, i)
    <2>1. d - h + 1 \in i..n-h+1 /\ h + (d - h + 1) - 1 = d
        BY <1>1, <1>3
    <2> HIDE DEF j, n
    <2> QED
        BY <1>4, <2>1
<1>7. ASSUME NEW e \in BodyEnds(t, i)
      PROVE  h + e - 1 \in BodyEnds(text, j)
    BY <1>2, <1>4
<1>8. MatchesAt(t, i) <=> MatchesAt(text, j)
    BY <1>6, <1>7 DEF MatchesAt
<1>9. ASSUME MatchesAt(text, j)
      PROVE  MatchEnd(text, j) = h + MatchEnd(t, i) - 1
    <2>1. i \in 1..Len(t)
        BY <1>1
    <2> HIDE DEF j, n
    <2> DEFINE e == Max(BodyEnds(t, i))
               d == Max(BodyEnds(text, j))
    <2>4. e \in BodyEnds(t, i) /\ \A y \in BodyEnds(t, i) : y <= e
        BY <1>1, <1>8, <1>9, <2>1, LongestBody
    <2>5. d \in BodyEnds(text, j) /\ \A y \in BodyEnds(text, j) : y <= d
        BY <1>1, <1>9, LongestBody DEF n
    <2> HIDE DEF e, d
    <2>6. d - h + 1 <= e /\ h + e - 1 <= d
        BY <1>6, <1>7, <2>4, <2>5
    <2>7. e \in i..n-h+1 /\ d \in j..n
        BY <1>2, <1>3, <2>4, <2>5
    <2>8. d = h + e - 1
        BY <1>1, <2>6, <2>7
    <2> DEFINE E == Ends(t, e)
               D == Ends(text, d)
    <2>9. /\ MatchEnd(t, i) \in E /\ \A y \in E : y <= MatchEnd(t, i)
          /\ MatchEnd(text, j) \in D /\ \A y \in D : y <= MatchEnd(text, j)
        <3>1. MatchEnd(t, i) \in E /\ \A y \in E : y <= MatchEnd(t, i)
            BY <1>1, <1>8, <1>9, <2>1, MatchEndIs DEF e
        <3>2. MatchEnd(text, j) \in D /\ \A y \in D : y <= MatchEnd(text, j)
            BY <1>1, <1>9, MatchEndIs DEF d, n
        <3> QED
            BY <3>1, <3>2
    <2>10. ASSUME NEW y \in E PROVE h + y - 1 \in D
        <3>1. CASE y = e
            BY <2>8, <3>1 DEF Ends
        <3>2. CASE /\ y \in e+2..Len(t) /\ t[e+1] = Hyphen
                   /\ \A k \in e+2..y : t[k] \in Digits
            <4>1. h + y - 1 \in d+2..n /\ text[d+1] = Hyphen
                <5>1. e + 1 \in 1..n-h+1 /\ h + (e + 1) - 1 = d + 1
                    BY <1>1, <2>7, <2>8, <3>2
                <5> QED
                    BY <1>1, <1>5, <2>7, <2>8, <3>2, <5>1
            <4>2. ASSUME NEW k \in d+2..h+y-1 PROVE text[k] \in Digits
                <5>1. k - h + 1 \in e+2..y /\ k - h + 1 \in 1..n-h+1 /\ h + (k - h + 1) - 1 = k
                    BY <1>1, <2>7, <2>8, <3>2
                <5> QED
                    BY <1>5, <3>2, <5>1
            <4> QED
                BY <4>1, <4>2 DEF Ends, n
        <3> QED
            BY <3>1, <3>2 DEF Ends
    <2>11. ASSUME NEW z \in D PROVE z - h + 1 \in E
        <3>1. CASE z = d
            BY <1>1, <2>7, <2>8, <3>1 DEF Ends
        <3>2. CASE /\ z \in d+2..n /\ text[d+1] = Hyphen
                   /\ \A k \in d+2..z : text[k] \in Digits
            <4>1. z - h + 1 \in e+2..Len(t) /\ t[e+1] = Hyphen
                <5>1. e + 1 \in 1..n-h+1 /\ h + (e + 1) - 1 = d + 1
                    BY <1>1, <2>7, <2>8, <3>2
                <5> QED
                    BY <1>1, <1>5, <2>7, <2>8, <3>2, <5>1
            <4>2. ASSUME NEW k \in e+2..z-h+1 PROVE t[k] \in Digits
                <5>1. h + k - 1 \in d+2..z /\ k \in 1..n-h+1
                    BY <1>1, <2>7, <2>8, <3>2
                <5> QED
                    BY <1>5, <3>2, <5>1
            <4> QED
                BY <4>1, <4>2 DEF Ends
        <3> QED
            BY <3>1, <3>2 DEF Ends, n
    <2>12. MatchEnd(t, i) \in Nat /\ MatchEnd(text, j) \in Nat
        <3>1. e \in Nat /\ d \in Nat /\ Len(t) \in Nat
            BY <1>1, <2>7
        <3>2. E \subseteq Nat
            BY <3>1 DEF Ends
        <3>3. D \subseteq Nat
            BY <1>1, <3>1 DEF Ends
        <3> HIDE DEF E, D
        <3> QED
            BY <2>9, <3>2, <3>3
    <2> HIDE DEF E, D
    <2>13. h + MatchEnd(t, i) - 1 <= MatchEnd(text, j)
        BY <2>9, <2>10
    <2>14. MatchEnd(text, j) - h + 1 <= MatchEnd(t, i)
        BY <2>9, <2>11
    <2> QED
        BY <1>1, <2>12, <2>13, <2>14, SMTT(60)
<1> QED
    BY <1>8, <1>9 DEF t

(* Cutting a tail out of a tail.                                           *)
LEMMA SubSeqOfTail ==
    ASSUME NEW S, NEW text \in Seq(S), NEW h \in 1..Len(text),
           NEW i \in 1..Len(text)-h+1, NEW e \in i..Len(text)-h+1
    PROVE  SubSeq(SubSeq(text, h, Len(text)), i, e) = SubSeq(text, h + i - 1, h + e - 1)
<1> DEFINE n == Len(text)
           t == SubSeq(text, h, n)
           u == SubSeq(t, i, e)
           v == SubSeq(text, h + i - 1, h + e - 1)
<1>1. n \in Nat /\ h \in 1..n /\ i \in 1..n-h+1 /\ e \in i..n-h+1
    OBVIOUS
<1>2. t \in Seq(S) /\ Len(t) = n-h+1 /\ \A k \in 1..n-h+1 : t[k] = text[h+k-1]
    <2>1. h \in 1..Len(text) /\ Len(text) \in h..Len(text)
        OBVIOUS
    <2> QED
        BY <2>1, SubSeqHolds
<1>3. u \in Seq(S) /\ Len(u) = e-i+1 /\ \A k \in 1..e-i+1 : u[k] = t[i+k-1]
    <2>1. i \in 1..Len(t) /\ e \in i..Len(t)
        BY <1>1, <1>2
    <2> HIDE DEF t
    <2> QED
        BY <1>2, <2>1, SubSeqHolds
<1>4. v \in Seq(S) /\ Len(v) = e-i+1 /\ \A k \in 1..e-i+1 : v[k] = text[(h+i-1)+k-1]
    <2> DEFINE a == h + i - 1
               b == h + e - 1
    <2>1. a \in 1..Len(text) /\ b \in a..Len(text) /\ b - a + 1 = e-i+1
        BY <1>1
    <2> HIDE DEF a, b
    <2>2. /\ SubSeq(text, a, b) \in Seq(S)
          /\ Len(SubSeq(text, a, b)) = b-a+1
          /\ \A k \in 1..b-a+1 : SubSeq(text, a, b)[k] = text[a+k-1]
        BY <2>1, SubSeqHolds
    <2> QED
        BY <2>1, <2>2 DEF a, b
<1> HIDE DEF t, u, v
<1>5. \A k \in 1..e-i+1 : u[k] = v[k]
    <2>1. ASSUME NEW k \in 1..e-i+1 PROVE u[k] = v[k]
        <3>1. i+k-1 \in 1..n-h+1 /\ h+(i+k-1)-1 = (h+i-1)+k-1
            BY <1>1
        <3> QED
            BY <1>2, <1>3, <1>4, <3>1
    <2> QED
        BY <2>1
<1>6. u = v
    BY <1>3, <1>4, <1>5, SeqEqual
<1> QED
    BY <1>6 DEF u, v, t

LEMMA SubSeqOfFront ==
    ASSUME NEW S, NEW text \in Seq(S), NEW E \in 0..Len(text), NEW i \in 1..E, NEW e \in i..E
    PROVE  SubSeq(SubSeq(text, 1, E), i, e) = SubSeq(text, i, e)
<1> DEFINE t == SubSeq(text, 1, E)
           u == SubSeq(t, i, e)
           v == SubSeq(text, i, e)
<1>1. Len(text) \in Nat /\ E \in 0..Len(text) /\ i \in 1..E /\ e \in i..E
    OBVIOUS
<1>2. t \in Seq(S) /\ Len(t) = E /\ \A k \in 1..E : t[k] = text[k]
    OBVIOUS
<1>3. u \in Seq(S) /\ Len(u) = e-i+1 /\ \A k \in 1..e-i+1 : u[k] = t[i+k-1]
    <2>1. i \in 1..Len(t) /\ e \in i..Len(t)
        BY <1>1, <1>2
    <2> HIDE DEF t
    <2> QED
        BY <1>2, <2>1, SubSeqHolds
<1>4. v \in Seq(S) /\ Len(v) = e-i+1 /\ \A k \in 1..e-i+1 : v[k] = text[i+k-1]
    <2>1. i \in 1..Len(text) /\ e \in i..Len(text)
        BY <1>1
    <2> QED
        BY <2>1, SubSeqHolds
<1> HIDE DEF t, u, v
<1>5. \A k \in 1..e-i+1 : u[k] = v[k]
    <2>1. ASSUME NEW k \in 1..e-i+1 PROVE u[k] = v[k]
        <3>1. i+k-1 \in 1..E
            BY <1>1
        <3> QED
            BY <1>2, <1>3, <1>4, <3>1
    <2> QED
        BY <2>1
<1>6. u = v
    BY <1>3, <1>4, <1>5, SeqEqual
<1> QED
    BY <1>6 DEF u, v, t

(* The tail restored alone is what restoring the whole gives from there on.*)
LEMMA RestoreTail ==
    ASSUME NEW S, NEW text \in Seq(S), NEW vault, NEW h \in 1..Len(text)
    PROVE  \A j \in 1..Len(text)-h+2 :
               RestoreFrom(SubSeq(text, h, Len(text)), vault)[j] = RestoreFrom(text, vault)[h + j - 1]
<1> DEFINE n == Len(text)
           m == n - h + 1
           t == SubSeq(text, h, n)
           f == RestoreFrom(text, vault)
           g == RestoreFrom(t, vault)
           T == {k \in Nat : \A j \in 1..m+1 : j >= m + 1 - k => g[j] = f[h + j - 1]}
<1>1. n \in Nat /\ h \in 1..n /\ m \in Nat /\ t \in Seq(S) /\ Len(t) = m
      /\ \A k \in 1..m : t[k] = text[h+k-1]
    OBVIOUS
<1>2. /\ \A j \in 1..n+1 : f[j] = RestoreStep(text, vault, f, j)
      /\ \A j \in 1..m+1 : g[j] = RestoreStep(t, vault, g, j)
    <2>1. \A j \in 1..n+1 : f[j] = RestoreStep(text, vault, f, j)
        BY RestoreEquation
    <2>2. \A j \in 1..Len(t)+1 : g[j] = RestoreStep(t, vault, g, j)
        <3> HIDE DEF t
        <3> QED
            BY <1>1, RestoreEquation
    <2> HIDE DEF f, g, t
    <2> QED
        BY <1>1, <2>1, <2>2
<1>3. \A i \in 1..m : /\ MatchesAt(t, i) <=> MatchesAt(text, h + i - 1)
                      /\ MatchesAt(t, i) =>
                           /\ MatchEnd(text, h + i - 1) = h + MatchEnd(t, i) - 1
                           /\ MatchEnd(t, i) \in i..m
                           /\ SubSeq(t, i, MatchEnd(t, i)) =
                              SubSeq(text, h + i - 1, h + MatchEnd(t, i) - 1)
    <2>1. ASSUME NEW i \in 1..m
          PROVE  /\ MatchesAt(t, i) <=> MatchesAt(text, h + i - 1)
                 /\ MatchesAt(t, i) =>
                      /\ MatchEnd(text, h + i - 1) = h + MatchEnd(t, i) - 1
                      /\ MatchEnd(t, i) \in i..m
                      /\ SubSeq(t, i, MatchEnd(t, i)) =
                         SubSeq(text, h + i - 1, h + MatchEnd(t, i) - 1)
        <3>1. MatchesAt(t, i) <=> MatchesAt(text, h + i - 1)
            BY MatchInTail
        <3>2. MatchesAt(t, i) => MatchEnd(text, h + i - 1) = h + MatchEnd(t, i) - 1
            BY MatchInTail
        <3>3. ASSUME MatchesAt(t, i) PROVE MatchEnd(t, i) \in i..m
            <4> HIDE DEF t, m
            <4> QED
                BY <1>1, <3>3, MatchEndIn
        <3>4. MatchesAt(t, i) => SubSeq(t, i, MatchEnd(t, i)) =
                                 SubSeq(text, h + i - 1, h + MatchEnd(t, i) - 1)
            BY <3>3, SubSeqOfTail, SMTT(60)
        <3> QED
            BY <3>1, <3>2, <3>3, <3>4
    <2> QED
        BY <2>1
<1> HIDE DEF f, g, t
<1>4. 0 \in T
    <2>1. ASSUME NEW j \in 1..m+1, j >= m + 1 - 0 PROVE g[j] = f[h + j - 1]
        <3>1. j > Len(t) /\ h + j - 1 > n /\ h + j - 1 \in 1..n+1
            BY <1>1, <2>1
        <3>2. RestoreStep(t, vault, g, j) = <<>>
            BY <3>1 DEF RestoreStep
        <3>3. RestoreStep(text, vault, f, h + j - 1) = <<>>
            BY <3>1 DEF RestoreStep
        <3> QED
            BY <1>2, <3>1, <3>2, <3>3
    <2> QED
        BY <2>1
<1>5. ASSUME NEW k \in Nat, k \in T
      PROVE  k + 1 \in T
    <2>1. ASSUME NEW j \in 1..m+1, j >= m + 1 - (k + 1) PROVE g[j] = f[h + j - 1]
        <3>1. CASE j >= m + 1 - k
            BY <1>5, <3>1
        <3>2. CASE j \in 1..m /\ MatchesAt(t, j)
            <4> DEFINE e == MatchEnd(t, j)
                       d == MatchEnd(text, h + j - 1)
            <4>1. e \in j..m /\ d = h + e - 1 /\ MatchesAt(text, h + j - 1)
                  /\ SubSeq(t, j, e) = SubSeq(text, h + j - 1, d)
                BY <1>3, <3>2
            <4> HIDE DEF e, d
            <4>2. e + 1 \in 1..m+1 /\ e + 1 >= m + 1 - k /\ h + (e + 1) - 1 = d + 1
                <5>1. n \in Nat /\ h \in 1..n /\ m \in Nat /\ e \in j..m /\ d = h + e - 1
                    BY <1>1, <4>1
                <5> HIDE DEF m
                <5> QED
                    BY <2>1, <5>1
            <4>3. g[e + 1] = f[d + 1]
                <5>1. \A y \in 1..m+1 : y >= m + 1 - k => g[y] = f[h + y - 1]
                    BY <1>5
                <5>2. g[e + 1] = f[h + (e + 1) - 1]
                    <6> HIDE DEF T, m
                    <6> QED
                        BY <4>2, <5>1
                <5> QED
                    BY <4>2, <5>2, Zenon
            <4>4. ~(j > Len(t)) /\ ~(h + j - 1 > Len(text)) /\ h + j - 1 \in 1..n+1
                BY <1>1, <3>2
            <4>5. RestoreStep(t, vault, g, j) =
                     (IF SubSeq(t, j, e) \in DOMAIN vault THEN vault[SubSeq(t, j, e)]
                      ELSE SubSeq(t, j, e)) \o g[e + 1]
                BY <3>2, <4>4, Zenon DEF RestoreStep, e
            <4>6. RestoreStep(text, vault, f, h + j - 1) =
                     (IF SubSeq(text, h + j - 1, d) \in DOMAIN vault
                      THEN vault[SubSeq(text, h + j - 1, d)]
                      ELSE SubSeq(text, h + j - 1, d)) \o f[d + 1]
                BY <4>1, <4>4, Zenon DEF RestoreStep, d
            <4>7. RestoreStep(t, vault, g, j) = RestoreStep(text, vault, f, h + j - 1)
                <5> DEFINE shown(p) == IF p \in DOMAIN vault THEN vault[p] ELSE p
                <5>1. RestoreStep(t, vault, g, j) = shown(SubSeq(t, j, e)) \o g[e + 1]
                    BY <4>5
                <5>2. RestoreStep(text, vault, f, h + j - 1) =
                         shown(SubSeq(text, h + j - 1, d)) \o f[d + 1]
                    BY <4>6
                <5>3. SubSeq(t, j, e) = SubSeq(text, h + j - 1, d)
                    BY <4>1
                <5> HIDE DEF shown
                <5> QED
                    BY <4>3, <5>1, <5>2, <5>3
            <4>8. g[j] = RestoreStep(t, vault, g, j)
                  /\ f[h + j - 1] = RestoreStep(text, vault, f, h + j - 1)
                BY <1>2, <4>4
            <4> QED
                BY <4>7, <4>8
        <3>3. CASE j \in 1..m /\ ~MatchesAt(t, j)
            <4>1. ~(j > Len(t)) /\ ~(h + j - 1 > Len(text)) /\ h + j - 1 \in 1..n+1
                  /\ ~MatchesAt(text, h + j - 1) /\ t[j] = text[h + j - 1]
                BY <1>1, <1>3, <3>3
            <4>2. j + 1 \in 1..m+1 /\ j + 1 >= m + 1 - k /\ h + (j + 1) - 1 = (h + j - 1) + 1
                BY <1>1, <2>1, <3>3, SMTT(60)
            <4>3. g[j + 1] = f[(h + j - 1) + 1]
                BY <1>5, <4>2
            <4>4. RestoreStep(t, vault, g, j) = <<t[j]>> \o g[j + 1]
                BY <3>3, <4>1, Zenon DEF RestoreStep
            <4>5. RestoreStep(text, vault, f, h + j - 1) =
                     <<text[h + j - 1]>> \o f[(h + j - 1) + 1]
                BY <4>1, Zenon DEF RestoreStep
            <4>6. RestoreStep(t, vault, g, j) = RestoreStep(text, vault, f, h + j - 1)
                <5>1. <<t[j]>> = <<text[h + j - 1]>>
                    BY <4>1
                <5> QED
                    BY <4>3, <4>4, <4>5, <5>1, Zenon
            <4>7. g[j] = RestoreStep(t, vault, g, j)
                  /\ f[h + j - 1] = RestoreStep(text, vault, f, h + j - 1)
                BY <1>2, <4>1
            <4> QED
                BY <4>6, <4>7
        <3>4. j >= m + 1 - k \/ j \in 1..m
            BY <1>1, <2>1
        <3> QED
            BY <3>1, <3>2, <3>3, <3>4
    <2> QED
        BY <2>1
<1>6. \A k \in Nat : k \in T
    <2> HIDE DEF T
    <2> QED
        BY <1>4, <1>5, NatSetInduction
<1>7. m + 1 \in T
    <2> HIDE DEF T
    <2> QED
        BY <1>1, <1>6
<1>8. ASSUME NEW j \in 1..n-h+2 PROVE g[j] = f[h + j - 1]
    <2>1. j \in 1..m+1 /\ j >= m + 1 - (m + 1)
        BY <1>1
    <2> QED
        BY <1>7, <2>1
<1> QED
    BY <1>8 DEF f, g, t

(* A cut that no placeholder spans does not matter to the restored text.   *)
LEMMA RestoreInParts ==
    ASSUME NEW S, NEW text \in Seq(S), Unsuffixed(text), NEW vault, GivesTexts(vault, S),
           NEW E \in 0..Len(text), Clean(text, E)
    PROVE  Restore(text, vault) =
               Restore(SubSeq(text, 1, E), vault) \o Restore(SubSeq(text, E + 1, Len(text)), vault)
<1> DEFINE n == Len(text)
           a == SubSeq(text, 1, E)
           b == SubSeq(text, E + 1, n)
           f == RestoreFrom(text, vault)
           g == RestoreFrom(a, vault)
           rest == f[E + 1]
           T == {k \in Nat : \A i \in 1..E+1 : i >= E + 1 - k => f[i] = g[i] \o rest}
<1>1. n \in Nat /\ E \in 0..n /\ a \in Seq(S) /\ Len(a) = E /\ \A k \in 1..E : a[k] = text[k]
    OBVIOUS
<1>2. b \in Seq(S) /\ Len(b) = n - E
    <2>1. E + 1 \in 1..n+1
        BY <1>1
    <2> QED
        BY <1>1, <2>1
<1>3. /\ \A i \in 1..n+1 : f[i] = RestoreStep(text, vault, f, i) /\ f[i] \in Seq(S)
      /\ \A i \in 1..E+1 : g[i] = RestoreStep(a, vault, g, i) /\ g[i] \in Seq(S)
    <2>1. \A i \in 1..n+1 : f[i] = RestoreStep(text, vault, f, i) /\ f[i] \in Seq(S)
        BY RestoreEquation, RestoreFromType
    <2>2. \A i \in 1..Len(a)+1 : g[i] = RestoreStep(a, vault, g, i) /\ g[i] \in Seq(S)
        <3> HIDE DEF a
        <3> QED
            BY <1>1, RestoreEquation, RestoreFromType
    <2> HIDE DEF f, g, a
    <2> QED
        BY <1>1, <2>1, <2>2
<1>4. \A i \in 1..E : /\ MatchesAt(a, i) <=> MatchesAt(text, i)
                      /\ MatchesAt(text, i) =>
                            /\ MatchEnd(a, i) = MatchEnd(text, i)
                            /\ MatchEnd(text, i) \in i..E
                            /\ SubSeq(a, i, MatchEnd(text, i)) = SubSeq(text, i, MatchEnd(text, i))
    <2>1. ASSUME NEW i \in 1..E
          PROVE  /\ MatchesAt(a, i) <=> MatchesAt(text, i)
                 /\ MatchesAt(text, i) =>
                       /\ MatchEnd(a, i) = MatchEnd(text, i)
                       /\ MatchEnd(text, i) \in i..E
                       /\ SubSeq(a, i, MatchEnd(text, i)) = SubSeq(text, i, MatchEnd(text, i))
        <3>1. /\ MatchesAt(a, i) <=> MatchesAt(text, i)
              /\ MatchesAt(text, i) =>
                    MatchEnd(a, i) = MatchEnd(text, i) /\ MatchEnd(text, i) \in i..E
            BY MatchInFront
        <3>2. MatchesAt(text, i) =>
                 SubSeq(a, i, MatchEnd(text, i)) = SubSeq(text, i, MatchEnd(text, i))
            BY <3>1, SubSeqOfFront
        <3> QED
            BY <3>1, <3>2
    <2> QED
        BY <2>1
<1>5. Restore(b, vault) = rest
    <2>1. CASE E < n
        <3>1. E + 1 \in 1..n /\ 1 \in 1..n-(E+1)+2 /\ (E + 1) + 1 - 1 = E + 1
            BY <1>1, <2>1
        <3>2. RestoreFrom(b, vault)[1] = f[(E + 1) + 1 - 1]
            BY <3>1, RestoreTail
        <3> QED
            BY <3>1, <3>2, RestoreIs
    <2>2. CASE E = n
        <3>1. b = <<>>
            BY <1>2, <2>2
        <3>2. rest = <<>>
            <4>1. E + 1 \in 1..n+1 /\ E + 1 > Len(text)
                BY <1>1, <2>2
            <4> HIDE DEF f
            <4> QED
                BY <1>3, <4>1 DEF RestoreStep
        <3> QED
            BY <3>1, <3>2, RestoreNothing
    <2> QED
        BY <1>1, <2>1, <2>2
<1> HIDE DEF f, g, a, b
<1>6. rest \in Seq(S)
    BY <1>1, <1>3
<1>7. 0 \in T
    <2>1. ASSUME NEW i \in 1..E+1, i >= E + 1 - 0 PROVE f[i] = g[i] \o rest
        <3>1. i = E + 1 /\ i > Len(a)
            BY <1>1, <2>1
        <3>2. g[i] = <<>>
            BY <1>3, <3>1 DEF RestoreStep
        <3>3. <<>> \o rest = rest
            <4> HIDE DEF rest
            <4> QED
                BY <1>6, ConcatEmptySeq
        <3> QED
            BY <3>1, <3>2, <3>3
    <2> QED
        BY <2>1
<1> HIDE DEF rest
<1>8. ASSUME NEW k \in Nat, k \in T
      PROVE  k + 1 \in T
    <2>1. ASSUME NEW i \in 1..E+1, i >= E + 1 - (k + 1) PROVE f[i] = g[i] \o rest
        <3>1. CASE i >= E + 1 - k
            BY <1>8, <3>1
        <3>2. CASE i \in 1..E /\ MatchesAt(text, i)
            <4> DEFINE e == MatchEnd(text, i)
                       p == SubSeq(text, i, e)
                       q == IF p \in DOMAIN vault THEN vault[p] ELSE p
            <4>1. e \in i..E /\ MatchEnd(a, i) = e /\ SubSeq(a, i, e) = p /\ MatchesAt(a, i)
                BY <1>4, <3>2
            <4>2. p \in Seq(S)
                <5> HIDE DEF e
                <5> QED
                    BY <1>1, <3>2, <4>1
            <4>3. q \in Seq(S)
                <5> HIDE DEF p
                <5> QED
                    BY <4>2 DEF GivesTexts
            <4> HIDE DEF e
            <4>4. e + 1 \in 1..E+1 /\ e + 1 >= E + 1 - k
                BY <1>1, <2>1, <4>1
            <4>5. f[e + 1] = g[e + 1] \o rest /\ g[e + 1] \in Seq(S)
                BY <1>3, <1>8, <4>4
            <4>6. ~(i > Len(text)) /\ ~(i > Len(a)) /\ i \in 1..n+1
                BY <1>1, <3>2
            <4>7. RestoreStep(text, vault, f, i) = q \o f[e + 1]
                BY <3>2, <4>6, Zenon DEF RestoreStep, e
            <4>8. RestoreStep(a, vault, g, i) = q \o g[e + 1]
                BY <4>1, <4>6, Zenon DEF RestoreStep
            <4> HIDE DEF q
            <4>9. q \o (g[e + 1] \o rest) = (q \o g[e + 1]) \o rest
                <5> DEFINE r == g[e + 1]
                <5>1. q \in Seq(S) /\ r \in Seq(S) /\ rest \in Seq(S)
                    BY <1>6, <4>3, <4>5
                <5> HIDE DEF r
                <5>2. q \o (r \o rest) = (q \o r) \o rest
                    BY <5>1, ConcatAssociative, SMTT(60)
                <5> QED
                    BY <5>2 DEF r
            <4>10. f[i] = RestoreStep(text, vault, f, i) /\ g[i] = RestoreStep(a, vault, g, i)
                BY <1>3, <4>6
            <4> QED
                BY <4>5, <4>7, <4>8, <4>9, <4>10, Zenon
        <3>3. CASE i \in 1..E /\ ~MatchesAt(text, i)
            <4>1. i + 1 \in 1..E+1 /\ i + 1 >= E + 1 - k /\ ~MatchesAt(a, i)
                BY <1>1, <1>4, <2>1, <3>3
            <4>2. f[i + 1] = g[i + 1] \o rest /\ g[i + 1] \in Seq(S)
                BY <1>3, <1>8, <4>1
            <4>3. ~(i > Len(text)) /\ ~(i > Len(a)) /\ i \in 1..n+1 /\ a[i] = text[i]
                  /\ <<text[i]>> \in Seq(S)
                BY <1>1, <3>3
            <4>4. RestoreStep(text, vault, f, i) = <<text[i]>> \o f[i + 1]
                BY <3>3, <4>3, Zenon DEF RestoreStep
            <4>5. RestoreStep(a, vault, g, i) = <<text[i]>> \o g[i + 1]
                BY <4>1, <4>3, Zenon DEF RestoreStep
            <4>6. <<text[i]>> \o (g[i + 1] \o rest) = (<<text[i]>> \o g[i + 1]) \o rest
                <5> DEFINE q == <<text[i]>>
                           r == g[i + 1]
                <5>1. q \in Seq(S) /\ r \in Seq(S) /\ rest \in Seq(S)
                    BY <1>6, <4>2, <4>3
                <5> HIDE DEF q, r
                <5>2. q \o (r \o rest) = (q \o r) \o rest
                    BY <5>1, ConcatAssociative, SMTT(60)
                <5> QED
                    BY <5>2 DEF q, r
            <4>7. f[i] = RestoreStep(text, vault, f, i) /\ g[i] = RestoreStep(a, vault, g, i)
                BY <1>3, <4>3
            <4> QED
                BY <4>2, <4>4, <4>5, <4>6, <4>7, Zenon
        <3>4. i >= E + 1 - k \/ i \in 1..E
            BY <1>1, <2>1
        <3> QED
            BY <3>1, <3>2, <3>3, <3>4
    <2> QED
        BY <2>1
<1>9. E \in T
    <2>1. \A k \in Nat : k \in T
        <3> HIDE DEF T
        <3> QED
            BY <1>7, <1>8, NatSetInduction
    <2> HIDE DEF T
    <2> QED
        BY <1>1, <2>1
<1>10. f[1] = g[1] \o rest
    <2>1. 1 \in 1..E+1 /\ 1 >= E + 1 - E
        BY <1>1
    <2> QED
        BY <1>9, <2>1
<1> QED
    BY <1>5, <1>10, RestoreIs DEF f, g, a, b

-----------------------------------------------------------------------------

(* Every opener that begins in the first E characters of text is closed    *)
(* there, or another opener follows it there or next.                      *)
Settled(text, E) ==
    \A i \in 1..E : LiteralAt(text, i, Opener) =>
        \/ \E k \in i..E : text[k] = Bracket
        \/ \E j \in i+1..E+1 : LiteralAt(text, j, Opener)

LEMMA FormatFacts ==
    ASSUME UnambiguousFormat
    PROVE  /\ Len(Opener) \in Nat \ {0} /\ Len(Closer) \in Nat \ {0}
           /\ Len(Opener) < Window
           /\ \A k \in 1..Len(Opener) : Opener[k] # Bracket /\ (Opener[k] = Opener[1] => k = 1)
           /\ \A k \in 1..Len(Closer) : Closer[k] # Opener[1] /\ (Closer[k] = Bracket => k = Len(Closer))
<1>1. Len(Opener) \in Nat \ {0} /\ Len(Closer) \in Nat \ {0}
    BY LiteralsAssumption DEF UnambiguousFormat
<1>2. Len(Opener) < Window
    BY <1>1, RoomAssumption DEF Window
<1>3. \A k \in 1..Len(Opener) : Opener[k] \in Range(Opener)
    BY LiteralsAssumption
<1>4. \A k \in 1..Len(Closer) : Closer[k] \in Range(Closer)
    BY LiteralsAssumption
<1>5. \A k \in 1..Len(Opener) : k \in 2..Len(Opener) \/ k = 1
    BY <1>1
<1> QED
    BY <1>1, <1>2, <1>3, <1>4, <1>5 DEF UnambiguousFormat

(* What drain emits is settled.                                            *)
LEMMA CutSettles ==
    ASSUME UnambiguousFormat, NEW S, NEW text \in Seq(S)
    PROVE  Settled(text, Cut(text))
<1> DEFINE n == Len(text)
           w == n - Window
           ready == SubSeq(text, 1, w)
           h == HoldBackPoint(ready)
           c == Cut(text)
<1>1. SUFFICES ASSUME NEW i \in 1..c, LiteralAt(text, i, Opener)
               PROVE  \/ \E k \in i..c : text[k] = Bracket
                      \/ \E j \in i+1..c+1 : LiteralAt(text, j, Opener)
    BY DEF Settled
<1>2. n \in Nat /\ Window \in Nat /\ Len(Opener) \in Nat \ {0} /\ Opener # <<>>
    BY LiteralLengths, FormatFacts DEF UnambiguousFormat
<1>3. n > Window
    BY <1>1, <1>2, CutIs
<1>4. w \in 1..n /\ h \in 0..w /\ c = IF h # 0 THEN h - 1 ELSE w
    BY <1>3, CutIs
<1>5. ready \in Seq(S) /\ Len(ready) = w /\ \A k \in 1..w : ready[k] = text[k]
    <2> HIDE DEF w
    <2> QED
        BY <1>2, <1>4
<1>6. i \in 1..w /\ i <= c
    BY <1>1, <1>4
<1>7. \A j \in 1..w+1 : LiteralAt(ready, j, Opener) <=>
                           (LiteralAt(text, j, Opener) /\ j + Len(Opener) - 1 <= w)
    <2> HIDE DEF w
    <2>1. w \in 0..Len(text)
        BY <1>4
    <2> QED
        BY <1>2, <2>1, LiteralInFront
<1> HIDE DEF ready, c, w
<1>8. CASE i + Len(Opener) - 1 <= w
    <2> DEFINE L == LastOpener(ready)
    <2>1. LiteralAt(ready, i, Opener)
        <3>1. i \in 1..w+1
            BY <1>4, <1>6
        <3> QED
            BY <1>1, <1>7, <1>8, <3>1
    <2>2. L \in i..w /\ LiteralAt(ready, L, Opener)
        <3>1. i <= L /\ L \in 0..w
            BY <1>2, <1>5, <1>6, <2>1, LastOpenerIs
        <3>2. LiteralAt(ready, L, Opener)
            BY <1>5, <1>6, <3>1, LastOpenerIs
        <3> HIDE DEF L
        <3> QED
            BY <1>4, <1>6, <3>1, <3>2
    <2>3. CASE LastUnclosedOpener(ready) # 0
        <3>1. h = L
            BY <1>5, <2>3, HoldBackPointIs, LastUnclosedOpenerIs
        <3> HIDE DEF L
        <3>2. LiteralAt(text, L, Opener)
            BY <1>4, <1>6, <1>7, <2>2
        <3>3. L \in i+1..c+1
            BY <1>4, <1>6, <2>2, <3>1
        <3> QED
            BY <3>2, <3>3
    <2>4. CASE LastUnclosedOpener(ready) = 0
        <3>1. PICK k \in L..w : ready[k] = Bracket
            <4>1. \E k \in L..Len(ready) : ready[k] = Bracket
                BY <1>6, <2>2, <2>4 DEF LastUnclosedOpener
            <4> QED
                BY <1>5, <4>1
        <3> HIDE DEF L
        <3>2. k \in i..w /\ text[k] = Bracket
            BY <1>4, <1>5, <1>6, <2>2, <3>1
        <3>3. CASE h = 0
            BY <1>4, <3>2, <3>3
        <3>4. CASE h # 0
            <4>1. h = TrailingOpenerPrefix(ready)
                BY <1>5, <2>4, HoldBackPointIs
            <4> DEFINE m == w - h + 1
                       lit == SubSeq(Opener, 1, m)
            <4>2. m \in PrefixLengths(ready)
                BY <1>5, <3>4, <4>1, TrailingPrefixIs
            <4>3. LiteralAt(ready, w - m + 1, lit) /\ m \in 1..Len(Opener)-1
                BY <1>5, <4>2 DEF PrefixLengths
            <4>4. Len(lit) = m /\ \A d \in 1..m : lit[d] = Opener[d]
                <5> HIDE DEF m
                <5> QED
                    BY <1>2, <4>3, LiteralsAssumption
            <4>5. k < h
                <5>1. SUFFICES ASSUME k >= h PROVE FALSE
                    BY <1>4, <3>2
                <5>2. k - h + 1 \in 1..m /\ (w - m + 1) + (k - h + 1) - 1 = k
                    <6>1. k \in i..w /\ h \in 1..w /\ w \in Nat /\ i \in Nat
                        BY <1>4, <1>6, <3>2, <3>4
                    <6> HIDE DEF h
                    <6> QED
                        BY <5>1, <6>1
                <5>3. ready[k] = lit[k - h + 1]
                    <6> HIDE DEF m, lit
                    <6> QED
                        BY <4>3, <4>4, <5>2 DEF LiteralAt
                <5>4. Opener[k - h + 1] # Bracket
                    <6> HIDE DEF m
                    <6> QED
                        BY <1>2, <4>3, <5>2, FormatFacts
                <5> QED
                    BY <3>1, <4>4, <5>2, <5>3, <5>4
            <4>6. k \in i..c
                BY <1>4, <3>2, <3>4, <4>5
            <4> QED
                BY <3>2, <4>6
        <3> QED
            BY <3>3, <3>4
    <2> QED
        BY <2>3, <2>4
<1>9. CASE i + Len(Opener) - 1 > w
    <2> DEFINE m == w - i + 1
               lit == SubSeq(Opener, 1, m)
    <2>1. m \in 1..Len(Opener)-1 /\ m <= w /\ w - m + 1 = i /\ w \in Nat
        BY <1>2, <1>4, <1>6, <1>9
    <2>2. Len(lit) = m /\ \A d \in 1..m : lit[d] = Opener[d]
        <3> HIDE DEF m
        <3> QED
            BY <1>2, <2>1, LiteralsAssumption
    <2>3. \A d \in 1..m : ready[i + d - 1] = lit[d]
        <3>1. ASSUME NEW d \in 1..m PROVE ready[i + d - 1] = lit[d]
            <4>1. i + d - 1 \in 1..w /\ d \in 1..Len(Opener)
                BY <1>2, <1>6, <2>1
            <4>2. text[i + d - 1] = Opener[d]
                BY <1>1, <4>1 DEF LiteralAt
            <4> HIDE DEF lit
            <4> QED
                BY <1>5, <2>2, <4>1, <4>2
        <3> QED
            BY <3>1
    <2>4. LiteralAt(ready, i, lit)
        <3>1. i + m - 1 <= w
            BY <1>6, <2>1
        <3> HIDE DEF m, lit
        <3> QED
            BY <1>5, <2>2, <2>3, <3>1 DEF LiteralAt
    <2>5. m \in PrefixLengths(ready)
        <3>1. LiteralAt(ready, w - m + 1, lit)
            <4> HIDE DEF m, lit
            <4> QED
                BY <2>1, <2>4
        <3> HIDE DEF m
        <3> QED
            BY <1>5, <2>1, <3>1 DEF PrefixLengths
    <2>6. TrailingOpenerPrefix(ready) # 0 /\ TrailingOpenerPrefix(ready) \in 0..w
        BY <1>5, <2>5, TrailingPrefixIs
    <2>7. m <= w - TrailingOpenerPrefix(ready) + 1
        BY <1>5, <2>5, <2>6, TrailingPrefixIs
    <2>8. h \in 1..TrailingOpenerPrefix(ready)
        BY <1>5, <2>6, HoldBackPointIs
    <2>9. FALSE
        BY <1>4, <1>6, <2>6, <2>7, <2>8
    <2> QED
        BY <2>9
<1>10. i + Len(Opener) - 1 <= w \/ i + Len(Opener) - 1 > w
    BY <1>2, <1>4, <1>6
<1> QED
    BY <1>8, <1>9, <1>10 DEF c

-----------------------------------------------------------------------------

Begins(a, v) == Len(a) <= Len(v) /\ \A k \in 1..Len(a) : v[k] = a[k]

LEMMA LiteralInBeginning ==
    ASSUME NEW S, NEW a \in Seq(S), NEW v \in Seq(S), Begins(a, v), NEW i \in Nat \ {0},
           NEW lit, Len(lit) \in Nat, i + Len(lit) - 1 <= Len(a)
    PROVE  LiteralAt(v, i, lit) <=> LiteralAt(a, i, lit)
<1>1. Len(a) \in Nat /\ Len(v) \in Nat /\ Len(a) <= Len(v) /\ \A k \in 1..Len(a) : v[k] = a[k]
    BY DEF Begins
<1>2. \A k \in 1..Len(lit) : i + k - 1 \in 1..Len(a)
    BY <1>1
<1>3. \A k \in 1..Len(lit) : v[i + k - 1] = a[i + k - 1]
    BY <1>1, <1>2
<1>4. i + Len(lit) - 1 <= Len(v)
    BY <1>1
<1> QED
    BY <1>3, <1>4 DEF LiteralAt

LEMMA ConcatBegins ==
    ASSUME NEW S, NEW a \in Seq(S), NEW t \in Seq(S)
    PROVE  Begins(a, a \o t) /\ a \o t \in Seq(S) /\ Len(a \o t) = Len(a) + Len(t)
BY ConcatProperties DEF Begins

(* Text that arrives later does not unsettle what is.                      *)
LEMMA SettledGrows ==
    ASSUME UnambiguousFormat, NEW S, NEW a \in Seq(S), NEW v \in Seq(S), Begins(a, v),
           NEW E \in 0..Len(a), E = 0 \/ Len(a) - E >= Window, Settled(a, E)
    PROVE  Settled(v, E)
<1>1. SUFFICES ASSUME NEW i \in 1..E, LiteralAt(v, i, Opener)
               PROVE  \/ \E k \in i..E : v[k] = Bracket
                      \/ \E j \in i+1..E+1 : LiteralAt(v, j, Opener)
    BY DEF Settled
<1>2. Len(a) \in Nat /\ Len(Opener) \in Nat /\ Window \in Nat /\ Len(Opener) < Window
    BY LiteralLengths, FormatFacts
<1>3. i + Len(Opener) - 1 <= Len(a) /\ i \in Nat \ {0}
    BY <1>1, <1>2
<1>4. LiteralAt(a, i, Opener)
    BY <1>1, <1>2, <1>3, LiteralInBeginning
<1>5. CASE \E k \in i..E : a[k] = Bracket
    <2>1. PICK k \in i..E : a[k] = Bracket
        BY <1>5
    <2>2. v[k] = a[k]
        BY <1>1, <1>2 DEF Begins
    <2> QED
        BY <2>1, <2>2
<1>6. CASE \E j \in i+1..E+1 : LiteralAt(a, j, Opener)
    <2>1. PICK j \in i+1..E+1 : LiteralAt(a, j, Opener)
        BY <1>6
    <2>2. j + Len(Opener) - 1 <= Len(a) /\ j \in Nat \ {0}
        BY <1>1, <2>1 DEF LiteralAt
    <2>3. LiteralAt(v, j, Opener)
        BY <1>2, <2>1, <2>2, LiteralInBeginning
    <2> QED
        BY <2>3
<1> QED
    BY <1>1, <1>4, <1>5, <1>6 DEF Settled

(* In a placeholder the bracket is the last character, and no opener       *)
(* begins but at the first.                                                *)
LEMMA BodyChars ==
    ASSUME UnambiguousFormat, NEW S, NEW v \in Seq(S), NEW i \in 1..Len(v),
           NEW e \in BodyEnds(v, i)
    PROVE  /\ e \in i..Len(v)
           /\ v[e] = Bracket
           /\ \A k \in i..e : (v[k] = Bracket => k = e) /\ (v[k] = Opener[1] => k = i)
<1> DEFINE first == i + Len(Opener)
           last == e - Len(Closer)
<1>1. e \in i..Len(v) /\ IsBody(v, i, e)
    BY BodyEndsAre
<1>2. Len(Opener) \in Nat \ {0} /\ Len(Closer) \in Nat \ {0} /\ Len(v) \in Nat
    BY FormatFacts
<1>3. first <= last /\ i <= e /\ e \in Nat
    BY <1>1 DEF IsBody
<1>4. \A k \in 1..Len(Opener) : v[i + k - 1] = Opener[k]
    BY <1>1 DEF IsBody, LiteralAt
<1>5. \A k \in 1..Len(Closer) : v[(last + 1) + k - 1] = Closer[k]
    BY <1>1 DEF IsBody, LiteralAt
<1>6. \A k \in first..last : v[k] \in CodeChars
    BY <1>1 DEF IsBody
<1>7. ASSUME NEW k \in i..first-1
      PROVE  (v[k] = Bracket => k = e) /\ (v[k] = Opener[1] => k = i)
    <2>1. k - i + 1 \in 1..Len(Opener) /\ i + (k - i + 1) - 1 = k
        BY <1>2
    <2>2. v[k] = Opener[k - i + 1]
        BY <1>4, <2>1
    <2>3. Opener[k - i + 1] # Bracket /\ (Opener[k - i + 1] = Opener[1] => k - i + 1 = 1)
        BY <2>1, FormatFacts
    <2> QED
        BY <1>2, <2>2, <2>3
<1>8. ASSUME NEW k \in first..last
      PROVE  v[k] # Bracket /\ v[k] # Opener[1]
    BY <1>6 DEF UnambiguousFormat
<1>9. ASSUME NEW k \in last+1..e
      PROVE  (v[k] = Bracket <=> k = e) /\ v[k] # Opener[1]
    <2>1. k - last \in 1..Len(Closer) /\ (last + 1) + (k - last) - 1 = k
          /\ (k - last = Len(Closer) <=> k = e)
        BY <1>2, <1>3
    <2>2. v[k] = Closer[k - last]
        <3> HIDE DEF last
        <3> QED
            BY <1>5, <2>1
    <2>3. (Closer[k - last] = Bracket <=> k - last = Len(Closer)) /\ Closer[k - last] # Opener[1]
        <3> HIDE DEF last
        <3>1. Closer[k - last] = Bracket <=> k - last = Len(Closer)
            BY <2>1 DEF UnambiguousFormat
        <3>2. Closer[k - last] # Opener[1]
            BY <2>1, FormatFacts
        <3> QED
            BY <3>1, <3>2
    <2> HIDE DEF last
    <2> QED
        BY <2>1, <2>2, <2>3
<1>10. \A k \in i..e : k \in i..first-1 \/ k \in first..last \/ k \in last+1..e
    BY <1>2, <1>3
<1>11. e \in last+1..e
    BY <1>2, <1>3
<1> HIDE DEF first, last
<1> QED
    BY <1>1, <1>7, <1>8, <1>9, <1>10, <1>11

(* No placeholder spans a settled cut.                                     *)
LEMMA SettledClean ==
    ASSUME UnambiguousFormat, NEW S, NEW v \in Seq(S), NEW E \in 0..Len(v), Settled(v, E)
    PROVE  Clean(v, E)
<1>1. SUFFICES ASSUME NEW i \in 1..E, NEW e \in BodyEnds(v, i) PROVE e <= E
    BY DEF Clean
<1>2. E \in Nat /\ Len(v) \in Nat /\ i \in 1..Len(v) /\ Len(Opener) \in Nat \ {0}
    BY FormatFacts
<1>3. e \in i..Len(v) /\ LiteralAt(v, i, Opener)
    BY BodyEndsAre DEF IsBody
<1>4. \A k \in i..e : (v[k] = Bracket => k = e) /\ (v[k] = Opener[1] => k = i)
    BY <1>2, BodyChars
<1>5. CASE \E k \in i..E : v[k] = Bracket
    <2>1. PICK k \in i..E : v[k] = Bracket
        BY <1>5
    <2>2. k \in i..e => k = e
        BY <1>4, <2>1
    <2> QED
        BY <1>2, <1>3, <2>2
<1>6. CASE \E j \in i+1..E+1 : LiteralAt(v, j, Opener)
    <2>1. PICK j \in i+1..E+1 : LiteralAt(v, j, Opener)
        BY <1>6
    <2>2. v[j + 1 - 1] = Opener[1]
        BY <1>2, <2>1 DEF LiteralAt
    <2>3. v[j] = Opener[1]
        <3>1. j + 1 - 1 = j
            BY <1>1, <2>1
        <3> QED
            BY <2>2, <3>1
    <2>4. j \in i..e => j = i
        BY <1>4, <2>3
    <2> QED
        BY <1>2, <1>3, <2>1, <2>4
<1> QED
    BY <1>1, <1>3, <1>5, <1>6 DEF Settled

-----------------------------------------------------------------------------

(* Of the text a that arrived, the first E characters went out.            *)
GoodCut(a, E) ==
    /\ E \in 0..Len(a)
    /\ E = 0 \/ Len(a) - E >= Window
    /\ Settled(a, E)

LEMMA TailGrows ==
    ASSUME NEW S, NEW a \in Seq(S), NEW t \in Seq(S), NEW E \in 0..Len(a)
    PROVE  SubSeq(a, E + 1, Len(a)) \o t = SubSeq(a \o t, E + 1, Len(a \o t))
<1>1. CASE E = 0
    <2>1. SubSeq(a, 1, Len(a)) = a
        BY SubSeqFull
    <2>2. SubSeq(a \o t, 1, Len(a \o t)) = a \o t
        <3> DEFINE u == a \o t
        <3>1. u \in Seq(S)
            BY ConcatBegins
        <3> HIDE DEF u
        <3>2. SubSeq(u, 1, Len(u)) = u
            BY <3>1, SubSeqFull
        <3> QED
            BY <3>2 DEF u
    <2>3. E + 1 = 1
        BY <1>1
    <2> QED
        BY <2>1, <2>2, <2>3
<1>2. CASE E \in 1..Len(a)
    BY <1>2, TailOfConcat
<1>3. E = 0 \/ E \in 1..Len(a)
    OBVIOUS
<1> QED
    BY <1>1, <1>2, <1>3, Zenon

(* A chunk arrives and drain cuts again: the cut stays good.               *)
LEMMA GoodCutFeed ==
    ASSUME UnambiguousFormat, NEW S, NEW a \in Seq(S), NEW t \in Seq(S), NEW E, GoodCut(a, E)
    PROVE  LET text == SubSeq(a, E + 1, Len(a)) \o t
           IN  /\ text \in Seq(S) /\ Len(text) = Len(a) + Len(t) - E
               /\ Cut(text) \in 0..Len(text)
               /\ GoodCut(a \o t, E + Cut(text))
<1> DEFINE n == Len(a) + Len(t)
           v == a \o t
           text == SubSeq(a, E + 1, Len(a)) \o t
           c == Cut(text)
<1>1. Len(a) \in Nat /\ Len(t) \in Nat /\ E \in 0..Len(a) /\ Window \in Nat
      /\ (E = 0 \/ Len(a) - E >= Window) /\ Settled(a, E)
    BY LiteralLengths DEF GoodCut
<1>2. v \in Seq(S) /\ Len(v) = n /\ Begins(a, v)
    BY ConcatBegins
<1>3. text = SubSeq(v, E + 1, n)
    <2>1. SubSeq(a, E + 1, Len(a)) \o t = SubSeq(a \o t, E + 1, Len(a \o t))
        BY <1>1, TailGrows, Zenon
    <2>2. Len(a \o t) = n
        BY <1>2
    <2> QED
        BY <2>1, <2>2, Zenon DEF text, v
<1>4. text \in Seq(S) /\ Len(text) = n - E /\ \A k \in 1..n-E : text[k] = v[E + k]
    <2> HIDE DEF v, text
    <2>1. E + 1 \in 1..n+1 /\ n \in Nat
        BY <1>1
    <2> HIDE DEF n
    <2> DEFINE w == SubSeq(v, E + 1, n)
    <2>2. /\ w \in Seq(S) /\ Len(w) = n - (E + 1) + 1
          /\ \A k \in 1..n-(E+1)+1 : w[k] = v[(E + 1)+k-1]
        <3> DEFINE e1 == E + 1
        <3>1. e1 \in 1..n+1
            BY <2>1
        <3> HIDE DEF e1
        <3>2. /\ SubSeq(v, e1, n) \in Seq(S) /\ Len(SubSeq(v, e1, n)) = n - e1 + 1
              /\ \A k \in 1..n-e1+1 : SubSeq(v, e1, n)[k] = v[e1+k-1]
            BY <1>2, <2>1, <3>1, SMTT(60)
        <3> QED
            BY <3>2, Zenon DEF e1
    <2>3. n - (E + 1) + 1 = n - E /\ \A k \in 1..n-E : (E + 1)+k-1 = E + k
        BY <1>1, <2>1
    <2>4. text = w
        BY <1>3, Zenon
    <2> HIDE DEF w
    <2> QED
        BY <2>2, <2>3, <2>4, SMTT(60)
<1> HIDE DEF v, text
<1>5. c \in 0..n-E /\ Settled(text, c)
    BY <1>4, CutIs, CutSettles
<1>6. c = 0 \/ n - (E + c) >= Window
    <2>1. CASE n - E <= Window
        BY <1>4, <2>1, CutIs
    <2>2. CASE n - E > Window
        <3> DEFINE w == (n - E) - Window
                   point == HoldBackPoint(SubSeq(text, 1, w))
        <3>1. w \in 1..n-E /\ point \in 0..w /\ c = IF point # 0 THEN point - 1 ELSE w
            BY <1>4, <2>2, CutIs
        <3>2. c <= w
            <4> HIDE DEF w, point
            <4> QED
                BY <3>1
        <3> QED
            BY <1>1, <1>5, <3>2
    <2> QED
        BY <1>1, <2>1, <2>2
<1> HIDE DEF c
<1>7. Settled(v, E)
    BY <1>1, <1>2, SettledGrows
<1>8. Settled(v, E + c)
    <2>1. SUFFICES ASSUME NEW i \in 1..E+c, LiteralAt(v, i, Opener)
                   PROVE  \/ \E k \in i..E+c : v[k] = Bracket
                          \/ \E j \in i+1..E+c+1 : LiteralAt(v, j, Opener)
        BY DEF Settled
    <2>2. CASE i \in 1..E
        <3>1. \/ \E k \in i..E : v[k] = Bracket
              \/ \E j \in i+1..E+1 : LiteralAt(v, j, Opener)
            BY <1>7, <2>1, <2>2 DEF Settled
        <3>2. i..E \subseteq i..E+c /\ i+1..E+1 \subseteq i+1..E+c+1
            BY <1>1, <1>5, <2>2
        <3> QED
            BY <3>1, <3>2
    <2>3. CASE i \in E+1..E+c
        <3> DEFINE d == i - E
        <3>1. d \in 1..c /\ d \in 1..n-E /\ (E + 1) + d - 1 = i /\ E + 1 \in 1..n
            BY <1>1, <1>5, <2>3
        <3>2. ASSUME NEW j \in 1..n-E
              PROVE  LiteralAt(text, j, Opener) <=> LiteralAt(v, E + j, Opener)
            <4>1. j \in 1..Len(v)-(E+1)+1 /\ E + 1 \in 1..Len(v) /\ (E + 1) + j - 1 = E + j
                BY <1>1, <1>2, <3>1
            <4>2. LiteralAt(SubSeq(v, E + 1, Len(v)), j, Opener) <=>
                  LiteralAt(v, (E + 1) + j - 1, Opener)
                <5>1. Len(Opener) \in Nat
                    BY LiteralLengths
                <5> QED
                    BY <1>2, <4>1, <5>1, LiteralInTail
            <4> QED
                BY <1>2, <1>3, <4>1, <4>2
        <3>3. LiteralAt(text, d, Opener)
            <4>1. E + d = i
                BY <1>1, <2>3
            <4> QED
                BY <2>1, <3>1, <3>2, <4>1
        <3>4. \/ \E k \in d..c : text[k] = Bracket
              \/ \E j \in d+1..c+1 : LiteralAt(text, j, Opener)
            BY <1>5, <3>1, <3>3 DEF Settled
        <3>5. CASE \E k \in d..c : text[k] = Bracket
            <4>1. PICK k \in d..c : text[k] = Bracket
                BY <3>5
            <4>2. k \in 1..n-E /\ E + k \in i..E+c
                BY <1>1, <1>5, <2>3
            <4>3. v[E + k] = Bracket
                BY <1>4, <4>1, <4>2
            <4> QED
                BY <4>2, <4>3
        <3>6. CASE \E j \in d+1..c+1 : LiteralAt(text, j, Opener)
            <4>1. PICK j \in d+1..c+1 : LiteralAt(text, j, Opener)
                BY <3>6
            <4>2. j + Len(Opener) - 1 <= Len(text) /\ Len(Opener) \in Nat \ {0}
                BY <4>1, FormatFacts DEF LiteralAt
            <4>3. j \in 1..n-E /\ E + j \in i+1..E+c+1
                BY <1>1, <1>4, <1>5, <2>3, <4>2
            <4>4. LiteralAt(v, E + j, Opener)
                BY <3>2, <4>1, <4>3
            <4> QED
                BY <4>3, <4>4
        <3> QED
            BY <3>4, <3>5, <3>6
    <2> QED
        BY <1>1, <1>5, <2>1, <2>2, <2>3
<1>9. E + c \in 0..n /\ (E + c = 0 \/ n - (E + c) >= Window)
    BY <1>1, <1>5, <1>6
<1>10. GoodCut(v, E + c)
    BY <1>2, <1>8, <1>9 DEF GoodCut
<1>11. text \in Seq(S) /\ Len(text) = Len(a) + Len(t) - E /\ c \in 0..Len(text)
    <2>1. text \in Seq(S) /\ Len(text) = n - E
        BY <1>4
    <2>2. c \in 0..n - E
        BY <1>5
    <2>3. c \in 0..Len(text)
        BY <2>1, <2>2, Zenon
    <2>4. n - E = Len(a) + Len(t) - E
        BY <1>1
    <2> QED
        BY <2>1, <2>3, <2>4, Zenon
<1> QED
    BY <1>10, <1>11, Zenon DEF v, text, c

(* A part that drain emits, restored alone, continues what went out.       *)
LEMMA RestoreFeed ==
    ASSUME UnambiguousFormat, NEW S, NEW v \in Seq(S), Unsuffixed(v),
           NEW vault, GivesTexts(vault, S),
           NEW E \in 0..Len(v), Clean(v, E), NEW c \in 0..Len(v)-E
    PROVE  Restore(SubSeq(v, 1, E + c), vault) =
               Restore(SubSeq(v, 1, E), vault) \o Restore(SubSeq(SubSeq(v, E + 1, Len(v)), 1, c), vault)
<1> DEFINE n == Len(v)
           u == SubSeq(v, 1, E + c)
           b == SubSeq(v, E + 1, n)
           front == SubSeq(u, 1, E)
           tail == SubSeq(u, E + 1, Len(u))
           part == SubSeq(b, 1, c)
           head == SubSeq(v, 1, E)
<1>1. n \in Nat /\ E \in 0..n /\ c \in 0..n-E /\ E + c \in 0..n
    OBVIOUS
<1>2. u \in Seq(S) /\ Len(u) = E + c /\ \A k \in 1..E+c : u[k] = v[k]
    BY <1>1
<1>3. b \in Seq(S) /\ Len(b) = n - E /\ \A k \in 1..n-E : b[k] = v[E+k]
    <2>1. E + 1 \in 1..n+1
        BY <1>1
    <2> QED
        BY <1>1, <2>1
<1>4. head \in Seq(S) /\ Len(head) = E /\ \A k \in 1..E : head[k] = v[k]
    BY <1>1
<1>5. Unsuffixed(u)
    BY <1>1, UnsuffixedFront
<1>6. Clean(u, E)
    <2>1. ASSUME NEW i \in 1..E, NEW e \in BodyEnds(u, i) PROVE e <= E
        <3>1. e \in i..Len(u)
            BY DEF BodyEnds
        <3>2. i \in 1..E+c /\ e \in i..E+c
            <4> HIDE DEF u
            <4> QED
                BY <1>1, <1>2, <3>1
        <3>3. e \in BodyEnds(v, i)
            BY <1>1, <2>1, <3>2, BodyInFront
        <3> QED
            BY <3>3 DEF Clean
    <2> HIDE DEF u
    <2> QED
        BY <2>1 DEF Clean
<1> HIDE DEF u, b
<1>7. Restore(u, vault) = Restore(front, vault) \o Restore(tail, vault)
    <2>1. E \in 0..Len(u)
        BY <1>1, <1>2
    <2> QED
        BY <1>2, <1>5, <1>6, <2>1, RestoreInParts
<1>8. front = head
    <2>1. front \in Seq(S) /\ Len(front) = E /\ \A k \in 1..E : front[k] = u[k]
        BY <1>1, <1>2
    <2> HIDE DEF front, head
    <2>2. \A k \in 1..E : front[k] = head[k]
        BY <1>1, <1>2, <1>4, <2>1, SMTT(60)
    <2> QED
        BY <1>4, <2>1, <2>2, SeqEqual
<1>9. tail = part
    <2>1. tail \in Seq(S) /\ Len(tail) = c /\ \A k \in 1..c : tail[k] = u[E+k]
        <3>1. E + 1 \in 1..Len(u)+1 /\ Len(u) - (E + 1) + 1 = c /\ u \in Seq(S)
              /\ Len(u) \in Nat
            BY <1>1, <1>2
        <3>2. tail \in Seq(S) /\ Len(tail) = Len(u) - (E + 1) + 1
              /\ \A k \in 1..Len(u)-(E+1)+1 : tail[k] = u[(E+1)+k-1]
            BY <3>1
        <3> HIDE DEF tail
        <3>3. \A k \in 1..c : (E+1)+k-1 = E+k
            BY <1>1
        <3> QED
            BY <3>1, <3>2, <3>3
    <2>2. part \in Seq(S) /\ Len(part) = c /\ \A k \in 1..c : part[k] = b[k]
        BY <1>1, <1>3
    <2> HIDE DEF tail, part
    <2>3. \A k \in 1..c : tail[k] = part[k]
        <3>1. ASSUME NEW k \in 1..c PROVE tail[k] = part[k]
            <4>1. E + k \in 1..E+c /\ k \in 1..n-E
                BY <1>1
            <4> QED
                BY <1>2, <1>3, <2>1, <2>2, <4>1
        <3> QED
            BY <3>1
    <2> QED
        BY <2>1, <2>2, <2>3, SeqEqual
<1> HIDE DEF front, tail, part, head
<1>10. Restore(u, vault) = Restore(head, vault) \o Restore(part, vault)
    BY <1>7, <1>8, <1>9
<1> QED
    BY <1>10 DEF u, b, part, head

(* A text ends inside a placeholder when what is held of it does.          *)
LEMMA HeldTellsCutShort ==
    ASSUME UnambiguousFormat, NEW S, NEW a \in Seq(S), NEW E, GoodCut(a, E)
    PROVE  HasUnclosedOpener(SubSeq(a, E + 1, Len(a))) <=> HasUnclosedOpener(a)
<1> DEFINE n == Len(a)
           b == SubSeq(a, E + 1, n)
<1>1. n \in Nat /\ E \in 0..n /\ Window \in Nat /\ Settled(a, E) /\ (E = 0 \/ n - E >= Window)
    BY LiteralLengths DEF GoodCut
<1>2. Len(Opener) \in Nat \ {0} /\ Len(Opener) < Window /\ Opener # <<>>
    BY FormatFacts DEF UnambiguousFormat
<1>3. CASE E = 0
    <2>1. SubSeq(a, 1, Len(a)) = a
        BY SubSeqFull
    <2>2. E + 1 = 1
        BY <1>3
    <2> QED
        BY <2>1, <2>2
<1>4. CASE E # 0
    <2>1. E + 1 \in 1..n /\ n - E >= Window /\ n - E >= Len(Opener)
        BY <1>1, <1>2, <1>4
    <2>2. b \in Seq(S) /\ Len(b) = n - E /\ \A k \in 1..n-E : b[k] = a[E+k]
        BY <1>1, <2>1
    <2>3. ASSUME NEW j \in 1..n-E, NEW lit, Len(lit) \in Nat
          PROVE  LiteralAt(b, j, lit) <=> LiteralAt(a, E + j, lit)
        <3>1. j \in 1..n-(E+1)+1 /\ (E + 1) + j - 1 = E + j
            BY <1>1, <2>1
        <3>2. LiteralAt(b, j, lit) <=> LiteralAt(a, (E + 1) + j - 1, lit)
            BY <2>1, <2>3, <3>1, LiteralInTail
        <3> QED
            BY <3>1, <3>2
    <2> HIDE DEF b
    <2>4. TrailingOpenerPrefix(b) # 0 <=> TrailingOpenerPrefix(a) # 0
        <3>1. ASSUME NEW m \in 1..Len(Opener)-1
              PROVE  m \in PrefixLengths(b) <=> m \in PrefixLengths(a)
            <4> DEFINE lit == SubSeq(Opener, 1, m)
            <4>1. Len(lit) \in Nat
                BY LiteralsAssumption
            <4>2. Len(b) - m + 1 \in 1..n-E /\ E + (Len(b) - m + 1) = n - m + 1
                  /\ m <= Len(b) /\ m <= n
                BY <1>1, <1>2, <2>1, <2>2
            <4> HIDE DEF lit
            <4>3. LiteralAt(b, Len(b) - m + 1, lit) <=> LiteralAt(a, E + (Len(b) - m + 1), lit)
                BY <2>3, <4>1, <4>2
            <4>4. LiteralAt(b, Len(b) - m + 1, lit) <=> LiteralAt(a, n - m + 1, lit)
                BY <4>2, <4>3
            <4> QED
                BY <4>2, <4>4 DEF PrefixLengths, lit
        <3>2. PrefixLengths(b) \subseteq 1..Len(Opener)-1 /\ PrefixLengths(a) \subseteq 1..Len(Opener)-1
            BY DEF PrefixLengths
        <3>3. PrefixLengths(b) = PrefixLengths(a)
            BY <3>1, <3>2
        <3>4. /\ TrailingOpenerPrefix(b) = 0 => PrefixLengths(b) = {}
              /\ TrailingOpenerPrefix(b) # 0 => PrefixLengths(b) # {}
            BY <2>2, TrailingPrefixIs
        <3>5. /\ TrailingOpenerPrefix(a) = 0 => PrefixLengths(a) = {}
              /\ TrailingOpenerPrefix(a) # 0 => PrefixLengths(a) # {}
            BY TrailingPrefixIs
        <3> QED
            BY <3>3, <3>4, <3>5
    <2>5. ASSUME LastUnclosedOpener(a) # 0 PROVE LastUnclosedOpener(b) # 0
        <3> DEFINE L == LastOpener(a)
                   d == L - E
        <3>1. L \in 1..n /\ LiteralAt(a, L, Opener) /\ \A k \in L..n : a[k] # Bracket
            <4>1. L \in 0..n /\ L # 0 /\ \A k \in L..n : a[k] # Bracket
                BY <2>5, LastOpenerIs DEF LastUnclosedOpener
            <4>2. LiteralAt(a, L, Opener)
                BY <4>1, LastOpenerIs
            <4> HIDE DEF L
            <4> QED
                BY <1>1, <4>1, <4>2
        <3>2. \A i \in 1..n : LiteralAt(a, i, Opener) => i <= L
            BY <1>2, LastOpenerIs
        <3> HIDE DEF L
        <3>3. L > E
            <4>1. SUFFICES ASSUME L <= E PROVE FALSE
                BY <1>1, <3>1
            <4>2. \/ \E k \in L..E : a[k] = Bracket
                  \/ \E j \in L+1..E+1 : LiteralAt(a, j, Opener)
                BY <1>1, <3>1, <4>1 DEF Settled
            <4>3. \A j \in L+1..E+1 : j \in 1..n /\ ~(j <= L)
                BY <1>1, <2>1, <3>1
            <4>4. \A k \in L..E : k \in L..n
                BY <1>1
            <4> QED
                BY <3>1, <3>2, <4>2, <4>3, <4>4
        <3>4. d \in 1..n-E /\ E + d = L
            BY <1>1, <3>1, <3>3
        <3>5. LiteralAt(b, d, Opener)
            <4>1. LiteralAt(b, d, Opener) <=> LiteralAt(a, E + d, Opener)
                <5> HIDE DEF d
                <5> QED
                    BY <1>2, <2>3, <3>4
            <4> QED
                BY <3>1, <3>4, <4>1
        <3> HIDE DEF d
        <3>6. LastOpener(b) \in d..n-E
            <4>1. LastOpener(b) \in 0..Len(b) /\ d <= LastOpener(b)
                BY <1>2, <2>2, <3>4, <3>5, LastOpenerIs
            <4> QED
                BY <1>1, <2>2, <3>4, <4>1
        <3>7. \A k \in LastOpener(b)..Len(b) : b[k] # Bracket
            <4>1. ASSUME NEW k \in LastOpener(b)..Len(b) PROVE b[k] # Bracket
                <5>1. k \in 1..n-E /\ E + k \in L..n
                    BY <1>1, <2>2, <3>4, <3>6
                <5> QED
                    BY <2>2, <3>1, <5>1
            <4> QED
                BY <4>1
        <3>8. LastOpener(b) # 0
            BY <3>4, <3>6
        <3> QED
            BY <3>7, <3>8 DEF LastUnclosedOpener
    <2>6. ASSUME LastUnclosedOpener(b) # 0 PROVE LastUnclosedOpener(a) # 0
        <3> DEFINE d == LastOpener(b)
        <3>1. d \in 1..n-E /\ LiteralAt(b, d, Opener) /\ \A k \in d..n-E : b[k] # Bracket
            <4>1. d \in 0..Len(b) /\ d # 0 /\ \A k \in d..Len(b) : b[k] # Bracket
                BY <2>2, <2>6, LastOpenerIs DEF LastUnclosedOpener
            <4>2. LiteralAt(b, d, Opener)
                BY <2>2, <4>1, LastOpenerIs
            <4> HIDE DEF d
            <4> QED
                BY <1>1, <2>2, <4>1, <4>2
        <3> HIDE DEF d
        <3>2. LiteralAt(a, E + d, Opener)
            BY <1>2, <2>3, <3>1
        <3>3. LastOpener(a) \in E+d..n
            <4>1. E + d \in 1..n
                BY <1>1, <3>1
            <4>2. LastOpener(a) \in 0..n /\ E + d <= LastOpener(a)
                BY <1>2, <3>2, <4>1, LastOpenerIs
            <4> QED
                BY <1>1, <4>1, <4>2
        <3>4. \A k \in LastOpener(a)..n : a[k] # Bracket
            <4>1. ASSUME NEW k \in LastOpener(a)..n PROVE a[k] # Bracket
                <5>1. k - E \in d..n-E /\ k - E \in 1..n-E /\ E + (k - E) = k
                    BY <1>1, <3>1, <3>3
                <5>2. b[k - E] # Bracket
                    BY <3>1, <5>1
                <5>3. b[k - E] = a[E + (k - E)]
                    BY <2>2, <5>1
                <5> QED
                    BY <5>1, <5>2, <5>3
            <4> QED
                BY <4>1
        <3>5. LastOpener(a) # 0
            BY <1>1, <3>1, <3>3
        <3> QED
            BY <3>4, <3>5 DEF LastUnclosedOpener
    <2>7. HasUnclosedOpener(b) <=> HasUnclosedOpener(a)
        BY <2>4, <2>5, <2>6 DEF HasUnclosedOpener
    <2> QED
        BY <2>7 DEF b
<1> QED
    BY <1>3, <1>4

-----------------------------------------------------------------------------

(* What a PlaceholderBuffer that was fed a, and drained after each part of *)
(* it, holds and has given: some beginning of a went out restored, the rest*)
(* is held.                                                                *)
Drained(a, buf, out, vault) ==
    \E E \in 0..Len(a) : /\ GoodCut(a, E)
                         /\ buf = SubSeq(a, E + 1, Len(a))
                         /\ out = Restore(SubSeq(a, 1, E), vault)

LEMMA DrainedStart ==
    ASSUME NEW vault
    PROVE  Drained(<<>>, <<>>, <<>>, vault)
<1>1. <<>> \in Seq({}) /\ Len(<<>>) = 0 /\ 0 \in 0..Len(<<>>)
    BY EmptySeq
<1>2. GoodCut(<<>>, 0)
    BY <1>1 DEF GoodCut, Settled
<1>3. SubSeq(<<>>, 0 + 1, Len(<<>>)) = <<>> /\ SubSeq(<<>>, 1, 0) = <<>>
    BY <1>1, SubSeqEmpty
<1>4. Restore(SubSeq(<<>>, 1, 0), vault) = <<>>
    BY <1>3, RestoreNothing
<1> QED
    BY <1>1, <1>2, <1>3, <1>4 DEF Drained

(* feed, then drain.                                                       *)
LEMMA DrainedFeed ==
    ASSUME UnambiguousFormat, NEW S, NEW a \in Seq(S), NEW t \in Seq(S), Unsuffixed(a \o t),
           NEW vault, GivesTexts(vault, S), NEW buf, NEW out, Drained(a, buf, out, vault)
    PROVE  LET text == buf \o t
               cut  == Cut(text)
           IN  /\ text \in Seq(S) /\ cut \in 0..Len(text)
               /\ Drained(a \o t, SubSeq(text, cut + 1, Len(text)),
                          out \o Restore(SubSeq(text, 1, cut), vault), vault)
<1>1. PICK E \in 0..Len(a) : /\ GoodCut(a, E)
                             /\ buf = SubSeq(a, E + 1, Len(a))
                             /\ out = Restore(SubSeq(a, 1, E), vault)
    BY DEF Drained
<1> DEFINE v == a \o t
           text == buf \o t
           c == Cut(text)
           n == Len(v)
<1>2. v \in Seq(S) /\ n = Len(a) + Len(t) /\ Begins(a, v) /\ Len(a) \in Nat /\ Len(t) \in Nat
    BY ConcatBegins
<1>3. text \in Seq(S) /\ Len(text) = Len(a) + Len(t) - E /\ c \in 0..Len(text)
      /\ GoodCut(v, E + c)
    <2> DEFINE w == SubSeq(a, E + 1, Len(a)) \o t
    <2>1. /\ w \in Seq(S) /\ Len(w) = Len(a) + Len(t) - E
          /\ Cut(w) \in 0..Len(w) /\ GoodCut(a \o t, E + Cut(w))
        BY <1>1, GoodCutFeed, Zenon
    <2>2. text = w
        BY <1>1, Zenon
    <2> HIDE DEF w
    <2> QED
        BY <2>1, <2>2, Zenon DEF c, v
<1>4. text = SubSeq(v, E + 1, n)
    <2>1. SubSeq(a, E + 1, Len(a)) \o t = SubSeq(a \o t, E + 1, Len(a \o t))
        BY TailGrows, Zenon
    <2> QED
        BY <1>1, <2>1, Zenon DEF text, v, n
<1>5. SubSeq(v, 1, E) = SubSeq(a, 1, E)
    <2> DEFINE x == SubSeq(v, 1, E)
               y == SubSeq(a, 1, E)
    <2>1. y \in Seq(S) /\ Len(y) = E /\ \A k \in 1..E : y[k] = a[k]
        BY <1>1
    <2> HIDE DEF v, y
    <2>2. x \in Seq(S) /\ Len(x) = E /\ \A k \in 1..E : x[k] = v[k]
        BY <1>2
    <2> HIDE DEF x
    <2>3. \A k \in 1..E : x[k] = y[k]
        BY <1>2, <2>1, <2>2, SMTT(60) DEF Begins
    <2>4. x = y
        BY <2>1, <2>2, <2>3, SeqEqual
    <2> QED
        BY <2>4 DEF x, y, v
<1> HIDE DEF v, text, c
<1>6. E \in 0..n /\ c \in 0..n-E /\ E + c \in 0..n
    BY <1>2, <1>3
<1>7. Clean(v, E)
    <2>1. E \in 0..Len(a) /\ (E = 0 \/ Len(a) - E >= Window) /\ Settled(a, E)
        BY <1>1 DEF GoodCut
    <2>2. Settled(v, E)
        BY <1>2, <2>1, SettledGrows
    <2> QED
        BY <1>2, <1>6, <2>2, SettledClean
<1>8. Restore(SubSeq(v, 1, E + c), vault) = out \o Restore(SubSeq(text, 1, c), vault)
    <2>1. Restore(SubSeq(v, 1, E + c), vault) =
          Restore(SubSeq(v, 1, E), vault) \o Restore(SubSeq(SubSeq(v, E + 1, Len(v)), 1, c), vault)
        BY <1>2, <1>6, <1>7, RestoreFeed DEF v
    <2> QED
        BY <1>1, <1>4, <1>5, <2>1
<1>9. SubSeq(text, c + 1, Len(text)) = SubSeq(v, E + c + 1, n)
    <2> DEFINE x == SubSeq(text, c + 1, Len(text))
               y == SubSeq(v, E + c + 1, n)
               m == n - (E + c)
    <2>1. Len(text) = n - E /\ \A k \in 1..n-E : text[k] = v[E + k]
        <3>1. E + 1 \in 1..n+1 /\ n - (E + 1) + 1 = n - E
            BY <1>2, <1>6
        <3>2. Len(text) = n - (E + 1) + 1 /\ \A k \in 1..n-(E+1)+1 : text[k] = v[(E+1)+k-1]
            BY <1>2, <1>4, <3>1
        <3>3. \A k \in 1..n-E : (E+1)+k-1 = E + k
            BY <1>6
        <3> QED
            BY <3>1, <3>2, <3>3
    <2>2. x \in Seq(S) /\ Len(x) = m /\ \A k \in 1..m : x[k] = text[c + k]
        <3>1. c + 1 \in 1..Len(text)+1 /\ Len(text) - (c + 1) + 1 = m /\ Len(text) \in Nat
            BY <1>2, <1>6, <2>1
        <3>2. x \in Seq(S) /\ Len(x) = Len(text) - (c + 1) + 1
              /\ \A k \in 1..Len(text)-(c+1)+1 : x[k] = text[(c+1)+k-1]
            <4>1. text \in Seq(S)
                BY <1>3
            <4> HIDE DEF m
            <4> QED
                BY <3>1, <4>1
        <3>3. \A k \in 1..m : (c+1)+k-1 = c + k
            BY <1>6
        <3> HIDE DEF x, m
        <3> QED
            BY <3>1, <3>2, <3>3
    <2>3. y \in Seq(S) /\ Len(y) = m /\ \A k \in 1..m : y[k] = v[(E + c) + k]
        <3>1. (E + c) + 1 \in 1..n+1 /\ n - ((E + c) + 1) + 1 = m /\ n \in Nat
            BY <1>2, <1>6
        <3>2. y \in Seq(S) /\ Len(y) = n - ((E + c) + 1) + 1
              /\ \A k \in 1..n-((E+c)+1)+1 : y[k] = v[((E+c)+1)+k-1]
            <4> DEFINE a0 == (E + c) + 1
            <4>1. a0 \in 1..n+1
                BY <3>1
            <4> HIDE DEF a0
            <4>2. /\ SubSeq(v, a0, n) \in Seq(S) /\ Len(SubSeq(v, a0, n)) = n - a0 + 1
                  /\ \A k \in 1..n-a0+1 : SubSeq(v, a0, n)[k] = v[a0+k-1]
                BY <1>2, <4>1, SMTT(60)
            <4> QED
                BY <4>2, Zenon DEF a0, y
        <3>3. \A k \in 1..m : ((E+c)+1)+k-1 = (E+c) + k
            BY <1>6
        <3> HIDE DEF y, m
        <3> QED
            BY <3>1, <3>2, <3>3
    <2> HIDE DEF x, y
    <2>4. \A k \in 1..m : x[k] = y[k]
        <3>1. ASSUME NEW k \in 1..m PROVE x[k] = y[k]
            <4>1. c + k \in 1..n-E /\ E + (c + k) = (E + c) + k
                BY <1>2, <1>6
            <4> QED
                BY <2>1, <2>2, <2>3, <4>1
        <3> QED
            BY <3>1
    <2>5. x = y
        BY <2>2, <2>3, <2>4, SeqEqual
    <2> QED
        BY <2>5 DEF x, y
<1>10. Drained(v, SubSeq(text, c + 1, Len(text)), out \o Restore(SubSeq(text, 1, c), vault), vault)
    <2>1. E + c \in 0..Len(v)
        BY <1>6
    <2> QED
        BY <1>3, <1>8, <1>9, <2>1, Zenon DEF Drained
<1> QED
    BY <1>3, <1>10, Zenon DEF v, text, c

(* What is held, restored, completes what went out; and it tells whether   *)
(* all that arrived ends inside a placeholder.                             *)
LEMMA DrainedWhole ==
    ASSUME UnambiguousFormat, NEW S, NEW a \in Seq(S), Unsuffixed(a),
           NEW vault, GivesTexts(vault, S), NEW buf, NEW out, Drained(a, buf, out, vault)
    PROVE  /\ buf \in Seq(S) /\ out \in Seq(S)
           /\ Restore(buf, vault) \in Seq(S)
           /\ Restore(a, vault) = out \o Restore(buf, vault)
           /\ HasUnclosedOpener(buf) <=> HasUnclosedOpener(a)
<1>1. PICK E \in 0..Len(a) : /\ GoodCut(a, E)
                             /\ buf = SubSeq(a, E + 1, Len(a))
                             /\ out = Restore(SubSeq(a, 1, E), vault)
    BY DEF Drained
<1>2. buf \in Seq(S) /\ SubSeq(a, 1, E) \in Seq(S)
    <2>1. SubSeq(a, E + 1, Len(a)) \in Seq(S) /\ SubSeq(a, 1, E) \in Seq(S)
        <3>1. E + 1 \in 1..Len(a)+1
            OBVIOUS
        <3> QED
            BY <3>1
    <2> QED
        BY <1>1, <2>1
<1>3. out \in Seq(S) /\ Restore(buf, vault) \in Seq(S)
    BY <1>1, <1>2, RestoreType
<1>4. Clean(a, E)
    BY <1>1, SettledClean DEF GoodCut
<1>5. Restore(a, vault) = out \o Restore(buf, vault)
    BY <1>1, <1>4, RestoreInParts
<1>6. HasUnclosedOpener(buf) <=> HasUnclosedOpener(a)
    BY <1>1, HeldTellsCutShort
<1> QED
    BY <1>2, <1>3, <1>5, <1>6

LEMMA PrefixOfConcat ==
    ASSUME NEW S, NEW s \in Seq(S), NEW t \in Seq(S)
    PROVE  IsPrefix(s, s \o t)
<1>1. Len(s \o t) = Len(s) + Len(t) /\ s \o t \in Seq(S)
    BY ConcatProperties
<1>2. SubSeq(s \o t, 1, Len(s)) = s
    <2> DEFINE u == s \o t
               x == SubSeq(u, 1, Len(s))
    <2>1. \A k \in 1..Len(s) : u[k] = s[k]
        BY ConcatProperties
    <2>2. u \in Seq(S) /\ Len(s) \in 0..Len(u)
        BY <1>1
    <2> HIDE DEF u
    <2>3. x \in Seq(S) /\ Len(x) = Len(s) /\ \A k \in 1..Len(s) : x[k] = u[k]
        BY <2>2
    <2> HIDE DEF x
    <2>4. x = s
        BY <2>1, <2>3, SeqEqual
    <2> QED
        BY <2>4 DEF x, u
<1> QED
    BY <1>1, <1>2 DEF IsPrefix
=============================================================================
