-------------------------- MODULE SseReframerProofs --------------------------
(***************************************************************************)
(* Proofs about SseReframer, for streams of any length in chunks of any    *)
(* length: first the framing (what drain_complete pops and holds), then    *)
(* what an SSE client of the rewritten stream reads.  Frames, lines and    *)
(* the client are recursive functions; the induction over the data is      *)
(* done with sets of natural numbers (SequenceInduction).                  *)
(***************************************************************************)
EXTENDS SseReframer, SequenceInduction

(* A match of \r?\n\r?\n, token by token.                                 *)
IsSplit(bytes, i, e) ==
    \/ e = i + 1 /\ bytes[i] = LF /\ bytes[i+1] = LF
    \/ e = i + 2 /\ bytes[i] = CR /\ bytes[i+1] = LF /\ bytes[i+2] = LF
    \/ e = i + 2 /\ bytes[i] = LF /\ bytes[i+1] = CR /\ bytes[i+2] = LF
    \/ /\ e = i + 3 /\ bytes[i] = CR /\ bytes[i+1] = LF
       /\ bytes[i+2] = CR /\ bytes[i+3] = LF

LEMMA SplitEndsAre ==
    ASSUME NEW S, NEW bytes \in Seq(S), NEW i \in 1..Len(bytes), NEW e \in i+1..Len(bytes)
    PROVE  e \in SplitEnds(bytes, i) <=> IsSplit(bytes, i, e)
<1> DEFINE sub == SubSeq(bytes, i, e)
<1>1. /\ sub \in Seq(S) /\ Len(sub) = e - i + 1 /\ e - i + 1 \in Nat
      /\ \A k \in 1..e-i+1 : sub[k] = bytes[i+k-1]
    OBVIOUS
<1>2. e \in SplitEnds(bytes, i) <=>
      sub \in {<<LF, LF>>, <<CR, LF, LF>>, <<LF, CR, LF>>, <<CR, LF, CR, LF>>}
    BY DEF SplitEnds
<1> HIDE DEF sub
<1> DEFINE A == S \cup {CR, LF}
<1>3. sub \in Seq(A)
    BY <1>1, SeqMonotonic
<1>4. /\ <<LF, LF>> \in Seq(A) /\ <<CR, LF, LF>> \in Seq(A)
      /\ <<LF, CR, LF>> \in Seq(A) /\ <<CR, LF, CR, LF>> \in Seq(A)
    OBVIOUS
<1> HIDE DEF A
<1>5. sub = <<LF, LF>> <=> Len(sub) = 2 /\ sub[1] = LF /\ sub[2] = LF
    BY <1>3, <1>4, SeqEqual
<1>6. sub = <<CR, LF, LF>> <=> Len(sub) = 3 /\ sub[1] = CR /\ sub[2] = LF /\ sub[3] = LF
    BY <1>3, <1>4, SeqEqual
<1>7. sub = <<LF, CR, LF>> <=> Len(sub) = 3 /\ sub[1] = LF /\ sub[2] = CR /\ sub[3] = LF
    BY <1>3, <1>4, SeqEqual
<1>8. sub = <<CR, LF, CR, LF>> <=>
      Len(sub) = 4 /\ sub[1] = CR /\ sub[2] = LF /\ sub[3] = CR /\ sub[4] = LF
    BY <1>3, <1>4, SeqEqual
<1>9. e = i + 1 => Len(sub) = 2 /\ sub[1] = bytes[i] /\ sub[2] = bytes[i+1]
    BY <1>1
<1>10. e = i + 2 => /\ Len(sub) = 3
                   /\ sub[1] = bytes[i] /\ sub[2] = bytes[i+1] /\ sub[3] = bytes[i+2]
    BY <1>1
<1>11. e = i + 3 => /\ Len(sub) = 4
                   /\ sub[1] = bytes[i] /\ sub[2] = bytes[i+1]
                   /\ sub[3] = bytes[i+2] /\ sub[4] = bytes[i+3]
    BY <1>1
<1>12. /\ Len(sub) = 2 <=> e = i + 1
       /\ Len(sub) = 3 <=> e = i + 2
       /\ Len(sub) = 4 <=> e = i + 3
    BY <1>1
<1> QED
    BY <1>2, <1>5, <1>6, <1>7, <1>8, <1>9, <1>10, <1>11, <1>12 DEF IsSplit

LEMMA SplitSame ==
    ASSUME NEW n \in Nat, NEW a, NEW b, \A k \in 1..n : a[k] = b[k],
           NEW i \in 1..n, NEW e \in i+1..n
    PROVE  IsSplit(a, i, e) <=> IsSplit(b, i, e)
<1>1. a[i] = b[i] /\ a[i+1] = b[i+1]
    OBVIOUS
<1>2. e = i + 2 => a[i+2] = b[i+2]
    OBVIOUS
<1>3. e = i + 3 => a[i+2] = b[i+2] /\ a[i+3] = b[i+3]
    OBVIOUS
<1> QED
    BY <1>1, <1>2, <1>3 DEF IsSplit

(* The first match in bytes begins at i and ends at e.                     *)
FirstSplit(bytes, i, e) ==
    /\ i \in 1..Len(bytes)
    /\ e \in i+1..Len(bytes)
    /\ IsSplit(bytes, i, e)
    /\ \A j \in 1..i-1 : \A d \in j+1..Len(bytes) : ~IsSplit(bytes, j, d)

LEMMA SplitsAre ==
    ASSUME NEW S, NEW bytes \in Seq(S), NEW i \in 1..Len(bytes)
    PROVE  i \in Splits(bytes) <=> \E e \in i+1..Len(bytes) : IsSplit(bytes, i, e)
<1>1. \A e \in i+1..Len(bytes) : e \in SplitEnds(bytes, i) <=> IsSplit(bytes, i, e)
    BY SplitEndsAre
<1>2. \A e \in SplitEnds(bytes, i) : e \in i+1..Len(bytes)
    BY DEF SplitEnds
<1> QED
    BY <1>1, <1>2 DEF Splits

(* CR and LF differ, so that at one place only one of the four can match.  *)
LEMMA FirstSplitEnds ==
    ASSUME NEW S, NEW bytes \in Seq(S), NEW i, NEW e, FirstSplit(bytes, i, e)
    PROVE  FrameEnd(bytes) = e
<1>1. i \in 1..Len(bytes) /\ e \in i+1..Len(bytes) /\ IsSplit(bytes, i, e)
    BY DEF FirstSplit
<1>2. i \in Splits(bytes)
    BY <1>1, SplitsAre
<1>3. \A j \in Splits(bytes) : j \in 1..Len(bytes) /\ i <= j
    <2>1. ASSUME NEW j \in Splits(bytes) PROVE j \in 1..Len(bytes) /\ i <= j
        <3>1. j \in 1..Len(bytes)
            BY DEF Splits
        <3>2. \E d \in j+1..Len(bytes) : IsSplit(bytes, j, d)
            BY <3>1, SplitsAre
        <3> QED
            BY <1>1, <3>1, <3>2 DEF FirstSplit
    <2> QED
        BY <2>1
<1>4. Min(Splits(bytes)) = i
    <2>1. Splits(bytes) \subseteq Nat
        BY <1>3
    <2>2. Min(Splits(bytes)) \in Splits(bytes) /\ Min(Splits(bytes)) <= i
        BY <1>2, <2>1, MinProperties
    <2> QED
        BY <1>1, <1>3, <2>2
<1>5. \A d \in SplitEnds(bytes, i) : d = e
    <2>1. ASSUME NEW d \in SplitEnds(bytes, i) PROVE d = e
        <3>1. d \in i+1..Len(bytes)
            BY DEF SplitEnds
        <3>2. IsSplit(bytes, i, d)
            BY <1>1, <3>1, SplitEndsAre
        <3> QED
            BY <1>1, <3>2, LineEndsDiffer DEF IsSplit
    <2> QED
        BY <2>1
<1>6. SplitEnds(bytes, i) = {e}
    BY <1>1, <1>5, SplitEndsAre
<1>7. Max({e}) = e
    BY <1>1 DEF Max
<1> QED
    BY <1>2, <1>4, <1>6, <1>7 DEF FrameEnd

LEMMA FrameEndHasSplit ==
    ASSUME NEW S, NEW bytes \in Seq(S), FrameEnd(bytes) # 0
    PROVE  \E i : FirstSplit(bytes, i, FrameEnd(bytes))
<1>1. Splits(bytes) # {}
    BY DEF FrameEnd
<1>2. Splits(bytes) \subseteq Nat
    BY DEF Splits
<1> DEFINE i == Min(Splits(bytes))
<1>3. i \in Splits(bytes) /\ \A j \in Splits(bytes) : i <= j
    BY <1>1, <1>2, MinProperties
<1> HIDE DEF i
<1>4. i \in 1..Len(bytes)
    BY <1>3 DEF Splits
<1>5. PICK e \in i+1..Len(bytes) : IsSplit(bytes, i, e)
    BY <1>3, <1>4, SplitsAre
<1>6. ASSUME NEW j \in 1..i-1, NEW d \in j+1..Len(bytes) PROVE ~IsSplit(bytes, j, d)
    <2>1. j \in 1..Len(bytes) /\ ~(i <= j)
        BY <1>4
    <2>2. j \notin Splits(bytes)
        BY <1>3, <2>1
    <2> QED
        BY <2>1, <2>2, SplitsAre
<1>7. FirstSplit(bytes, i, e)
    BY <1>4, <1>5, <1>6 DEF FirstSplit
<1> QED
    BY <1>7, FirstSplitEnds

(* A frame has at least the two line ends.                                 *)
LEMMA FrameEndBounds ==
    ASSUME NEW S, NEW bytes \in Seq(S)
    PROVE  FrameEnd(bytes) = 0 \/ FrameEnd(bytes) \in 2..Len(bytes)
BY FrameEndHasSplit DEF FirstSplit

(* What arrives later does not move the end of a frame that is complete:   *)
(* a match that began earlier and needs the later bytes would overlap the  *)
(* two line ends of the one there is.                                      *)
LEMMA FrameEndStable ==
    ASSUME NEW S, NEW bytes \in Seq(S), NEW more \in Seq(S), FrameEnd(bytes) # 0
    PROVE  FrameEnd(bytes \o more) = FrameEnd(bytes)
<1> DEFINE e == FrameEnd(bytes)
           both == bytes \o more
<1>1. PICK i : FirstSplit(bytes, i, e)
    BY FrameEndHasSplit
<1>2. /\ both \in Seq(S) /\ Len(both) = Len(bytes) + Len(more)
      /\ \A k \in 1..Len(bytes) : both[k] = bytes[k]
      /\ Len(bytes) \in Nat /\ Len(more) \in Nat
    OBVIOUS
<1> HIDE DEF e, both
<1>3. i \in 1..Len(bytes) /\ e \in i+1..Len(bytes) /\ IsSplit(bytes, i, e)
    BY <1>1 DEF FirstSplit
<1>4. i \in 1..Len(both) /\ e \in i+1..Len(both)
    BY <1>2, <1>3
<1>5. IsSplit(both, i, e)
    BY <1>2, <1>3, SplitSame
<1>6. ASSUME NEW j \in 1..i-1, NEW d \in j+1..Len(both), IsSplit(both, j, d)
      PROVE  FALSE
    <2>1. CASE d <= Len(bytes)
        <3>1. d \in j+1..Len(bytes)
            BY <1>2, <1>3, <2>1
        <3>2. IsSplit(bytes, j, d)
            <4>1. j \in 1..Len(bytes)
                BY <1>2, <1>3
            <4> QED
                BY <1>2, <1>6, <3>1, <4>1, SplitSame
        <3> QED
            BY <1>1, <3>1, <3>2 DEF FirstSplit
    <2>2. CASE d > Len(bytes)
        <3>1. j = i - 1 /\ d = j + 3 /\ e = i + 1
            BY <1>2, <1>3, <1>6, <2>2 DEF IsSplit
        <3>2. both[j+2] = CR
            BY <1>6, <3>1 DEF IsSplit
        <3>3. both[i+1] = LF
            BY <1>2, <1>3, <3>1 DEF IsSplit
        <3> QED
            BY <1>3, <3>1, <3>2, <3>3, LineEndsDiffer
    <2> QED
        BY <1>2, <2>1, <2>2
<1>7. FirstSplit(both, i, e)
    BY <1>4, <1>5, <1>6 DEF FirstSplit
<1> QED
    BY <1>2, <1>7, FirstSplitEnds DEF e, both

-----------------------------------------------------------------------------

(* The function by which DrainComplete is defined.                         *)
DrainStep(bytes, f, i) ==
    LET left == SubSeq(bytes, i, Len(bytes))
        e    == FrameEnd(left)
    IN  IF e = 0 THEN [frames |-> <<>>, rest |-> left]
        ELSE [frames |-> <<SubSeq(left, 1, e)>> \o f[i + e].frames,
              rest   |-> f[i + e].rest]

Drain(bytes) ==
    CHOOSE f : f = [i \in 1..Len(bytes)+1 |-> DrainStep(bytes, f, i)]

LEMMA TailOf ==
    ASSUME NEW S, NEW bytes \in Seq(S), NEW i \in 1..Len(bytes)+1
    PROVE  /\ SubSeq(bytes, i, Len(bytes)) \in Seq(S)
           /\ Len(SubSeq(bytes, i, Len(bytes))) = Len(bytes) - i + 1
           /\ \A k \in 1..Len(bytes)-i+1 :
                  SubSeq(bytes, i, Len(bytes))[k] = bytes[i+k-1]
OBVIOUS

(* A step looks only at what comes after the frame.                        *)
LEMMA DrainStepLooksAhead ==
    ASSUME NEW S, NEW bytes \in Seq(S), NEW i \in 1..Len(bytes)+1, NEW f, NEW g,
           \A k \in i+1..Len(bytes)+1 : f[k] = g[k]
    PROVE  DrainStep(bytes, f, i) = DrainStep(bytes, g, i)
<1> DEFINE left == SubSeq(bytes, i, Len(bytes))
           e == FrameEnd(left)
<1>1. left \in Seq(S) /\ Len(left) = Len(bytes) - i + 1
    BY TailOf
<1>2. e = 0 \/ e \in 2..Len(left)
    BY <1>1, FrameEndBounds
<1>3. e # 0 => i + e \in i+1..Len(bytes)+1
    <2> HIDE DEF e
    <2> QED
        BY <1>1, <1>2
<1>4. e # 0 => f[i+e] = g[i+e]
    BY <1>3
<1> QED
    BY <1>4 DEF DrainStep

LEMMA DrainEquation ==
    ASSUME NEW S, NEW bytes \in Seq(S)
    PROVE  Drain(bytes) = [i \in 1..Len(bytes)+1 |-> DrainStep(bytes, Drain(bytes), i)]
<1> DEFINE n == Len(bytes) + 1
           Defined(k) == \E f : f = [i \in n+1-k..n |-> DrainStep(bytes, f, i)]
           T == {k \in Nat : k <= n => Defined(k)}
<1>0. n \in Nat
    OBVIOUS
<1>1. 0 \in T
    <2>1. n+1-0..n = {}
        OBVIOUS
    <2>2. [i \in {} |-> 0] = [i \in {} |-> DrainStep(bytes, [j \in {} |-> 0], i)]
        OBVIOUS
    <2>3. Defined(0)
        BY <2>1, <2>2
    <2> HIDE DEF Defined
    <2> QED
        BY <2>3
<1>2. ASSUME NEW k \in Nat, k \in T
      PROVE  k + 1 \in T
    <2>1. SUFFICES ASSUME k + 1 <= n PROVE Defined(k + 1)
        <3> HIDE DEF Defined
        <3> QED
            OBVIOUS
    <2>2. PICK f : f = [i \in n+1-k..n |-> DrainStep(bytes, f, i)]
        BY <1>0, <1>2, <2>1
    <2> DEFINE first == n+1-(k+1)
               g == [i \in first..n |-> IF i = first THEN DrainStep(bytes, f, i) ELSE f[i]]
    <2>3. /\ first \in 1..n /\ first + 1 = n+1-k
          /\ \A i \in first..n : i = first \/ i \in n+1-k..n
        BY <1>0, <2>1
    <2>4. /\ g = [i \in first..n |-> g[i]]
          /\ g[first] = DrainStep(bytes, f, first)
          /\ \A i \in first+1..n : g[i] = f[i]
        BY <2>3
    <2> HIDE DEF g, first
    <2>5. ASSUME NEW i \in first..n
          PROVE  g[i] = DrainStep(bytes, g, i)
        <3>1. \A j \in i+1..n : f[j] = g[j]
            <4>1. \A j \in i+1..n : j \in first+1..n
                BY <1>0, <2>3
            <4> QED
                BY <2>4, <4>1
        <3>2. DrainStep(bytes, f, i) = DrainStep(bytes, g, i)
            BY <2>3, <3>1, DrainStepLooksAhead
        <3>3. CASE i = first
            BY <2>4, <3>2, <3>3
        <3>4. CASE i \in n+1-k..n
            <4>1. g[i] = f[i]
                BY <2>3, <2>4, <3>4
            <4> QED
                BY <2>2, <3>2, <3>4, <4>1
        <3> QED
            BY <2>3, <3>3, <3>4
    <2>6. g = [i \in first..n |-> DrainStep(bytes, g, i)]
        BY <2>4, <2>5
    <2> QED
        BY <2>6 DEF first
<1>3. n \in T
    <2> HIDE DEF T
    <2> QED
        BY <1>0, <1>1, <1>2, NatSetInduction
<1>4. Defined(n)
    <2> HIDE DEF Defined
    <2> QED
        BY <1>0, <1>3
<1>5. n+1-n = 1
    BY <1>0
<1> QED
    BY <1>4, <1>5 DEF Drain

LEMMA DrainAt ==
    ASSUME NEW S, NEW bytes \in Seq(S), NEW i \in 1..Len(bytes)+1
    PROVE  Drain(bytes)[i] = DrainStep(bytes, Drain(bytes), i)
<1> DEFINE f == Drain(bytes)
<1>1. f = [k \in 1..Len(bytes)+1 |-> DrainStep(bytes, f, k)]
    BY DrainEquation
<1> HIDE DEF f
<1>2. f[i] = DrainStep(bytes, f, i)
    BY <1>1
<1> QED
    BY <1>2 DEF f

LEMMA DrainCompleteIs ==
    ASSUME NEW bytes
    PROVE  DrainComplete(bytes) = Drain(bytes)[1]
BY DEF DrainComplete, Drain, DrainStep

(* Draining a tail of the bytes is what draining the bytes does there.     *)
LEMMA DrainTail ==
    ASSUME NEW S, NEW bytes \in Seq(S), NEW k \in 1..Len(bytes)+1
    PROVE  Drain(bytes)[k] = DrainComplete(SubSeq(bytes, k, Len(bytes)))
<1> DEFINE n == Len(bytes)
           tail == SubSeq(bytes, k, n)
           m == Len(tail)
           T == {d \in Nat : \A j \in 1..m+1 :
                    m + 1 - j <= d => Drain(tail)[j] = Drain(bytes)[k + (j-1)]}
<1>1. /\ tail \in Seq(S) /\ n \in Nat /\ m \in Nat /\ m = n - k + 1
      /\ \A j \in 1..m : tail[j] = bytes[k + (j-1)]
    OBVIOUS
<1>2. ASSUME NEW d \in Nat, NEW j \in 1..m+1, m + 1 - j <= d,
             \A i \in 1..m+1 : m + 1 - i < d => Drain(tail)[i] = Drain(bytes)[k + (i-1)]
      PROVE  Drain(tail)[j] = Drain(bytes)[k + (j-1)]
    <2> DEFINE l == k + (j-1)
               left == SubSeq(bytes, l, n)
               e == FrameEnd(left)
    <2>1. l \in 1..n+1 /\ l + m = k + n - (n - m - j + 1)
        BY <1>1
    <2>2. /\ left \in Seq(S) /\ Len(left) = n - l + 1
          /\ \A i \in 1..n-l+1 : left[i] = bytes[l+i-1]
        BY <2>1, TailOf
    <2>3. SubSeq(tail, j, m) = left
        <3>1. /\ SubSeq(tail, j, m) \in Seq(S) /\ Len(SubSeq(tail, j, m)) = m - j + 1
              /\ \A i \in 1..m-j+1 : SubSeq(tail, j, m)[i] = tail[j+i-1]
            BY <1>1, TailOf
        <3>2. m - j + 1 = n - l + 1
            BY <1>1
        <3>3. ASSUME NEW i \in 1..m-j+1 PROVE tail[j+i-1] = bytes[l+i-1]
            <4>1. j+i-1 \in 1..m /\ k + ((j+i-1) - 1) = l+i-1
                BY <1>1
            <4> HIDE DEF tail
            <4> QED
                BY <1>1, <4>1
        <3> HIDE DEF tail, left, m, l
        <3> QED
            BY <2>2, <3>1, <3>2, <3>3, SeqEqual
    <2>4. e = 0 \/ e \in 2..n-l+1
        BY <2>2, FrameEndBounds
    <2>5. e # 0 => Drain(tail)[j + e] = Drain(bytes)[l + e]
        <3> HIDE DEF e, tail, left
        <3>1. SUFFICES ASSUME e # 0 PROVE Drain(tail)[j + e] = Drain(bytes)[l + e]
            OBVIOUS
        <3>2. j + e \in 1..m+1 /\ m + 1 - (j + e) < d /\ k + ((j + e) - 1) = l + e
            <4>1. m + 1 - j <= d
                BY <1>2
            <4>2. e \in Nat /\ 2 <= e /\ e <= n - l + 1 /\ j \in Nat /\ 1 <= j
                BY <1>1, <2>1, <2>4, <3>1
            <4>3. n \in Nat /\ m \in Nat /\ k \in Nat /\ m = n - k + 1
                BY <1>1
            <4> HIDE DEF m, n
            <4> QED
                BY <4>1, <4>2, <4>3
        <3> QED
            BY <1>2, <3>2
    <2>6. Drain(tail)[j] = DrainStep(tail, Drain(tail), j)
        BY <1>1, DrainAt
    <2>7. Drain(bytes)[l] = DrainStep(bytes, Drain(bytes), l)
        BY <2>1, DrainAt
    <2>8. DrainStep(tail, Drain(tail), j) = DrainStep(bytes, Drain(bytes), l)
        BY <2>3, <2>5 DEF DrainStep
    <2> QED
        BY <2>6, <2>7, <2>8
<1>3. 0 \in T
    <2>1. ASSUME NEW j \in 1..m+1, m + 1 - j <= 0
          PROVE  Drain(tail)[j] = Drain(bytes)[k + (j-1)]
        <3>1. \A i \in 1..m+1 : ~(m + 1 - i < 0)
            BY <1>1
        <3> QED
            BY <1>2, <2>1, <3>1
    <2> QED
        BY <2>1
<1>4. ASSUME NEW d \in Nat, d \in T
      PROVE  d + 1 \in T
    <2>1. ASSUME NEW j \in 1..m+1, m + 1 - j <= d + 1
          PROVE  Drain(tail)[j] = Drain(bytes)[k + (j-1)]
        <3>1. \A i \in 1..m+1 : m + 1 - i < d + 1 => m + 1 - i <= d
            BY <1>1
        <3>2. d + 1 \in Nat
            OBVIOUS
        <3> QED
            BY <1>2, <1>4, <2>1, <3>1, <3>2
    <2> QED
        BY <2>1
<1>5. m \in T
    <2> HIDE DEF T
    <2> QED
        BY <1>1, <1>3, <1>4, NatSetInduction
<1>6. 1 \in 1..m+1 /\ m + 1 - 1 <= m /\ k + (1-1) = k
    BY <1>1
<1>7. Drain(tail)[1] = Drain(bytes)[k]
    BY <1>5, <1>6
<1> QED
    BY <1>7, DrainCompleteIs

(* drain_complete, frame by frame.                                         *)
LEMMA DrainNone ==
    ASSUME NEW S, NEW bytes \in Seq(S), FrameEnd(bytes) = 0
    PROVE  DrainComplete(bytes).frames = <<>> /\ DrainComplete(bytes).rest = bytes
<1>1. SubSeq(bytes, 1, Len(bytes)) = bytes
    BY SubSeqFull
<1>2. Drain(bytes)[1] = DrainStep(bytes, Drain(bytes), 1)
    <2>1. 1 \in 1..Len(bytes)+1
        OBVIOUS
    <2> QED
        BY <2>1, DrainAt
<1>3. DrainStep(bytes, Drain(bytes), 1) = [frames |-> <<>>, rest |-> bytes]
    BY <1>1 DEF DrainStep
<1> QED
    BY <1>2, <1>3, DrainCompleteIs

FirstFrame(bytes) == SubSeq(bytes, 1, FrameEnd(bytes))
AfterFrame(bytes) == SubSeq(bytes, FrameEnd(bytes) + 1, Len(bytes))

LEMMA DrainFirst ==
    ASSUME NEW S, NEW bytes \in Seq(S), FrameEnd(bytes) # 0
    PROVE  /\ DrainComplete(bytes).frames =
                   <<FirstFrame(bytes)>> \o DrainComplete(AfterFrame(bytes)).frames
           /\ DrainComplete(bytes).rest = DrainComplete(AfterFrame(bytes)).rest
<1> DEFINE e == FrameEnd(bytes)
<1>1. SubSeq(bytes, 1, Len(bytes)) = bytes
    BY SubSeqFull
<1>2. Drain(bytes)[1] = DrainStep(bytes, Drain(bytes), 1)
    <2>1. 1 \in 1..Len(bytes)+1
        OBVIOUS
    <2> QED
        BY <2>1, DrainAt
<1>3. e \in 2..Len(bytes)
    BY FrameEndBounds
<1> HIDE DEF e
<1>4. Drain(bytes)[1 + e] = DrainComplete(SubSeq(bytes, e + 1, Len(bytes)))
    <2>1. e + 1 \in 1..Len(bytes)+1 /\ 1 + e = e + 1
        BY <1>3
    <2> QED
        BY <2>1, DrainTail
<1>5. /\ DrainStep(bytes, Drain(bytes), 1).frames =
             <<SubSeq(bytes, 1, e)>> \o Drain(bytes)[1 + e].frames
      /\ DrainStep(bytes, Drain(bytes), 1).rest = Drain(bytes)[1 + e].rest
    BY <1>1 DEF DrainStep, e
<1> QED
    BY <1>2, <1>4, <1>5, DrainCompleteIs DEF FirstFrame, AfterFrame, e

LEMMA FrameParts ==
    ASSUME NEW S, NEW bytes \in Seq(S), FrameEnd(bytes) # 0
    PROVE  /\ FirstFrame(bytes) \in Seq(S)
           /\ AfterFrame(bytes) \in Seq(S)
           /\ Len(AfterFrame(bytes)) < Len(bytes)
           /\ FirstFrame(bytes) \o AfterFrame(bytes) = bytes
<1> DEFINE e == FrameEnd(bytes)
<1>1. e \in 2..Len(bytes)
    BY FrameEndBounds
<1> HIDE DEF e
<1>2. /\ SubSeq(bytes, 1, e) \in Seq(S) /\ SubSeq(bytes, e + 1, Len(bytes)) \in Seq(S)
      /\ Len(SubSeq(bytes, e + 1, Len(bytes))) < Len(bytes)
    BY <1>1
<1>3. SubSeq(bytes, 1, e) \o SubSeq(bytes, e + 1, Len(bytes)) = bytes
    <2>1. e \in 0..Len(bytes)
        BY <1>1
    <2> QED
        BY <2>1, CutInTwo
<1> QED
    BY <1>2, <1>3 DEF FirstFrame, AfterFrame, e

-----------------------------------------------------------------------------

(* drain_complete leaves no complete frame in the buffer, and what it pops *)
(* and what it leaves are the bytes it was given.                          *)
Drained(S, bytes) ==
    /\ DrainComplete(bytes).frames \in Seq(Seq(S))
    /\ DrainComplete(bytes).rest \in Seq(S)
    /\ FrameEnd(DrainComplete(bytes).rest) = 0
    /\ FlattenSeq(DrainComplete(bytes).frames) \o DrainComplete(bytes).rest = bytes

LEMMA DrainProperties ==
    ASSUME NEW S, NEW bytes \in Seq(S)
    PROVE  Drained(S, bytes)
<1> DEFINE T == {n \in Nat : \A b \in Seq(S) : Len(b) < n => Drained(S, b)}
<1>1. 0 \in T
    OBVIOUS
<1>2. ASSUME NEW n \in Nat, n \in T
      PROVE  n + 1 \in T
    <2>1. SUFFICES ASSUME NEW b \in Seq(S), Len(b) < n + 1
                   PROVE  Drained(S, b)
        OBVIOUS
    <2>2. CASE FrameEnd(b) = 0
        <3>1. DrainComplete(b).frames = <<>> /\ DrainComplete(b).rest = b
            BY <2>2, DrainNone
        <3>2. <<>> \in Seq(Seq(S)) /\ FlattenSeq(<<>>) = <<>> /\ <<>> \o b = b
            BY FlattenSeqIs, ConcatEmptySeq, EmptySeq
        <3> QED
            BY <2>2, <3>1, <3>2 DEF Drained
    <2>3. CASE FrameEnd(b) # 0
        <3> DEFINE first == FirstFrame(b)
                   after == AfterFrame(b)
        <3>1. /\ first \in Seq(S) /\ after \in Seq(S)
              /\ Len(after) < Len(b) /\ first \o after = b
            BY <2>3, FrameParts
        <3>2. /\ DrainComplete(b).frames = <<first>> \o DrainComplete(after).frames
              /\ DrainComplete(b).rest = DrainComplete(after).rest
            BY <2>3, DrainFirst
        <3> HIDE DEF first, after
        <3>3. Len(after) < n
            BY <2>1, <3>1
        <3>4. Drained(S, after)
            BY <1>2, <3>1, <3>3
        <3> DEFINE fs == DrainComplete(after).frames
                   rest == DrainComplete(after).rest
        <3>5. /\ fs \in Seq(Seq(S)) /\ rest \in Seq(S) /\ FrameEnd(rest) = 0
              /\ FlattenSeq(fs) \o rest = after
            BY <3>4 DEF Drained
        <3> HIDE DEF fs, rest
        <3>6. <<first>> \o fs \in Seq(Seq(S))
            BY <3>1, <3>5
        <3>7. FlattenSeq(<<first>> \o fs) = first \o FlattenSeq(fs)
            BY <3>1, <3>5, FlattenSeqCons
        <3>8. FlattenSeq(fs) \in Seq(S)
            BY <3>5, FlattenSeqType
        <3>9. (first \o FlattenSeq(fs)) \o rest = first \o (FlattenSeq(fs) \o rest)
            <4>1. first \in Seq(S) /\ FlattenSeq(fs) \in Seq(S) /\ rest \in Seq(S)
                BY <3>1, <3>5, <3>8
            <4> QED
                BY <4>1
        <3> QED
            BY <3>1, <3>2, <3>5, <3>6, <3>7, <3>9 DEF Drained, fs, rest
    <2> QED
        BY <2>2, <2>3
<1>3. Len(bytes) + 1 \in T
    <2> HIDE DEF T
    <2>1. Len(bytes) + 1 \in Nat
        OBVIOUS
    <2> QED
        BY <1>1, <1>2, <2>1, NatSetInduction
<1> QED
    BY <1>3

(* Draining in two portions pops the frames that draining at once pops.    *)
DrainsInParts(bytes, more) ==
    LET before == DrainComplete(bytes)
        after  == DrainComplete(before.rest \o more)
    IN  /\ DrainComplete(bytes \o more).frames = before.frames \o after.frames
        /\ DrainComplete(bytes \o more).rest = after.rest

LEMMA DrainInParts ==
    ASSUME NEW S, NEW bytes \in Seq(S), NEW more \in Seq(S)
    PROVE  DrainsInParts(bytes, more)
<1> DEFINE T == {n \in Nat : \A b \in Seq(S) : Len(b) < n => DrainsInParts(b, more)}
<1>1. 0 \in T
    OBVIOUS
<1>2. ASSUME NEW n \in Nat, n \in T
      PROVE  n + 1 \in T
    <2>1. SUFFICES ASSUME NEW b \in Seq(S), Len(b) < n + 1
                   PROVE  DrainsInParts(b, more)
        OBVIOUS
    <2>2. CASE FrameEnd(b) = 0
        <3>1. DrainComplete(b).frames = <<>> /\ DrainComplete(b).rest = b
            BY <2>2, DrainNone
        <3>2. Drained(S, b \o more)
            <4>1. b \o more \in Seq(S)
                OBVIOUS
            <4> QED
                BY <4>1, DrainProperties
        <3>3. <<>> \o DrainComplete(b \o more).frames = DrainComplete(b \o more).frames
            BY <3>2, ConcatEmptySeq DEF Drained
        <3> QED
            BY <3>1, <3>3 DEF DrainsInParts
    <2>3. CASE FrameEnd(b) # 0
        <3> DEFINE first == FirstFrame(b)
                   after == AfterFrame(b)
                   e == FrameEnd(b)
                   both == b \o more
        <3>1. /\ first \in Seq(S) /\ after \in Seq(S)
              /\ Len(after) < Len(b) /\ first \o after = b
            BY <2>3, FrameParts
        <3>2. /\ DrainComplete(b).frames = <<first>> \o DrainComplete(after).frames
              /\ DrainComplete(b).rest = DrainComplete(after).rest
            BY <2>3, DrainFirst
        <3>3. both \in Seq(S) /\ FrameEnd(both) = e /\ e # 0 /\ e \in 2..Len(b)
            BY <2>3, FrameEndStable, FrameEndBounds
        <3>4. FirstFrame(both) = first /\ AfterFrame(both) = after \o more
            <4> HIDE DEF e
            <4>1. SubSeq(both, 1, e) = SubSeq(b, 1, e)
                BY <3>3
            <4>2. SubSeq(both, e + 1, Len(both)) = SubSeq(b, e + 1, Len(b)) \o more
                <5>1. e \in 1..Len(b)
                    BY <3>3
                <5> QED
                    BY <5>1, TailOfConcat
            <4> QED
                BY <3>3, <4>1, <4>2 DEF FirstFrame, AfterFrame, e
        <3>5. /\ DrainComplete(both).frames = <<first>> \o DrainComplete(after \o more).frames
              /\ DrainComplete(both).rest = DrainComplete(after \o more).rest
            BY <3>3, <3>4, DrainFirst
        <3> HIDE DEF first, after, e, both
        <3>6. DrainsInParts(after, more)
            BY <1>2, <2>1, <3>1
        <3>7. Drained(S, after)
            BY <3>1, DrainProperties
        <3>8. Drained(S, DrainComplete(after).rest \o more)
            <4>1. DrainComplete(after).rest \o more \in Seq(S)
                BY <3>7, ConcatProperties DEF Drained
            <4> QED
                BY <4>1, DrainProperties
        <3> DEFINE fs == DrainComplete(after).frames
                   gs == DrainComplete(DrainComplete(after).rest \o more).frames
        <3>9. fs \in Seq(Seq(S)) /\ gs \in Seq(Seq(S)) /\ <<first>> \in Seq(Seq(S))
            BY <3>1, <3>7, <3>8 DEF Drained
        <3>10. <<first>> \o (fs \o gs) = (<<first>> \o fs) \o gs
            <4> HIDE DEF fs, gs
            <4>1. PICK one, R : one = <<first>> /\ R = Seq(S)
                OBVIOUS
            <4>2. one \in Seq(R) /\ fs \in Seq(R) /\ gs \in Seq(R)
                BY <3>9, <4>1
            <4>3. one \o (fs \o gs) = (one \o fs) \o gs
                BY <4>2, SMTT(60)
            <4> QED
                BY <4>1, <4>3
        <3> QED
            BY <3>2, <3>5, <3>6, <3>10 DEF DrainsInParts, both
    <2> QED
        BY <2>2, <2>3
<1>3. Len(bytes) + 1 \in T
    <2> HIDE DEF T
    <2>1. Len(bytes) + 1 \in Nat
        OBVIOUS
    <2> QED
        BY <1>1, <1>2, <2>1, NatSetInduction
<1> QED
    BY <1>3

-----------------------------------------------------------------------------

(* What is popped and what is held are what draining all the bytes at once *)
(* would pop and leave.                                                    *)
IInv ==
    /\ received \in Seq(Bytes) /\ Len(received) <= MaxBytes
    /\ ended \in BOOLEAN
    /\ frames = DrainComplete(received).frames
    /\ buf = DrainComplete(received).rest

LEMMA ChunkType ==
    ASSUME NEW chunk \in Chunks
    PROVE  chunk \in Seq(Bytes)
<1>1. PICK n \in 1..MaxChunk : chunk \in [1..n -> Bytes]
    BY DEF Chunks
<1> QED
    BY <1>1, ByteBounds

LEMMA InitInv == Init => IInv
<1> SUFFICES ASSUME Init PROVE IInv
    OBVIOUS
<1>1. received = <<>> /\ received \in Seq(Bytes) /\ Len(received) = 0
    BY EmptySeq DEF Init
<1>2. FrameEnd(received) = 0
    <2>1. FrameEnd(received) = 0 \/ FrameEnd(received) \in 2..Len(received)
        BY <1>1, FrameEndBounds
    <2> QED
        BY <1>1, <2>1
<1>3. DrainComplete(received).frames = <<>> /\ DrainComplete(received).rest = received
    BY <1>1, <1>2, DrainNone
<1>4. Len(received) <= MaxBytes
    BY <1>1, ByteBounds
<1> QED
    BY <1>1, <1>3, <1>4 DEF Init, IInv

LEMMA FeedInv ==
    ASSUME IInv, NEW chunk \in Chunks, Feed(chunk)
    PROVE  IInv'
<1>1. chunk \in Seq(Bytes) /\ received \in Seq(Bytes)
    BY ChunkType DEF IInv
<1>2. received' = received \o chunk
    BY DEF Feed
<1>3. received' \in Seq(Bytes) /\ Len(received') <= MaxBytes
    BY <1>1, <1>2, ConcatProperties DEF Feed
<1>4. DrainsInParts(received, chunk)
    BY <1>1, DrainInParts
<1>5. /\ frames' = frames \o DrainComplete(buf \o chunk).frames
      /\ buf' = DrainComplete(buf \o chunk).rest
      /\ ended' = ended
    BY DEF Feed
<1> QED
    BY <1>2, <1>3, <1>4, <1>5 DEF IInv, DrainsInParts

LEMMA NextInv == IInv /\ [Next]_vars => IInv'
<1> SUFFICES ASSUME IInv, [Next]_vars PROVE IInv'
    OBVIOUS
<1>1. ASSUME NEW chunk \in Chunks, Feed(chunk) PROVE IInv'
    BY <1>1, FeedInv
<1>2. CASE End
    BY <1>2 DEF End, IInv
<1>3. CASE UNCHANGED vars
    BY <1>3 DEF vars, IInv
<1> QED
    BY <1>1, <1>2, <1>3 DEF Next

(* The reframer is as good as one that sees the whole stream at once:      *)
(* at all times it has popped exactly the frames, and holds exactly the    *)
(* bytes, that popping them from all the bytes received would give.        *)
THEOREM FramingInvariant == Spec => []IInv
BY InitInv, NextInv, PTL DEF Spec

LEMMA InvImplies == IInv => TypeOK /\ FramesIndependentOfChunks /\ NothingLost
<1> SUFFICES ASSUME IInv PROVE TypeOK /\ FramesIndependentOfChunks /\ NothingLost
    OBVIOUS
<1>1. Drained(Bytes, received)
    BY DrainProperties DEF IInv
<1> QED
    BY <1>1 DEF IInv, Drained, TypeOK, FramesIndependentOfChunks, NothingLost

(* After every chunk the buffer holds no complete frame (the loop of       *)
(* drain_complete).                                                        *)
THEOREM BufferIncomplete == Spec => []TypeOK
BY FramingInvariant, InvImplies, PTL

(* Chunk borders make no difference to the frames, for streams of any      *)
(* length cut anywhere: a frame that is complete is not changed by what    *)
(* arrives later.                                                          *)
THEOREM ChunksDoNotMatter == Spec => []FramesIndependentOfChunks
BY FramingInvariant, InvImplies, PTL

(* Frames popped and bytes held are the bytes that came, in order.         *)
THEOREM BytesConserved == Spec => []NothingLost
BY FramingInvariant, InvImplies, PTL

(* Where the content of the first line stops, and where the line ends.     *)
Stop(text, breaks) ==
    Min({j \in DOMAIN text : text[j] \in breaks} \cup {Len(text) + 1})

LineEnd(text, breaks) ==
    LET stop == Stop(text, breaks)
    IN  IF stop < Len(text) /\ text[stop] = CR /\ text[stop + 1] = LF
        THEN stop + 1 ELSE Min({stop, Len(text)})

LEMMA FirstLineIs ==
    ASSUME NEW text, NEW breaks
    PROVE  /\ FirstLine(text, breaks) = [content |-> FirstLine(text, breaks).content,
                                         whole   |-> FirstLine(text, breaks).whole]
           /\ FirstLine(text, breaks).content = SubSeq(text, 1, Stop(text, breaks) - 1)
           /\ FirstLine(text, breaks).whole = SubSeq(text, 1, LineEnd(text, breaks))
<1> DEFINE c == SubSeq(text, 1, Stop(text, breaks) - 1)
           w == SubSeq(text, 1, LineEnd(text, breaks))
<1>1. FirstLine(text, breaks) = [content |-> c, whole |-> w]
    BY DEF FirstLine, Stop, LineEnd
<1> HIDE DEF c, w
<1>2. FirstLine(text, breaks).content = c /\ FirstLine(text, breaks).whole = w
    BY <1>1
<1> QED
    BY <1>1, <1>2 DEF c, w

LEMMA StopIs ==
    ASSUME NEW S, NEW text \in Seq(S), NEW breaks
    PROVE  /\ Stop(text, breaks) \in 1..Len(text)+1
           /\ \A j \in 1..Stop(text, breaks)-1 : text[j] \notin breaks
           /\ Stop(text, breaks) <= Len(text) => text[Stop(text, breaks)] \in breaks
<1> DEFINE T == {j \in DOMAIN text : text[j] \in breaks} \cup {Len(text) + 1}
           n == Len(text)
<1>1. n \in Nat /\ DOMAIN text = 1..n
    OBVIOUS
<1>2. /\ \A j \in T : j \in 1..n+1 /\ (j <= n => text[j] \in breaks)
      /\ \A j \in 1..n : text[j] \in breaks => j \in T
      /\ T # {} /\ T \subseteq Nat
    BY <1>1
<1> HIDE DEF T, n
<1>3. Min(T) \in T /\ \A y \in T : Min(T) <= y
    BY <1>2, MinProperties
<1> DEFINE m == Min(T)
<1>4. m \in 1..n+1 /\ (m <= n => text[m] \in breaks)
    BY <1>2, <1>3
<1>5. \A j \in T : m <= j
    BY <1>3
<1> HIDE DEF m
<1>6. ASSUME NEW j \in 1..m-1 PROVE text[j] \notin breaks
    <2>1. j \in 1..n /\ ~(m <= j)
        BY <1>1, <1>4
    <2> QED
        BY <1>2, <1>5, <2>1
<1>7. m = Stop(text, breaks)
    BY DEF m, T, n, Stop
<1> QED
    BY <1>4, <1>6, <1>7 DEF n

(* It is the only place with these properties.                             *)
LEMMA StopUnique ==
    ASSUME NEW S, NEW text \in Seq(S), NEW breaks, NEW s \in 1..Len(text)+1,
           \A j \in 1..s-1 : text[j] \notin breaks,
           s <= Len(text) => text[s] \in breaks
    PROVE  Stop(text, breaks) = s
<1> DEFINE t == Stop(text, breaks)
<1>1. /\ t \in 1..Len(text)+1
      /\ \A j \in 1..t-1 : text[j] \notin breaks
      /\ t <= Len(text) => text[t] \in breaks
    BY StopIs
<1> HIDE DEF t
<1>2. CASE t < s
    <2>1. t \in 1..s-1 /\ t <= Len(text)
        BY <1>1, <1>2
    <2> QED
        BY <1>1, <2>1
<1>3. CASE s < t
    <2>1. s \in 1..t-1 /\ s <= Len(text)
        BY <1>1, <1>3
    <2> QED
        BY <1>1, <2>1
<1>4. t = s
    BY <1>1, <1>2, <1>3
<1> QED
    BY <1>4 DEF t

LEMMA LineEndIs ==
    ASSUME NEW S, NEW text \in Seq(S), NEW breaks, text # <<>>
    PROVE  /\ LineEnd(text, breaks) \in 1..Len(text)
           /\ LineEnd(text, breaks) =
                  LET stop == Stop(text, breaks)
                  IN  IF stop < Len(text) /\ text[stop] = CR /\ text[stop + 1] = LF
                      THEN stop + 1
                      ELSE IF stop <= Len(text) THEN stop ELSE Len(text)
<1> DEFINE n == Len(text)
           s == Stop(text, breaks)
<1>1. n \in Nat /\ n >= 1 /\ s \in 1..n+1
    <2>1. n \in Nat /\ n >= 1
        BY EmptySeq
    <2> QED
        BY <2>1, StopIs
<1>2. Min({s, n}) = IF s <= n THEN s ELSE n
    <2> HIDE DEF s, n
    <2>1. Min({s, n}) \in {s, n} /\ \A y \in {s, n} : Min({s, n}) <= y
        <3>1. {s, n} \subseteq Nat /\ {s, n} # {}
            BY <1>1
        <3> HIDE DEF s, n
        <3> QED
            BY <3>1, MinProperties
    <2> QED
        BY <1>1, <2>1
<1>3. LineEnd(text, breaks) = IF s < n /\ text[s] = CR /\ text[s + 1] = LF
                              THEN s + 1 ELSE Min({s, n})
    BY DEF LineEnd
<1> HIDE DEF s, n
<1>4. LineEnd(text, breaks) \in 1..n
    BY <1>1, <1>2, <1>3
<1> QED
    BY <1>2, <1>3, <1>4 DEF s, n

(* The first line and what comes after it make up the text.                *)
AfterLine(text, breaks) ==
    SubSeq(text, Len(FirstLine(text, breaks).whole) + 1, Len(text))

LineRecords(S) == [content : Seq(S), whole : Seq(S)]

LEMMA LineParts ==
    ASSUME NEW S, NEW text \in Seq(S), NEW breaks, text # <<>>
    PROVE  /\ FirstLine(text, breaks) \in LineRecords(S)
           /\ Len(FirstLine(text, breaks).whole) = LineEnd(text, breaks)
           /\ Len(FirstLine(text, breaks).whole) \in 1..Len(text)
           /\ AfterLine(text, breaks) \in Seq(S)
           /\ Len(AfterLine(text, breaks)) < Len(text)
           /\ FirstLine(text, breaks).whole \o AfterLine(text, breaks) = text
<1> DEFINE n == Len(text)
           s == Stop(text, breaks)
           e == LineEnd(text, breaks)
<1>1. n \in Nat /\ e \in 1..n /\ s \in 1..n+1
    BY StopIs, LineEndIs
<1>2. /\ FirstLine(text, breaks) = [content |-> FirstLine(text, breaks).content,
                                    whole   |-> FirstLine(text, breaks).whole]
      /\ FirstLine(text, breaks).content = SubSeq(text, 1, s - 1)
      /\ FirstLine(text, breaks).whole = SubSeq(text, 1, e)
    BY FirstLineIs
<1> HIDE DEF s, e
<1>3. /\ SubSeq(text, 1, s - 1) \in Seq(S)
      /\ SubSeq(text, 1, e) \in Seq(S) /\ Len(SubSeq(text, 1, e)) = e
      /\ SubSeq(text, e + 1, n) \in Seq(S) /\ Len(SubSeq(text, e + 1, n)) = n - e
    BY <1>1
<1>4. SubSeq(text, 1, e) \o SubSeq(text, e + 1, n) = text
    <2>1. e \in 0..Len(text)
        BY <1>1
    <2> QED
        BY <2>1, CutInTwo
<1>5. AfterLine(text, breaks) = SubSeq(text, e + 1, n)
    <2>1. FirstLine(text, breaks).whole = SubSeq(text, 1, e)
        BY <1>2
    <2>2. Len(FirstLine(text, breaks).whole) = e
        BY <1>3, <2>1, Zenon
    <2> QED
        BY <2>2 DEF AfterLine
<1>6. n - e < n
    BY <1>1
<1> HIDE DEF n
<1>7. FirstLine(text, breaks) \in LineRecords(S)
    BY <1>2, <1>3 DEF LineRecords
<1>8. FirstLine(text, breaks).whole = SubSeq(text, 1, e)
    BY <1>2
<1>9. /\ Len(FirstLine(text, breaks).whole) = e /\ e \in 1..n
      /\ AfterLine(text, breaks) \in Seq(S)
      /\ Len(AfterLine(text, breaks)) < n
      /\ FirstLine(text, breaks).whole \o AfterLine(text, breaks) = text
    BY <1>1, <1>3, <1>4, <1>5, <1>6, <1>8, Zenon
<1> QED
    BY <1>7, <1>9 DEF e, n

-----------------------------------------------------------------------------

(* The function by which Lines is defined.                                 *)
LinesStep(text, breaks, f, i) ==
    LET left == SubSeq(text, i, Len(text))
        line == FirstLine(left, breaks)
    IN  IF left = <<>> THEN <<>> ELSE <<line>> \o f[i + Len(line.whole)]

LinesFrom(text, breaks) ==
    CHOOSE f : f = [i \in 1..Len(text)+1 |-> LinesStep(text, breaks, f, i)]

LEMMA LinesStepLooksAhead ==
    ASSUME NEW S, NEW text \in Seq(S), NEW breaks, NEW i \in 1..Len(text)+1, NEW f, NEW g,
           \A k \in i+1..Len(text)+1 : f[k] = g[k]
    PROVE  LinesStep(text, breaks, f, i) = LinesStep(text, breaks, g, i)
<1> DEFINE left == SubSeq(text, i, Len(text))
           e == Len(FirstLine(left, breaks).whole)
<1>1. left \in Seq(S) /\ Len(left) = Len(text) - i + 1
    BY TailOf
<1>2. left # <<>> => e \in 1..Len(left)
    <2> HIDE DEF left
    <2> QED
        BY <1>1, LineParts
<1>3. left # <<>> => i + e \in i+1..Len(text)+1
    <2> HIDE DEF e, left
    <2> QED
        BY <1>1, <1>2
<1>4. left # <<>> => f[i+e] = g[i+e]
    BY <1>3
<1> QED
    BY <1>4 DEF LinesStep

LEMMA LinesEquation ==
    ASSUME NEW S, NEW text \in Seq(S), NEW breaks
    PROVE  LinesFrom(text, breaks) =
               [i \in 1..Len(text)+1 |-> LinesStep(text, breaks, LinesFrom(text, breaks), i)]
<1> DEFINE n == Len(text) + 1
           Defined(k) == \E f : f = [i \in n+1-k..n |-> LinesStep(text, breaks, f, i)]
           T == {k \in Nat : k <= n => Defined(k)}
<1>0. n \in Nat
    OBVIOUS
<1>1. 0 \in T
    <2>1. n+1-0..n = {}
        OBVIOUS
    <2>2. [i \in {} |-> 0] = [i \in {} |-> LinesStep(text, breaks, [j \in {} |-> 0], i)]
        OBVIOUS
    <2>3. Defined(0)
        BY <2>1, <2>2
    <2> HIDE DEF Defined
    <2> QED
        BY <2>3
<1>2. ASSUME NEW k \in Nat, k \in T
      PROVE  k + 1 \in T
    <2>1. SUFFICES ASSUME k + 1 <= n PROVE Defined(k + 1)
        <3> HIDE DEF Defined
        <3> QED
            OBVIOUS
    <2>2. PICK f : f = [i \in n+1-k..n |-> LinesStep(text, breaks, f, i)]
        BY <1>0, <1>2, <2>1
    <2> DEFINE first == n+1-(k+1)
               g == [i \in first..n |-> IF i = first THEN LinesStep(text, breaks, f, i) ELSE f[i]]
    <2>3. /\ first \in 1..n /\ first + 1 = n+1-k
          /\ \A i \in first..n : i = first \/ i \in n+1-k..n
        BY <1>0, <2>1
    <2>4. /\ g = [i \in first..n |-> g[i]]
          /\ g[first] = LinesStep(text, breaks, f, first)
          /\ \A i \in first+1..n : g[i] = f[i]
        BY <2>3
    <2> HIDE DEF g, first
    <2>5. ASSUME NEW i \in first..n
          PROVE  g[i] = LinesStep(text, breaks, g, i)
        <3>1. \A j \in i+1..n : f[j] = g[j]
            <4>1. \A j \in i+1..n : j \in first+1..n
                BY <1>0, <2>3
            <4> QED
                BY <2>4, <4>1
        <3>2. LinesStep(text, breaks, f, i) = LinesStep(text, breaks, g, i)
            BY <2>3, <3>1, LinesStepLooksAhead
        <3>3. CASE i = first
            BY <2>4, <3>2, <3>3
        <3>4. CASE i \in n+1-k..n
            <4>1. g[i] = f[i]
                BY <2>3, <2>4, <3>4
            <4> QED
                BY <2>2, <3>2, <3>4, <4>1
        <3> QED
            BY <2>3, <3>3, <3>4
    <2>6. g = [i \in first..n |-> LinesStep(text, breaks, g, i)]
        BY <2>4, <2>5
    <2> QED
        BY <2>6 DEF first
<1>3. n \in T
    <2> HIDE DEF T
    <2> QED
        BY <1>0, <1>1, <1>2, NatSetInduction
<1>4. Defined(n)
    <2> HIDE DEF Defined
    <2> QED
        BY <1>0, <1>3
<1>5. n+1-n = 1
    BY <1>0
<1> QED
    BY <1>4, <1>5 DEF LinesFrom

LEMMA LinesAt ==
    ASSUME NEW S, NEW text \in Seq(S), NEW breaks, NEW i \in 1..Len(text)+1
    PROVE  LinesFrom(text, breaks)[i] = LinesStep(text, breaks, LinesFrom(text, breaks), i)
<1> DEFINE f == LinesFrom(text, breaks)
<1>1. f = [k \in 1..Len(text)+1 |-> LinesStep(text, breaks, f, k)]
    BY LinesEquation
<1> HIDE DEF f
<1>2. f[i] = LinesStep(text, breaks, f, i)
    BY <1>1
<1> QED
    BY <1>2 DEF f

LEMMA LinesIs ==
    ASSUME NEW text, NEW breaks
    PROVE  Lines(text, breaks) = LinesFrom(text, breaks)[1]
BY DEF Lines, LinesFrom, LinesStep

(* The lines of a tail of a text are the lines of the text from there on.  *)
LEMMA LinesTail ==
    ASSUME NEW S, NEW text \in Seq(S), NEW breaks, NEW k \in 1..Len(text)+1
    PROVE  LinesFrom(text, breaks)[k] = Lines(SubSeq(text, k, Len(text)), breaks)
<1> DEFINE n == Len(text)
           tail == SubSeq(text, k, n)
           m == Len(tail)
           F(t) == LinesFrom(t, breaks)
           T == {d \in Nat : \A j \in 1..m+1 :
                    m + 1 - j <= d => F(tail)[j] = F(text)[k + (j-1)]}
<1>1. /\ tail \in Seq(S) /\ n \in Nat /\ m \in Nat /\ m = n - k + 1
      /\ \A j \in 1..m : tail[j] = text[k + (j-1)]
    OBVIOUS
<1>2. ASSUME NEW d \in Nat, NEW j \in 1..m+1, m + 1 - j <= d,
             \A i \in 1..m+1 : m + 1 - i < d => F(tail)[i] = F(text)[k + (i-1)]
      PROVE  F(tail)[j] = F(text)[k + (j-1)]
    <2> DEFINE l == k + (j-1)
               left == SubSeq(text, l, n)
               e == Len(FirstLine(left, breaks).whole)
    <2>1. l \in 1..n+1
        BY <1>1
    <2>2. /\ left \in Seq(S) /\ Len(left) = n - l + 1
          /\ \A i \in 1..n-l+1 : left[i] = text[l+i-1]
        BY <2>1, TailOf
    <2>3. SubSeq(tail, j, m) = left
        <3>1. /\ SubSeq(tail, j, m) \in Seq(S) /\ Len(SubSeq(tail, j, m)) = m - j + 1
              /\ \A i \in 1..m-j+1 : SubSeq(tail, j, m)[i] = tail[j+i-1]
            BY <1>1, TailOf
        <3>2. m - j + 1 = n - l + 1
            BY <1>1
        <3>3. ASSUME NEW i \in 1..m-j+1 PROVE tail[j+i-1] = text[l+i-1]
            <4>1. j+i-1 \in 1..m /\ k + ((j+i-1) - 1) = l+i-1
                BY <1>1
            <4> HIDE DEF tail
            <4> QED
                BY <1>1, <4>1
        <3> HIDE DEF tail, left, m, l
        <3> QED
            BY <2>2, <3>1, <3>2, <3>3, SeqEqual
    <2>4. left # <<>> => e \in 1..n-l+1
        <3> HIDE DEF left, l
        <3> QED
            BY <2>2, LineParts
    <2>5. left # <<>> => F(tail)[j + e] = F(text)[l + e]
        <3> HIDE DEF e, tail, left, F
        <3>1. SUFFICES ASSUME left # <<>> PROVE F(tail)[j + e] = F(text)[l + e]
            OBVIOUS
        <3>2. j + e \in 1..m+1 /\ m + 1 - (j + e) < d /\ k + ((j + e) - 1) = l + e
            <4>1. m + 1 - j <= d
                BY <1>2
            <4>2. e \in Nat /\ 1 <= e /\ e <= n - l + 1 /\ j \in Nat /\ 1 <= j
                BY <1>1, <2>1, <2>4, <3>1
            <4>3. n \in Nat /\ m \in Nat /\ k \in Nat /\ m = n - k + 1
                BY <1>1
            <4> HIDE DEF m, n
            <4> QED
                BY <4>1, <4>2, <4>3
        <3> QED
            BY <1>2, <3>2
    <2>6. F(tail)[j] = LinesStep(tail, breaks, F(tail), j)
        BY <1>1, LinesAt
    <2>7. F(text)[l] = LinesStep(text, breaks, F(text), l)
        BY <2>1, LinesAt
    <2>8. LinesStep(tail, breaks, F(tail), j) = LinesStep(text, breaks, F(text), l)
        <3> HIDE DEF F
        <3> QED
            BY <2>3, <2>5 DEF LinesStep
    <2> QED
        BY <2>6, <2>7, <2>8
<1>3. 0 \in T
    <2>1. ASSUME NEW j \in 1..m+1, m + 1 - j <= 0
          PROVE  F(tail)[j] = F(text)[k + (j-1)]
        <3>1. \A i \in 1..m+1 : ~(m + 1 - i < 0)
            BY <1>1
        <3> QED
            BY <1>2, <2>1, <3>1
    <2> QED
        BY <2>1
<1>4. ASSUME NEW d \in Nat, d \in T
      PROVE  d + 1 \in T
    <2>1. ASSUME NEW j \in 1..m+1, m + 1 - j <= d + 1
          PROVE  F(tail)[j] = F(text)[k + (j-1)]
        <3>1. \A i \in 1..m+1 : m + 1 - i < d + 1 => m + 1 - i <= d
            BY <1>1
        <3>2. d + 1 \in Nat
            OBVIOUS
        <3> QED
            BY <1>2, <1>4, <2>1, <3>1, <3>2
    <2> QED
        BY <2>1
<1>5. m \in T
    <2> HIDE DEF T
    <2> QED
        BY <1>1, <1>3, <1>4, NatSetInduction
<1>6. 1 \in 1..m+1 /\ m + 1 - 1 <= m /\ k + (1-1) = k
    BY <1>1
<1>7. F(tail)[1] = F(text)[k]
    BY <1>5, <1>6
<1> QED
    BY <1>7, LinesIs

(* Lines, line by line.                                                    *)
LEMMA LinesNone ==
    ASSUME NEW breaks
    PROVE  Lines(<<>>, breaks) = <<>>
<1> DEFINE text == <<>>
<1>1. text \in Seq({0}) /\ 1 \in 1..Len(text)+1 /\ SubSeq(text, 1, Len(text)) = <<>>
    OBVIOUS
<1> HIDE DEF text
<1>2. LinesFrom(text, breaks)[1] = LinesStep(text, breaks, LinesFrom(text, breaks), 1)
    BY <1>1, LinesAt
<1>3. LinesStep(text, breaks, LinesFrom(text, breaks), 1) = <<>>
    BY <1>1 DEF LinesStep
<1> QED
    BY <1>2, <1>3, LinesIs DEF text

LEMMA LinesCons ==
    ASSUME NEW S, NEW text \in Seq(S), NEW breaks, text # <<>>
    PROVE  Lines(text, breaks) =
               <<FirstLine(text, breaks)>> \o Lines(AfterLine(text, breaks), breaks)
<1> DEFINE e == Len(FirstLine(text, breaks).whole)
           f == LinesFrom(text, breaks)
<1>1. SubSeq(text, 1, Len(text)) = text
    BY SubSeqFull
<1>2. e \in 1..Len(text) /\ Len(text) \in Nat
    BY LineParts
<1> HIDE DEF e
<1>3. 1 \in 1..Len(text)+1 /\ e + 1 \in 1..Len(text)+1 /\ 1 + e = e + 1
    BY <1>2
<1>4. f[1] = LinesStep(text, breaks, f, 1)
    BY <1>3, LinesAt
<1>5. f[e + 1] = Lines(SubSeq(text, e + 1, Len(text)), breaks)
    BY <1>3, LinesTail
<1> HIDE DEF f
<1>6. LinesStep(text, breaks, f, 1) = <<FirstLine(text, breaks)>> \o f[1 + e]
    BY <1>1 DEF LinesStep, e
<1> QED
    BY <1>3, <1>4, <1>5, <1>6, LinesIs DEF AfterLine, e, f

-----------------------------------------------------------------------------

(* A line: a content without line ends, and its end if it has one.         *)
IsLine(S, line) ==
    /\ line \in LineRecords(S)
    /\ line.whole # <<>>
    /\ \A j \in 1..Len(line.content) :
           line.content[j] = line.whole[j] /\ line.content[j] \notin {CR, LF}
    /\ \/ Len(line.whole) = Len(line.content)
       \/ /\ Len(line.whole) = Len(line.content) + 1
          /\ line.whole[Len(line.whole)] = LF
       \/ /\ Len(line.whole) = Len(line.content) + 2
          /\ line.whole[Len(line.whole) - 1] = CR
          /\ line.whole[Len(line.whole)] = LF

(* Every CR is followed by LF.                                             *)
WellEnded(text) ==
    \A i \in 1..Len(text) : text[i] = CR => i < Len(text) /\ text[i + 1] = LF

(* Of the characters of breaks the text has only CR and LF.                *)
Plain(text, breaks) ==
    /\ {CR, LF} \subseteq breaks
    /\ \A i \in 1..Len(text) : text[i] \in breaks => text[i] \in {CR, LF}

(* All lines of the text are complete.                                     *)
Complete(text) == text # <<>> => text[Len(text)] = LF

LEMMA FirstLineEnds ==
    ASSUME NEW S, NEW text \in Seq(S), NEW breaks, text # <<>>,
           WellEnded(text), Plain(text, breaks)
    PROVE  /\ IsLine(S, FirstLine(text, breaks))
           /\ AfterLine(text, breaks) # <<>> => Complete(FirstLine(text, breaks).whole)
<1> DEFINE n == Len(text)
           s == Stop(text, breaks)
           e == LineEnd(text, breaks)
           line == FirstLine(text, breaks)
           after == AfterLine(text, breaks)
<1>1. /\ s \in 1..n+1
      /\ \A j \in 1..s-1 : text[j] \notin breaks
      /\ s <= n => text[s] \in breaks
    BY StopIs
<1>2. /\ e \in 1..n /\ n \in Nat
      /\ e = IF s < n /\ text[s] = CR /\ text[s + 1] = LF THEN s + 1
             ELSE IF s <= n THEN s ELSE n
    BY LineEndIs
<1>3. /\ line.content = SubSeq(text, 1, s - 1)
      /\ line.whole = SubSeq(text, 1, e)
    BY FirstLineIs
<1>4. /\ line \in LineRecords(S) /\ Len(line.whole) = e
      /\ after \in Seq(S) /\ line.whole \o after = text
    BY LineParts
<1>5. after # <<>> => e < n
    <2>1. Len(line.whole \o after) = Len(line.whole) + Len(after)
        <3>1. line.whole \in Seq(S)
            BY <1>4 DEF LineRecords
        <3> HIDE DEF line, after
        <3> QED
            BY <1>4, <3>1, ConcatProperties
    <2>2. after # <<>> => Len(after) >= 1
        <3> HIDE DEF after
        <3> QED
            BY <1>4, EmptySeq
    <2> HIDE DEF after, line, e
    <2> QED
        BY <1>2, <1>4, <2>1, <2>2
<1> HIDE DEF s, e, line, after
<1>6. Len(line.content) = s - 1 /\ \A j \in 1..s-1 : line.content[j] = text[j]
    BY <1>1, <1>2, <1>3
<1>7. \A j \in 1..e : line.whole[j] = text[j]
    BY <1>1, <1>2, <1>3
<1>8. s - 1 <= e
    BY <1>1, <1>2
<1>9. line.whole # <<>>
    BY <1>2, <1>4, EmptySeq
<1>10. ASSUME NEW j \in 1..s-1
       PROVE  line.content[j] = line.whole[j] /\ line.content[j] \notin {CR, LF}
    <2>1. j \in 1..e
        BY <1>1, <1>2, <1>8
    <2> QED
        BY <1>1, <1>6, <1>7, <2>1 DEF Plain
<1>11. CASE s <= n
    <2>1. s \in 1..n /\ text[s] \in {CR, LF}
        BY <1>1, <1>11 DEF Plain
    <2>2. text[s] = CR => s < n /\ text[s + 1] = LF
        BY <2>1 DEF WellEnded
    <2>3. \/ e = s + 1 /\ text[s] = CR /\ text[s + 1] = LF
          \/ e = s /\ text[s] = LF
        BY <1>2, <2>1, <2>2
    <2>4. \/ e = s + 1 /\ line.whole[s] = CR /\ line.whole[s + 1] = LF
          \/ e = s /\ line.whole[s] = LF
        <3>1. s \in 1..e /\ (e = s + 1 => s + 1 \in 1..e)
            BY <2>1, <2>3
        <3> QED
            BY <1>7, <2>3, <3>1
    <2>5. \/ e = (s - 1) + 2 /\ line.whole[e - 1] = CR /\ line.whole[e] = LF
          \/ e = (s - 1) + 1 /\ line.whole[e] = LF
        <3>1. (s - 1) + 2 = s + 1 /\ (s - 1) + 1 = s /\ (s + 1) - 1 = s
            BY <2>1
        <3> QED
            BY <2>4, <3>1
    <2>6. \/ /\ Len(line.whole) = Len(line.content) + 2
             /\ line.whole[Len(line.whole) - 1] = CR
             /\ line.whole[Len(line.whole)] = LF
          \/ /\ Len(line.whole) = Len(line.content) + 1
             /\ line.whole[Len(line.whole)] = LF
        BY <1>4, <1>6, <2>5, Zenon
    <2>7. IsLine(S, line)
        BY <1>4, <1>6, <1>9, <1>10, <2>6, Zenon DEF IsLine
    <2> QED
        BY <2>6, <2>7, Zenon DEF Complete, line, after
<1>12. CASE ~(s <= n)
    <2>1. e = n /\ e = s - 1
        BY <1>1, <1>2, <1>12
    <2>2. after = <<>>
        BY <1>2, <1>5, <2>1
    <2>3. Len(line.whole) = Len(line.content)
        BY <1>4, <1>6, <2>1, Zenon
    <2>4. IsLine(S, line)
        BY <1>4, <1>6, <1>9, <1>10, <2>3, Zenon DEF IsLine
    <2> QED
        BY <2>2, <2>4 DEF line, after
<1> QED
    BY <1>11, <1>12

(* What is true of a text's line ends is true of those of a tail.          *)
LEMMA TailEnds ==
    ASSUME NEW S, NEW first \in Seq(S), NEW after \in Seq(S), NEW breaks
    PROVE  /\ WellEnded(first \o after) => WellEnded(after)
           /\ Plain(first \o after, breaks) => Plain(after, breaks)
           /\ Complete(first \o after) => Complete(after)
<1> DEFINE both == first \o after
           n == Len(first)
           m == Len(after)
<1>1. /\ n \in Nat /\ m \in Nat /\ both \in Seq(S) /\ Len(both) = n + m
      /\ \A i \in 1..n+m : both[i] = IF i <= n THEN first[i] ELSE after[i-n]
    BY ConcatProperties
<1>2. \A i \in 1..m : both[n + i] = after[i]
    <2>1. ASSUME NEW i \in 1..m PROVE both[n + i] = after[i]
        <3>1. n + i \in 1..n+m /\ ~(n + i <= n) /\ (n + i) - n = i
            BY <1>1
        <3> HIDE DEF both, n, m
        <3> QED
            BY <1>1, <3>1
    <2> QED
        BY <2>1
<1>3. after # <<>> => m \in 1..m
    BY <1>1, EmptySeq
<1>4. both = <<>> => after = <<>>
    BY <1>1, EmptySeq
<1>5. \A i \in 1..m : n + i \in 1..n+m /\ (n + i) + 1 = n + (i + 1) /\ (n + i < n + m => i < m)
    BY <1>1
<1>6. after = <<>> <=> m = 0
    BY EmptySeq
<1> HIDE DEF both, n, m
<1>7. WellEnded(both) => WellEnded(after)
    <2> SUFFICES ASSUME WellEnded(both), NEW i \in 1..m, after[i] = CR
                 PROVE  i < m /\ after[i + 1] = LF
        BY DEF WellEnded, m
    <2>1. n + i < n + m /\ both[(n + i) + 1] = LF
        BY <1>1, <1>2, <1>5 DEF WellEnded
    <2>2. i < m /\ i + 1 \in 1..m
        BY <1>1, <1>5, <2>1
    <2> QED
        BY <1>2, <1>5, <2>1, <2>2
<1>8. Plain(both, breaks) => Plain(after, breaks)
    BY <1>1, <1>2, <1>5 DEF Plain, m
<1>9. Complete(both) => Complete(after)
    <2>1. after # <<>> => both # <<>> /\ both[n + m] = after[m]
        BY <1>2, <1>3, <1>4
    <2> QED
        BY <1>1, <2>1 DEF Complete, m
<1> QED
    BY <1>7, <1>8, <1>9 DEF both

(* The lines of a text whose lines are well ended.                         *)
Wholes(lines) == [k \in DOMAIN lines |-> lines[k].whole]

HasLines(S, text, lines) ==
    /\ lines \in Seq(LineRecords(S))
    /\ \A k \in 1..Len(lines) : IsLine(S, lines[k])
    /\ \A k \in 1..Len(lines)-1 : Complete(lines[k].whole)
    /\ Wholes(lines) \in Seq(Seq(S))
    /\ FlattenSeq(Wholes(lines)) = text

LEMMA WholesCons ==
    ASSUME NEW S, NEW line \in LineRecords(S), NEW lines \in Seq(LineRecords(S))
    PROVE  /\ Wholes(lines) \in Seq(Seq(S)) /\ line.whole \in Seq(S)
           /\ Wholes(<<line>> \o lines) = <<line.whole>> \o Wholes(lines)
<1> DEFINE all == <<line>> \o lines
           w == line.whole
           ws == Wholes(lines)
           n == Len(lines)
<1>1. /\ all \in Seq(LineRecords(S)) /\ Len(all) = n + 1 /\ all[1] = line
      /\ \A k \in 1..n : all[k+1] = lines[k]
    BY ConsProperties
<1>2. w \in Seq(S) /\ n \in Nat /\ \A k \in 1..n : lines[k].whole \in Seq(S)
    <2>1. n \in Nat /\ \A k \in 1..n : lines[k] \in LineRecords(S)
        <3> DEFINE R == LineRecords(S)
        <3>1. lines \in Seq(R)
            OBVIOUS
        <3> HIDE DEF R
        <3>2. n \in Nat /\ \A k \in 1..n : lines[k] \in R
            BY <3>1
        <3> QED
            BY <3>2 DEF R
    <2> QED
        BY <2>1 DEF LineRecords
<1>3. ws \in Seq(Seq(S)) /\ Len(ws) = n /\ \A k \in 1..n : ws[k] = lines[k].whole
    <2> DEFINE R == Seq(S)
    <2>1. \A k \in 1..n : lines[k].whole \in R
        BY <1>2
    <2>2. DOMAIN lines = 1..n
        OBVIOUS
    <2> HIDE DEF R, n
    <2>3. ws = [k \in 1..n |-> lines[k].whole]
        BY <2>2 DEF Wholes
    <2>4. ws \in Seq(R) /\ Len(ws) = n
        BY <1>2, <2>1, <2>3
    <2> QED
        BY <2>3, <2>4 DEF R
<1>4. /\ <<w>> \o ws \in Seq(Seq(S)) /\ Len(<<w>> \o ws) = n + 1 /\ (<<w>> \o ws)[1] = w
      /\ \A k \in 1..n : (<<w>> \o ws)[k+1] = ws[k]
    <2> DEFINE R == Seq(S)
    <2>1. w \in R /\ ws \in Seq(R) /\ Len(ws) = n
        BY <1>2, <1>3
    <2> HIDE DEF R, w, ws, n
    <2>2. /\ <<w>> \o ws \in Seq(R) /\ Len(<<w>> \o ws) = Len(ws) + 1 /\ (<<w>> \o ws)[1] = w
          /\ \A k \in 1..Len(ws) : (<<w>> \o ws)[k+1] = ws[k]
        BY ONLY <2>1, ConsProperties
    <2> QED
        BY <2>1, <2>2 DEF R
<1>5. Wholes(all) = [k \in 1..n+1 |-> all[k].whole]
    <2>1. DOMAIN all = 1..n+1
        <3> HIDE DEF all, n
        <3> QED
            BY <1>1
    <2> HIDE DEF all
    <2> QED
        BY <2>1 DEF Wholes
<1> DEFINE v == <<w>> \o ws
<1>6. v = [k \in 1..n+1 |-> v[k]]
    <2> DEFINE R == Seq(S)
    <2>1. v \in Seq(R) /\ Len(v) = n + 1
        BY <1>4
    <2> HIDE DEF v, R, n
    <2> QED
        BY <2>1
<1>7. ASSUME NEW k \in 1..n+1 PROVE all[k].whole = v[k]
    <2>1. CASE k = 1
        BY <1>1, <1>4, <2>1
    <2>2. CASE k # 1
        <3>1. k - 1 \in 1..n /\ (k - 1) + 1 = k
            BY <1>2, <2>2
        <3> HIDE DEF all, ws, n
        <3>2. all[(k - 1) + 1] = lines[k - 1] /\ lines[k - 1].whole = ws[k - 1]
            BY <1>1, <1>3, <3>1
        <3>3. v[(k - 1) + 1] = ws[k - 1]
            BY <1>4, <3>1
        <3> HIDE DEF v
        <3> QED
            BY <3>1, <3>2, <3>3
    <2> QED
        BY <2>1, <2>2
<1>8. Wholes(all) = v
    <2> HIDE DEF all, v
    <2> QED
        BY <1>5, <1>6, <1>7
<1> QED
    BY <1>2, <1>3, <1>8

LEMMA LinesOfText ==
    ASSUME NEW S, NEW text \in Seq(S), NEW breaks, WellEnded(text), Plain(text, breaks)
    PROVE  HasLines(S, text, Lines(text, breaks))
<1> DEFINE T == {n \in Nat : \A t \in Seq(S) :
                    Len(t) < n /\ WellEnded(t) /\ Plain(t, breaks)
                        => HasLines(S, t, Lines(t, breaks))}
<1>1. 0 \in T
    OBVIOUS
<1>2. ASSUME NEW n \in Nat, n \in T
      PROVE  n + 1 \in T
    <2>1. ASSUME NEW t \in Seq(S), Len(t) < n + 1, WellEnded(t), Plain(t, breaks)
          PROVE  HasLines(S, t, Lines(t, breaks))
        <3>1. CASE t = <<>>
            <4>1. Lines(t, breaks) = <<>>
                BY <3>1, LinesNone
            <4>2. Wholes(<<>>) = <<>>
                BY DEF Wholes
            <4>3. <<>> \in Seq(Seq(S)) /\ FlattenSeq(<<>>) = <<>>
                BY EmptySeq, FlattenSeqIs
            <4>4. Len(<<>>) = 0 /\ 1..0 = {} /\ 1..0-1 = {} /\ <<>> \in Seq(LineRecords(S))
                BY EmptySeq
            <4> QED
                BY <3>1, <4>1, <4>2, <4>3, <4>4 DEF HasLines
        <3>2. CASE t # <<>>
            <4> DEFINE line == FirstLine(t, breaks)
                       after == AfterLine(t, breaks)
                       ls == Lines(after, breaks)
                       all == <<line>> \o ls
            <4>1. Lines(t, breaks) = all
                BY <3>2, LinesCons
            <4>2. /\ line \in LineRecords(S) /\ after \in Seq(S) /\ Len(after) < Len(t)
                  /\ line.whole \o after = t
                BY <3>2, LineParts
            <4>3. IsLine(S, line) /\ (after # <<>> => Complete(line.whole))
                BY <2>1, <3>2, FirstLineEnds
            <4>4. after = <<>> => ls = <<>>
                BY LinesNone
            <4> HIDE DEF line, after
            <4>5. line.whole \in Seq(S)
                BY <4>2 DEF LineRecords
            <4>6. WellEnded(after) /\ Plain(after, breaks)
                BY <2>1, <4>2, <4>5, TailEnds
            <4>7. Len(after) < n
                BY <2>1, <4>2
            <4>8. HasLines(S, after, ls)
                BY <1>2, <4>2, <4>6, <4>7
            <4> HIDE DEF ls
            <4>9. /\ Wholes(ls) \in Seq(Seq(S)) /\ Wholes(all) = <<line.whole>> \o Wholes(ls)
                  /\ FlattenSeq(Wholes(ls)) = after /\ ls \in Seq(LineRecords(S))
                BY <4>2, <4>8, WholesCons DEF HasLines
            <4>10. FlattenSeq(Wholes(all)) = t
                BY <4>2, <4>5, <4>9, FlattenSeqCons
            <4>11. Wholes(all) \in Seq(Seq(S))
                <5> DEFINE R == Seq(S)
                           w == line.whole
                           ws == Wholes(ls)
                <5>1. w \in R /\ ws \in Seq(R)
                    BY <4>5, <4>9
                <5> HIDE DEF R, w, ws
                <5>2. <<w>> \o ws \in Seq(R)
                    BY <5>1, ConsProperties
                <5> QED
                    BY <4>9, <5>2 DEF R, w, ws
            <4>12. /\ all \in Seq(LineRecords(S)) /\ Len(all) = Len(ls) + 1 /\ all[1] = line
                   /\ \A k \in 1..Len(ls) : all[k+1] = ls[k]
                BY <4>2, <4>9, ConsProperties
            <4>13. Len(ls) \in Nat /\ (ls = <<>> <=> Len(ls) = 0)
                BY <4>9, EmptySeq
            <4> HIDE DEF all
            <4>14. ASSUME NEW k \in 1..Len(all) PROVE IsLine(S, all[k])
                <5>1. k = 1 \/ (k - 1 \in 1..Len(ls) /\ (k - 1) + 1 = k)
                    BY <4>12, <4>13
                <5> QED
                    BY <4>3, <4>8, <4>12, <5>1 DEF HasLines
            <4>15. ASSUME NEW k \in 1..Len(all)-1 PROVE Complete(all[k].whole)
                <5>1. CASE k = 1
                    <6>1. Len(ls) # 0
                        BY <4>12, <4>13
                    <6>2. after # <<>>
                        BY <4>4, <4>13, <6>1 DEF ls
                    <6> QED
                        BY <4>3, <4>12, <5>1, <6>2
                <5>2. CASE k # 1
                    <6>1. k - 1 \in 1..Len(ls)-1 /\ k - 1 \in 1..Len(ls) /\ (k - 1) + 1 = k
                        BY <4>12, <4>13, <5>2
                    <6> QED
                        BY <4>8, <4>12, <6>1 DEF HasLines
                <5> QED
                    BY <5>1, <5>2
            <4> QED
                BY <4>1, <4>10, <4>11, <4>12, <4>14, <4>15 DEF HasLines
        <3> QED
            BY <3>1, <3>2
    <2> QED
        BY <2>1
<1>3. Len(text) + 1 \in T
    <2>1. Len(text) + 1 \in Nat
        OBVIOUS
    <2> HIDE DEF T
    <2> QED
        BY <1>1, <1>2, <2>1, NatSetInduction
<1>4. Len(text) < Len(text) + 1
    OBVIOUS
<1> QED
    BY <1>3, <1>4

-----------------------------------------------------------------------------

(* A line read after complete lines is one more line.                      *)
Ends == {CR, LF}

LEMMA FirstLineOfLine ==
    ASSUME NEW S, NEW line, IsLine(S, line)
    PROVE  /\ FirstLine(line.whole, Ends) = line
           /\ AfterLine(line.whole, Ends) = <<>>
<1> DEFINE w == line.whole
           c == line.content
           n == Len(c)
           m == Len(w)
<1>1. w \in Seq(S) /\ c \in Seq(S) /\ w # <<>> /\ line = [content |-> c, whole |-> w]
    BY DEF IsLine, LineRecords
<1>2. n \in Nat /\ m \in Nat /\ m # 0
    BY <1>1, EmptySeq
<1>3. \A j \in 1..n : c[j] = w[j] /\ c[j] \notin Ends
    BY DEF IsLine, Ends
<1>4. \/ m = n
      \/ m = n + 1 /\ w[m] = LF
      \/ m = n + 2 /\ w[m - 1] = CR /\ w[m] = LF
    BY DEF IsLine
<1> HIDE DEF w, c, n, m
<1>5. \/ m = n
      \/ m = n + 1 /\ w[n + 1] = LF
      \/ m = n + 2 /\ w[n + 1] = CR /\ w[n + 2] = LF
    <2>1. m = n + 2 => m - 1 = n + 1
        BY <1>2
    <2> QED
        BY <1>4, <2>1
<1>6. Stop(w, Ends) = n + 1
    <2>1. n + 1 \in 1..m+1 /\ (n + 1) - 1 = n
        BY <1>2, <1>5
    <2>2. \A j \in 1..n : w[j] \notin Ends
        BY <1>3
    <2>3. n + 1 <= m => w[n + 1] \in Ends
        BY <1>2, <1>5 DEF Ends
    <2> QED
        BY <1>1, <2>1, <2>2, <2>3, StopUnique DEF m
<1>7. LineEnd(w, Ends) = m
    <2>1. LineEnd(w, Ends) = IF n + 1 < m /\ w[n + 1] = CR /\ w[(n + 1) + 1] = LF
                             THEN (n + 1) + 1
                             ELSE IF n + 1 <= m THEN n + 1 ELSE m
        BY <1>1, <1>6, LineEndIs DEF m
    <2>2. (n + 1) + 1 = n + 2
        BY <1>2
    <2> QED
        BY <1>2, <1>5, <2>1, <2>2
<1>8. /\ FirstLine(w, Ends) = [content |-> FirstLine(w, Ends).content,
                               whole   |-> FirstLine(w, Ends).whole]
      /\ FirstLine(w, Ends).content = SubSeq(w, 1, n)
      /\ FirstLine(w, Ends).whole = SubSeq(w, 1, m)
    <2>1. (n + 1) - 1 = n
        BY <1>2
    <2> QED
        BY <1>6, <1>7, <2>1, FirstLineIs
<1>9. SubSeq(w, 1, n) = c
    <2>1. n <= m
        BY <1>2, <1>5
    <2>2. /\ SubSeq(w, 1, n) \in Seq(S) /\ Len(SubSeq(w, 1, n)) = n
          /\ \A j \in 1..n : SubSeq(w, 1, n)[j] = w[j]
        BY <1>1, <1>2, <2>1 DEF m
    <2> QED
        BY <1>1, <1>3, <2>2, SeqEqual DEF n
<1>10. SubSeq(w, 1, m) = w
    BY <1>1, SubSeqFull DEF m
<1>11. FirstLine(w, Ends) = line
    BY <1>1, <1>8, <1>9, <1>10
<1>12. AfterLine(w, Ends) = SubSeq(w, m + 1, m)
    BY <1>8, <1>10 DEF AfterLine, m
<1>13. SubSeq(w, m + 1, m) = <<>>
    BY <1>1, <1>2 DEF m
<1> QED
    BY <1>11, <1>12, <1>13 DEF w

LEMMA LinesOfLine ==
    ASSUME NEW S, NEW line, IsLine(S, line)
    PROVE  Lines(line.whole, Ends) = <<line>>
<1>1. line.whole \in Seq(S) /\ line.whole # <<>>
    BY DEF IsLine, LineRecords
<1>2. FirstLine(line.whole, Ends) = line /\ AfterLine(line.whole, Ends) = <<>>
    BY FirstLineOfLine
<1>3. Lines(line.whole, Ends) = <<line>> \o Lines(<<>>, Ends)
    BY <1>1, <1>2, LinesCons
<1>4. Lines(<<>>, Ends) = <<>>
    BY LinesNone
<1>5. <<line>> \o <<>> = <<line>>
    <2>1. <<line>> \in Seq({line})
        OBVIOUS
    <2> QED
        BY <2>1, ConcatEmptySeq
<1> QED
    BY <1>3, <1>4, <1>5

LEMMA FirstLineOfConcat ==
    ASSUME NEW S, NEW a \in Seq(S), NEW w \in Seq(S), a # <<>>, Complete(a)
    PROVE  /\ FirstLine(a \o w, Ends) = FirstLine(a, Ends)
           /\ AfterLine(a \o w, Ends) = AfterLine(a, Ends) \o w
<1> DEFINE n == Len(a)
           both == a \o w
           s == Stop(a, Ends)
           e == LineEnd(a, Ends)
<1>1. /\ n \in Nat /\ n >= 1 /\ a[n] = LF
      /\ both \in Seq(S) /\ both # <<>> /\ Len(both) = n + Len(w) /\ Len(w) \in Nat
      /\ \A j \in 1..n : both[j] = a[j]
    <2>1. n \in Nat /\ n >= 1 /\ a[n] = LF
        BY EmptySeq DEF Complete
    <2>2. /\ both \in Seq(S) /\ Len(both) = n + Len(w) /\ Len(w) \in Nat
          /\ \A j \in 1..n : both[j] = a[j]
        OBVIOUS
    <2>3. both # <<>>
        <3> HIDE DEF both, n
        <3> QED
            BY <2>1, <2>2, EmptySeq
    <2> QED
        BY <2>1, <2>2, <2>3
<1>2. /\ s \in 1..n+1
      /\ \A j \in 1..s-1 : a[j] \notin Ends
      /\ s <= n => a[s] \in Ends
    BY StopIs
<1>3. /\ e \in 1..n
      /\ e = IF s < n /\ a[s] = CR /\ a[s + 1] = LF THEN s + 1
             ELSE IF s <= n THEN s ELSE n
    BY LineEndIs
<1>4. /\ FirstLine(a, Ends) = [content |-> FirstLine(a, Ends).content,
                               whole   |-> FirstLine(a, Ends).whole]
      /\ FirstLine(a, Ends).content = SubSeq(a, 1, s - 1)
      /\ FirstLine(a, Ends).whole = SubSeq(a, 1, e)
    BY FirstLineIs
<1>5. /\ FirstLine(both, Ends) = [content |-> FirstLine(both, Ends).content,
                                  whole   |-> FirstLine(both, Ends).whole]
      /\ FirstLine(both, Ends).content = SubSeq(both, 1, Stop(both, Ends) - 1)
      /\ FirstLine(both, Ends).whole = SubSeq(both, 1, LineEnd(both, Ends))
    BY FirstLineIs
<1>6. LineEnd(both, Ends) = LET t == Stop(both, Ends)
                            IN  IF t < Len(both) /\ both[t] = CR /\ both[t + 1] = LF
                                THEN t + 1
                                ELSE IF t <= Len(both) THEN t ELSE Len(both)
    <2> HIDE DEF both
    <2> QED
        BY <1>1, LineEndIs
<1> HIDE DEF s, e
<1>7. s <= n
    <2>1. s = n + 1 => n \in 1..s-1
        BY <1>1
    <2> QED
        BY <1>1, <1>2, <2>1 DEF Ends
<1>8. Stop(both, Ends) = s
    <2>1. s \in 1..Len(both)+1 /\ \A j \in 1..s-1 : j \in 1..n
        BY <1>1, <1>2, <1>7
    <2>2. \A j \in 1..s-1 : both[j] \notin Ends
        BY <1>1, <1>2, <2>1
    <2>3. both[s] \in Ends
        BY <1>1, <1>2, <1>7
    <2> HIDE DEF both, n
    <2> QED
        BY <1>1, <2>1, <2>2, <2>3, StopUnique
<1>9. LineEnd(both, Ends) = e
    <2> HIDE DEF both, n
    <2>1. s \in 1..n /\ s < Len(both) + 1 /\ both[s] = a[s]
        BY <1>1, <1>2, <1>7
    <2>2. CASE s < n
        <3>1. s + 1 \in 1..n /\ s < Len(both)
            BY <1>1, <2>1, <2>2
        <3>2. both[s + 1] = a[s + 1]
            BY <1>1, <3>1
        <3> QED
            BY <1>1, <1>3, <1>6, <1>8, <2>1, <2>2, <3>1, <3>2
    <2>3. CASE s = n
        <3>1. a[s] # CR
            BY <1>1, <2>3, LineEndsDiffer
        <3> QED
            BY <1>1, <1>3, <1>6, <1>8, <2>1, <2>3, <3>1
    <2> QED
        BY <1>1, <1>2, <2>1, <2>2, <2>3
<1>10. ASSUME NEW k \in 0..n PROVE SubSeq(both, 1, k) = SubSeq(a, 1, k)
    <2>1. /\ SubSeq(both, 1, k) \in Seq(S) /\ Len(SubSeq(both, 1, k)) = k
          /\ \A j \in 1..k : SubSeq(both, 1, k)[j] = both[j]
        <3> HIDE DEF both
        <3> QED
            BY <1>1
    <2>2. /\ SubSeq(a, 1, k) \in Seq(S) /\ Len(SubSeq(a, 1, k)) = k
          /\ \A j \in 1..k : SubSeq(a, 1, k)[j] = a[j]
        BY <1>1
    <2>3. \A j \in 1..k : j \in 1..n
        BY <1>1
    <2> HIDE DEF both, n
    <2> QED
        BY <1>1, <2>1, <2>2, <2>3, SeqEqual
<1>11. SubSeq(both, 1, e) = SubSeq(a, 1, e) /\ SubSeq(both, 1, s - 1) = SubSeq(a, 1, s - 1)
    <2>1. e \in 0..n /\ s - 1 \in 0..n
        BY <1>1, <1>2, <1>3, <1>7
    <2> QED
        BY <1>10, <2>1
<1>12. FirstLine(both, Ends) = FirstLine(a, Ends)
    <2> HIDE DEF both
    <2> QED
        BY <1>4, <1>5, <1>8, <1>9, <1>11
<1>13. Len(FirstLine(a, Ends).whole) = e
    BY <1>3, LineParts DEF e
<1>14. SubSeq(both, e + 1, Len(both)) = SubSeq(a, e + 1, n) \o w
    <2>1. e \in 1..Len(a)
        BY <1>3
    <2> QED
        BY <2>1, TailOfConcat
<1>15. AfterLine(both, Ends) = AfterLine(a, Ends) \o w
    <2> HIDE DEF both
    <2> QED
        BY <1>12, <1>13, <1>14 DEF AfterLine
<1> QED
    BY <1>12, <1>15

LEMMA LinesType ==
    ASSUME NEW S, NEW text \in Seq(S), NEW breaks
    PROVE  Lines(text, breaks) \in Seq(LineRecords(S))
<1> DEFINE R == LineRecords(S)
           T == {n \in Nat : \A t \in Seq(S) : Len(t) < n => Lines(t, breaks) \in Seq(R)}
<1>1. 0 \in T
    OBVIOUS
<1>2. ASSUME NEW n \in Nat, n \in T
      PROVE  n + 1 \in T
    <2>1. ASSUME NEW t \in Seq(S), Len(t) < n + 1
          PROVE  Lines(t, breaks) \in Seq(R)
        <3>1. CASE t = <<>>
            BY <3>1, LinesNone, EmptySeq
        <3>2. CASE t # <<>>
            <4> DEFINE line == FirstLine(t, breaks)
                       after == AfterLine(t, breaks)
            <4>1. /\ Lines(t, breaks) = <<line>> \o Lines(after, breaks)
                  /\ line \in R /\ after \in Seq(S) /\ Len(after) < Len(t)
                BY <3>2, LinesCons, LineParts
            <4> HIDE DEF line, after
            <4>2. Len(after) < n
                BY <2>1, <4>1
            <4>3. Lines(after, breaks) \in Seq(R)
                BY <1>2, <4>1, <4>2
            <4> HIDE DEF R
            <4> QED
                BY <4>1, <4>3, ConsProperties
        <3> QED
            BY <3>1, <3>2
    <2> HIDE DEF R
    <2> QED
        BY <2>1
<1>3. Len(text) + 1 \in T
    <2>1. Len(text) + 1 \in Nat
        OBVIOUS
    <2> HIDE DEF T
    <2> QED
        BY <1>1, <1>2, <2>1, NatSetInduction
<1>4. Len(text) < Len(text) + 1
    OBVIOUS
<1> QED
    BY <1>3, <1>4

LEMMA LinesSnoc ==
    ASSUME NEW S, NEW text \in Seq(S), Complete(text), NEW line, IsLine(S, line)
    PROVE  Lines(text \o line.whole, Ends) = Lines(text, Ends) \o <<line>>
<1> DEFINE w == line.whole
           T == {n \in Nat : \A a \in Seq(S) : Len(a) < n /\ Complete(a)
                    => Lines(a \o w, Ends) = Lines(a, Ends) \o <<line>>}
<1>0. w \in Seq(S) /\ w # <<>> /\ line \in LineRecords(S)
    BY DEF IsLine, LineRecords
<1>00. Lines(w, Ends) = <<line>>
    BY LinesOfLine
<1> HIDE DEF w
<1>1. 0 \in T
    OBVIOUS
<1>2. ASSUME NEW n \in Nat, n \in T
      PROVE  n + 1 \in T
    <2>1. ASSUME NEW a \in Seq(S), Len(a) < n + 1, Complete(a)
          PROVE  Lines(a \o w, Ends) = Lines(a, Ends) \o <<line>>
        <3>1. CASE a = <<>>
            <4>1. a \o w = w
                BY <1>0, <3>1, ConcatEmptySeq
            <4>2. Lines(a, Ends) = <<>>
                BY <3>1, LinesNone
            <4>3. <<line>> \in Seq({line})
                OBVIOUS
            <4> QED
                BY <1>00, <4>1, <4>2, <4>3, ConcatEmptySeq
        <3>2. CASE a # <<>>
            <4> DEFINE l == FirstLine(a, Ends)
                       after == AfterLine(a, Ends)
                       both == a \o w
            <4>1. /\ l \in LineRecords(S) /\ l.whole \in Seq(S) /\ after \in Seq(S)
                  /\ Len(after) < Len(a) /\ l.whole \o after = a
                BY <3>2, LineParts DEF LineRecords
            <4>2. FirstLine(both, Ends) = l /\ AfterLine(both, Ends) = after \o w
                BY <1>0, <2>1, <3>2, FirstLineOfConcat
            <4>3. both \in Seq(S) /\ both # <<>>
                <5>1. both \in Seq(S) /\ Len(both) = Len(a) + Len(w) /\ Len(a) \in Nat
                      /\ Len(w) \in Nat
                    BY <1>0, ConcatProperties
                <5> HIDE DEF both
                <5>2. Len(w) # 0
                    BY <1>0, EmptySeq
                <5>3. Len(both) # 0
                    BY <5>1, <5>2
                <5> QED
                    BY <5>1, <5>3, EmptySeq
            <4>4. Lines(a, Ends) = <<l>> \o Lines(after, Ends)
                BY <3>2, LinesCons
            <4> HIDE DEF l, after
            <4>5. Lines(both, Ends) = <<l>> \o Lines(after \o w, Ends)
                <5> HIDE DEF both
                <5> QED
                    BY <4>2, <4>3, LinesCons
            <4>6. Complete(after)
                BY <2>1, <4>1, TailEnds
            <4>7. Lines(after \o w, Ends) = Lines(after, Ends) \o <<line>>
                <5>1. Len(after) < n
                    BY <2>1, <4>1
                <5> QED
                    BY <1>2, <4>1, <4>6, <5>1
            <4>8. <<l>> \o (Lines(after, Ends) \o <<line>>) = (<<l>> \o Lines(after, Ends)) \o <<line>>
                <5> DEFINE R == LineRecords(S)
                           x == <<l>>
                           y == Lines(after, Ends)
                           z == <<line>>
                <5>1. x \in Seq(R) /\ y \in Seq(R) /\ z \in Seq(R)
                    BY <1>0, <4>1, LinesType
                <5> HIDE DEF R, x, y, z
                <5>2. x \o (y \o z) = (x \o y) \o z
                    BY ONLY <5>1, ConcatAssociative, SMTT(60)
                <5> QED
                    BY <5>2 DEF x, y, z
            <4> QED
                BY <4>4, <4>5, <4>7, <4>8
        <3> QED
            BY <3>1, <3>2
    <2> QED
        BY <2>1
<1>3. Len(text) + 1 \in T
    <2>1. Len(text) + 1 \in Nat
        OBVIOUS
    <2> HIDE DEF T
    <2> QED
        BY <1>1, <1>2, <2>1, NatSetInduction
<1>4. Len(text) < Len(text) + 1
    OBVIOUS
<1> QED
    BY <1>3, <1>4 DEF w

-----------------------------------------------------------------------------

(* The client, line by line.                                               *)
Silent == [events |-> <<>>, others |-> <<>>, data |-> <<>>]

ClientAfter(lines) ==
    CHOOSE f : f = [k \in 0..Len(lines) |->
                       IF k = 0 THEN [events |-> <<>>, others |-> <<>>, data |-> <<>>]
                       ELSE Heard(f[k-1], lines[k])]

LEMMA ClientEquation ==
    ASSUME NEW S, NEW lines \in Seq(S)
    PROVE  ClientAfter(lines) =
               [k \in 0..Len(lines) |->
                   IF k = 0 THEN Silent ELSE Heard(ClientAfter(lines)[k-1], lines[k])]
<1> DEFINE n == Len(lines)
           Step(f, k) == IF k = 0 THEN Silent ELSE Heard(f[k-1], lines[k])
           Defined(m) == \E f : f = [k \in 0..m |-> Step(f, k)]
           T == {m \in Nat : Defined(m)}
<1>1. 0 \in T
    <2> DEFINE g == [k \in 0..0 |-> Silent]
    <2>1. g = [k \in 0..0 |-> Step(g, k)]
        <3> HIDE DEF Silent
        <3>1. \A k \in 0..0 : k = 0
            OBVIOUS
        <3>2. \A k \in 0..0 : Step(g, k) = Silent
            BY <3>1
        <3> HIDE DEF Step
        <3> QED
            BY <3>2
    <2> HIDE DEF g, Step
    <2>2. Defined(0)
        BY <2>1
    <2> QED
        BY <2>2
<1>2. ASSUME NEW m \in Nat, m \in T
      PROVE  m + 1 \in T
    <2>1. PICK f : f = [k \in 0..m |-> Step(f, k)]
        BY <1>2
    <2> DEFINE g == [k \in 0..m+1 |-> IF k \in 0..m THEN f[k] ELSE Step(f, k)]
    <2>2. \A k \in 0..m+1 : g[k] = IF k \in 0..m THEN f[k] ELSE Step(f, k)
        <3> HIDE DEF Step
        <3> QED
            OBVIOUS
    <2>3. g = [k \in 0..m+1 |-> g[k]]
        <3> HIDE DEF Step
        <3> QED
            OBVIOUS
    <2> HIDE DEF g
    <2>4. ASSUME NEW k \in 0..m+1 PROVE g[k] = Step(g, k)
        <3>1. g[k] = Step(f, k)
            <4> HIDE DEF Step
            <4>1. k \in 0..m => f[k] = Step(f, k)
                BY <2>1
            <4> QED
                BY <2>2, <4>1
        <3>2. k # 0 => g[k-1] = f[k-1]
            <4>1. k # 0 => k - 1 \in 0..m /\ k - 1 \in 0..m+1
                OBVIOUS
            <4> HIDE DEF Step
            <4> QED
                BY <2>2, <4>1
        <3> QED
            BY <3>1, <3>2, Zenon
    <2>5. g = [k \in 0..m+1 |-> Step(g, k)]
        <3> HIDE DEF Step
        <3> QED
            BY <2>3, <2>4
    <2> HIDE DEF Step
    <2>6. Defined(m + 1)
        BY <2>5
    <2> QED
        BY <2>6
<1>3. n \in T
    <2> HIDE DEF T
    <2> QED
        BY <1>1, <1>2, NatSetInduction, LenProperties
<1>4. \E f : f = [k \in 0..n |-> Step(f, k)]
    BY <1>3
<1> QED
    BY <1>4 DEF ClientAfter, Silent

LEMMA ClientAt ==
    ASSUME NEW S, NEW lines \in Seq(S)
    PROVE  /\ ClientAfter(lines)[0] = Silent
           /\ \A k \in 1..Len(lines) :
                  ClientAfter(lines)[k] = Heard(ClientAfter(lines)[k-1], lines[k])
<1> DEFINE f == ClientAfter(lines)
           n == Len(lines)
<1>1. f = [k \in 0..n |-> IF k = 0 THEN Silent ELSE Heard(f[k-1], lines[k])]
    BY ClientEquation
<1>2. n \in Nat
    OBVIOUS
<1> HIDE DEF f, n
<1>3. f[0] = Silent
    BY <1>1, <1>2
<1>4. ASSUME NEW k \in 1..n PROVE f[k] = Heard(f[k-1], lines[k])
    <2>1. k \in 0..n /\ k # 0
        BY <1>2
    <2> QED
        BY <1>1, <2>1
<1> QED
    BY <1>3, <1>4 DEF f, n

LEMMA ClientIs ==
    ASSUME NEW bytes
    PROVE  Client(bytes) = ClientAfter(Lines(bytes, Ends))[Len(Lines(bytes, Ends))]
BY DEF Client, ClientAfter, Ends

LEMMA ClientNone == Client(<<>>) = Silent
<1>1. Lines(<<>>, Ends) = <<>>
    BY LinesNone
<1>2. <<>> \in Seq({0}) /\ Len(<<>>) = 0
    BY EmptySeq
<1>3. ClientAfter(<<>>)[0] = Silent
    BY <1>2, ClientAt
<1> QED
    BY <1>1, <1>2, <1>3, ClientIs

(* What has been read before does not depend on what comes next.           *)
LEMMA ClientSnoc ==
    ASSUME NEW S, NEW text \in Seq(S), Complete(text), NEW line, IsLine(S, line)
    PROVE  Client(text \o line.whole) = Heard(Client(text), line)
<1> DEFINE R == LineRecords(S)
           ls == Lines(text, Ends)
           n == Len(ls)
           all == ls \o <<line>>
           T == {k \in Nat : k <= n => ClientAfter(all)[k] = ClientAfter(ls)[k]}
<1>1. Lines(text \o line.whole, Ends) = all
    BY LinesSnoc
<1>2. ls \in Seq(R) /\ line \in R
    BY LinesType DEF IsLine
<1> HIDE DEF R, ls
<1>3. /\ all \in Seq(R) /\ n \in Nat /\ Len(all) = n + 1 /\ all[n+1] = line
      /\ \A k \in 1..n : all[k] = ls[k]
    BY <1>2
<1>4. /\ ClientAfter(ls)[0] = Silent
      /\ \A k \in 1..n : ClientAfter(ls)[k] = Heard(ClientAfter(ls)[k-1], ls[k])
    BY <1>2, ClientAt
<1>5. /\ ClientAfter(all)[0] = Silent
      /\ \A k \in 1..n+1 : ClientAfter(all)[k] = Heard(ClientAfter(all)[k-1], all[k])
    BY <1>3, ClientAt
<1>6. Client(text) = ClientAfter(ls)[n]
    BY ClientIs DEF ls
<1>7. Client(text \o line.whole) = ClientAfter(all)[n+1]
    BY <1>1, <1>3, ClientIs
<1> HIDE DEF all, n
<1>8. 0 \in T
    BY <1>4, <1>5
<1>9. ASSUME NEW k \in Nat, k \in T
      PROVE  k + 1 \in T
    <2>1. SUFFICES ASSUME k + 1 <= n PROVE ClientAfter(all)[k+1] = ClientAfter(ls)[k+1]
        OBVIOUS
    <2>2. k + 1 \in 1..n /\ k + 1 \in 1..n+1 /\ (k + 1) - 1 = k /\ k <= n
        BY <1>3, <2>1
    <2>3. ClientAfter(all)[k] = ClientAfter(ls)[k] /\ all[k+1] = ls[k+1]
        BY <1>3, <1>9, <2>2
    <2>4. ClientAfter(all)[k+1] = Heard(ClientAfter(all)[k], all[k+1])
        BY <1>5, <2>2
    <2>5. ClientAfter(ls)[k+1] = Heard(ClientAfter(ls)[k], ls[k+1])
        BY <1>4, <2>2
    <2> QED
        BY <2>3, <2>4, <2>5
<1>10. n \in T
    <2> HIDE DEF T
    <2> QED
        BY <1>3, <1>8, <1>9, NatSetInduction
<1>11. n + 1 \in 1..n+1 /\ (n + 1) - 1 = n
    BY <1>3
<1>12. ClientAfter(all)[n+1] = Heard(ClientAfter(all)[n], line)
    BY <1>3, <1>5, <1>11
<1>13. ClientAfter(all)[n] = ClientAfter(ls)[n]
    BY <1>3, <1>10
<1> QED
    BY <1>6, <1>7, <1>12, <1>13

(* What a client holds.                                                    *)
EventRecords(S) == [others : Seq(LineRecords(S)), data : Seq(Seq(S))]

Clients(S) ==
    [events : Seq(EventRecords(S)), others : Seq(LineRecords(S)), data : Seq(Seq(S))]

LEMMA HeardCases ==
    ASSUME NEW S, NEW client \in Clients(S), NEW line \in LineRecords(S)
    PROVE  /\ IsData(line) =>
                  Heard(client, line) = [events |-> client.events,
                                         others |-> client.others,
                                         data   |-> Append(client.data, line.content)]
           /\ line.content # <<>> /\ ~IsData(line) =>
                  Heard(client, line) = [events |-> client.events,
                                         others |-> Append(client.others, line),
                                         data   |-> client.data]
           /\ line.content = <<>> /\ client.others = <<>> /\ client.data = <<>> =>
                  Heard(client, line) = client
           /\ line.content = <<>> /\ ~(client.others = <<>> /\ client.data = <<>>) =>
                  Heard(client, line) =
                      [events |-> Append(client.events, [others |-> client.others,
                                                         data   |-> client.data]),
                       others |-> <<>>, data |-> <<>>]
<1>1. PICK ev, ot, da : client = [events |-> ev, others |-> ot, data |-> da]
    BY DEF Clients
<1>2. client.events = ev /\ client.others = ot /\ client.data = da
    BY <1>1
<1>3. line.content # <<>> \/ ~IsData(line)
    BY DEF IsData
<1>4. ASSUME IsData(line)
      PROVE  Heard(client, line) = [events |-> ev, others |-> ot, data |-> Append(da, line.content)]
    BY <1>1, <1>2, <1>3, <1>4 DEF Heard
<1>5. ASSUME line.content # <<>>, ~IsData(line)
      PROVE  Heard(client, line) = [events |-> ev, others |-> Append(ot, line), data |-> da]
    BY <1>1, <1>2, <1>5 DEF Heard
<1>6. ASSUME line.content = <<>>, ot = <<>>, da = <<>>
      PROVE  Heard(client, line) = client
    BY <1>2, <1>3, <1>6 DEF Heard
<1>7. ASSUME line.content = <<>>, ~(ot = <<>> /\ da = <<>>)
      PROVE  Heard(client, line) = [events |-> Append(ev, [others |-> ot, data |-> da]),
                                    others |-> <<>>, data |-> <<>>]
    BY <1>2, <1>3, <1>7 DEF Heard
<1> QED
    BY <1>2, <1>4, <1>5, <1>6, <1>7

LEMMA ClientType ==
    ASSUME NEW S, NEW text \in Seq(S)
    PROVE  Client(text) \in Clients(S)
<1> DEFINE R == LineRecords(S)
           ls == Lines(text, Ends)
           n == Len(ls)
           T == {k \in Nat : k <= n => ClientAfter(ls)[k] \in Clients(S)}
<1>1. ls \in Seq(R) /\ n \in Nat /\ \A k \in 1..n : ls[k] \in R
    <2>1. ls \in Seq(R)
        BY LinesType
    <2> HIDE DEF R, ls
    <2> QED
        BY <2>1
<1>2. /\ ClientAfter(ls)[0] = Silent
      /\ \A k \in 1..n : ClientAfter(ls)[k] = Heard(ClientAfter(ls)[k-1], ls[k])
    <2> HIDE DEF R, ls
    <2> QED
        BY <1>1, ClientAt
<1>3. Silent \in Clients(S)
    BY EmptySeq DEF Silent, Clients
<1>4. ASSUME NEW c \in Clients(S), NEW line \in R
      PROVE  Heard(c, line) \in Clients(S)
    <2>1. /\ c.events \in Seq(EventRecords(S)) /\ c.others \in Seq(R) /\ c.data \in Seq(Seq(S))
          /\ line.content \in Seq(S)
        BY DEF Clients, LineRecords
    <2>2. CASE IsData(line)
        <3>1. Append(c.data, line.content) \in Seq(Seq(S))
            <4> DEFINE Q == Seq(S)
            <4>1. c.data \in Seq(Q) /\ line.content \in Q
                BY <2>1
            <4> HIDE DEF Q
            <4>2. Append(c.data, line.content) \in Seq(Q)
                BY <4>1, AppendProperties
            <4> QED
                BY <4>2 DEF Q
        <3> DEFINE d == Append(c.data, line.content)
        <3>2. Heard(c, line) = [events |-> c.events, others |-> c.others, data |-> d]
            BY <2>2, HeardCases
        <3> HIDE DEF d
        <3>3. d \in Seq(Seq(S))
            BY <3>1 DEF d
        <3> QED
            BY <2>1, <3>2, <3>3 DEF Clients
    <2>3. CASE line.content # <<>> /\ ~IsData(line)
        <3> DEFINE o == Append(c.others, line)
        <3>1. o \in Seq(R)
            <4> HIDE DEF R
            <4> QED
                BY <2>1, AppendProperties
        <3>2. Heard(c, line) = [events |-> c.events, others |-> o, data |-> c.data]
            BY <2>3, HeardCases
        <3> HIDE DEF o
        <3> QED
            BY <2>1, <3>1, <3>2 DEF Clients
    <2>4. CASE line.content = <<>> /\ ~(c.others = <<>> /\ c.data = <<>>)
        <3> DEFINE ev == [others |-> c.others, data |-> c.data]
                   e == Append(c.events, ev)
        <3>1. ev \in EventRecords(S)
            BY <2>1 DEF EventRecords
        <3>2. e \in Seq(EventRecords(S))
            <4> HIDE DEF ev
            <4> QED
                BY <2>1, <3>1, AppendProperties
        <3>3. Heard(c, line) = [events |-> e, others |-> <<>>, data |-> <<>>]
            BY <2>4, HeardCases
        <3>4. <<>> \in Seq(R) /\ <<>> \in Seq(Seq(S))
            BY EmptySeq
        <3> HIDE DEF e
        <3> QED
            BY <3>2, <3>3, <3>4 DEF Clients
    <2>5. CASE line.content = <<>> /\ c.others = <<>> /\ c.data = <<>>
        BY <2>5, HeardCases
    <2> QED
        BY <2>2, <2>3, <2>4, <2>5
<1>5. Client(text) = ClientAfter(ls)[n]
    BY ClientIs
<1> HIDE DEF R, ls, n
<1>6. 0 \in T
    BY <1>2, <1>3
<1>7. ASSUME NEW k \in Nat, k \in T
      PROVE  k + 1 \in T
    <2>1. SUFFICES ASSUME k + 1 <= n PROVE ClientAfter(ls)[k+1] \in Clients(S)
        OBVIOUS
    <2>2. k + 1 \in 1..n /\ (k + 1) - 1 = k /\ k <= n
        BY <1>1, <2>1
    <2>3. ClientAfter(ls)[k+1] = Heard(ClientAfter(ls)[k], ls[k+1]) /\ ls[k+1] \in R
        BY <1>1, <1>2, <2>2
    <2>4. ClientAfter(ls)[k] \in Clients(S)
        BY <1>7, <2>2
    <2> QED
        BY <1>4, <2>3, <2>4
<1>8. n \in T
    <2> HIDE DEF T
    <2> QED
        BY <1>1, <1>6, <1>7, NatSetInduction
<1> QED
    BY <1>1, <1>5, <1>8

-----------------------------------------------------------------------------

(* A text whose splits all end where it ends: a frame, or what is held.    *)
Quiet(text) ==
    \A i \in 1..Len(text) : \A e \in i+1..Len(text) :
        IsSplit(text, i, e) => e = Len(text)

LEMMA SplitMakesFrame ==
    ASSUME NEW S, NEW text \in Seq(S), NEW i \in 1..Len(text), NEW e \in i+1..Len(text),
           IsSplit(text, i, e)
    PROVE  FrameEnd(text) # 0
<1>1. i \in Splits(text)
    BY SplitsAre
<1>2. Splits(text) \subseteq Nat
    BY DEF Splits
<1>3. Min(Splits(text)) \in Splits(text)
    BY <1>1, <1>2, MinProperties
<1> DEFINE m == Min(Splits(text))
<1>4. m \in 1..Len(text) /\ SplitEnds(text, m) # {}
    BY <1>3 DEF Splits
<1>5. FrameEnd(text) = Max(SplitEnds(text, m))
    BY <1>1 DEF FrameEnd
<1>6. SplitEnds(text, m) \subseteq m+1..Len(text)
    BY DEF SplitEnds
<1> HIDE DEF m
<1>7. SplitEnds(text, m) \subseteq 0..Len(text) /\ Len(text) \in Nat
    BY <1>4, <1>6
<1>8. Max(SplitEnds(text, m)) \in SplitEnds(text, m)
    BY <1>4, <1>7, MaxProperties
<1> QED
    BY <1>4, <1>5, <1>6, <1>8

LEMMA FrameIsQuiet ==
    ASSUME NEW S, NEW text \in Seq(S), FrameEnd(text) \in {0, Len(text)}
    PROVE  Quiet(text)
<1> SUFFICES ASSUME NEW i \in 1..Len(text), NEW e \in i+1..Len(text), IsSplit(text, i, e)
             PROVE  e = Len(text)
    BY DEF Quiet
<1>3. FrameEnd(text) # 0
    BY SplitMakesFrame
<1>4. PICK j : FirstSplit(text, j, Len(text))
    BY <1>3, FrameEndHasSplit
<1>5. j \in 1..Len(text) /\ IsSplit(text, j, Len(text)) /\ Len(text) \in Nat
    BY <1>4 DEF FirstSplit
<1>6. ~(i < j)
    <2>1. i < j => i \in 1..j-1
        BY <1>5
    <2> QED
        BY <1>4, <2>1 DEF FirstSplit
<1> QED
    BY <1>5, <1>6, LineEndsDiffer DEF IsSplit

LEMMA SplitInTail ==
    ASSUME NEW S, NEW first \in Seq(S), NEW after \in Seq(S),
           NEW i \in 1..Len(after), NEW e \in i+1..Len(after), IsSplit(after, i, e)
    PROVE  IsSplit(first \o after, Len(first) + i, Len(first) + e)
<1> DEFINE both == first \o after
           n == Len(first)
           m == Len(after)
<1>1. /\ n \in Nat /\ m \in Nat /\ both \in Seq(S) /\ Len(both) = n + m
      /\ \A k \in 1..n+m : both[k] = IF k <= n THEN first[k] ELSE after[k-n]
    BY ConcatProperties
<1>2. ASSUME NEW k \in 1..m PROVE both[n + k] = after[k]
    <2>1. n + k \in 1..n+m /\ ~(n + k <= n) /\ (n + k) - n = k
        BY <1>1
    <2> HIDE DEF both, n, m
    <2> QED
        BY <1>1, <2>1
<1> HIDE DEF both, n, m
<1>3. i \in 1..m /\ e \in i+1..m
    BY DEF m
<1>4. ASSUME NEW d \in 0..e-i PROVE both[(n + i) + d] = after[i + d]
    <2>1. i + d \in 1..m /\ (n + i) + d = n + (i + d)
        BY <1>1, <1>3
    <2> QED
        BY <1>2, <2>1
<1>5. both[n + i] = after[i]
    BY <1>2, <1>3
<1>6. CASE e = i + 1
    <2>1. both[(n + i) + 1] = after[i + 1] /\ n + e = (n + i) + 1
        <3>1. 1 \in 0..e-i /\ n + e = (n + i) + 1
            BY <1>1, <1>3, <1>6
        <3> QED
            BY <1>4, <3>1
    <2>2. after[i] = LF /\ after[i+1] = LF
        BY <1>3, <1>6 DEF IsSplit
    <2>3. both[n + i] = LF /\ both[(n + i) + 1] = LF
        BY <1>5, <2>1, <2>2
    <2> QED
        BY <2>1, <2>3 DEF IsSplit, both, n
<1>7. CASE e = i + 2
    <2>1. /\ both[(n + i) + 1] = after[i + 1] /\ both[(n + i) + 2] = after[i + 2]
          /\ n + e = (n + i) + 2
        <3>1. 1 \in 0..e-i /\ 2 \in 0..e-i /\ n + e = (n + i) + 2
            BY <1>1, <1>3, <1>7
        <3> QED
            BY <1>4, <3>1
    <2>2. \/ after[i] = CR /\ after[i+1] = LF /\ after[i+2] = LF
          \/ after[i] = LF /\ after[i+1] = CR /\ after[i+2] = LF
        BY <1>3, <1>7 DEF IsSplit
    <2> QED
        BY <1>5, <2>1, <2>2 DEF IsSplit, both, n
<1>8. CASE e = i + 3
    <2>1. /\ both[(n + i) + 1] = after[i + 1] /\ both[(n + i) + 2] = after[i + 2]
          /\ both[(n + i) + 3] = after[i + 3] /\ n + e = (n + i) + 3
        <3>1. 1 \in 0..e-i /\ 2 \in 0..e-i /\ 3 \in 0..e-i /\ n + e = (n + i) + 3
            BY <1>1, <1>3, <1>8
        <3> QED
            BY <1>4, <3>1
    <2>2. after[i] = CR /\ after[i+1] = LF /\ after[i+2] = CR /\ after[i+3] = LF
        BY <1>3, <1>8 DEF IsSplit
    <2> QED
        BY <1>5, <2>1, <2>2 DEF IsSplit, both, n
<1> QED
    BY <1>6, <1>7, <1>8 DEF IsSplit

(* The lines of a quiet text after the first are not blank, but for the    *)
(* last one when it makes the text a frame.                                *)
OnlyLastBlank(text, lines) ==
    \A k \in 2..Len(lines) :
        lines[k].content = <<>> =>
            /\ k = Len(lines)
            /\ \E i \in 1..Len(text) : \E e \in i+1..Len(text) : IsSplit(text, i, e)

LEMMA QuietLines ==
    ASSUME NEW S, NEW text \in Seq(S), NEW breaks,
           WellEnded(text), Plain(text, breaks), Quiet(text)
    PROVE  OnlyLastBlank(text, Lines(text, breaks))
<1> DEFINE Ok(t) == WellEnded(t) /\ Plain(t, breaks) /\ Quiet(t)
           T == {n \in Nat : \A t \in Seq(S) :
                    Len(t) < n /\ Ok(t) => OnlyLastBlank(t, Lines(t, breaks))}
<1>1. 0 \in T
    OBVIOUS
<1>2. ASSUME NEW n \in Nat, n \in T
      PROVE  n + 1 \in T
    <2>1. ASSUME NEW t \in Seq(S), Len(t) < n + 1, Ok(t)
          PROVE  OnlyLastBlank(t, Lines(t, breaks))
        <3>1. CASE t = <<>>
            <4>1. Lines(t, breaks) = <<>> /\ Len(<<>>) = 0 /\ 2..0 = {}
                BY <3>1, LinesNone, EmptySeq
            <4> QED
                BY <4>1 DEF OnlyLastBlank
        <3>2. CASE t # <<>>
            <4> DEFINE line == FirstLine(t, breaks)
                       w == line.whole
                       after == AfterLine(t, breaks)
                       ls == Lines(after, breaks)
                       all == <<line>> \o ls
                       m == Len(w)
            <4>1. /\ Lines(t, breaks) = all
                  /\ line \in LineRecords(S) /\ after \in Seq(S) /\ Len(after) < Len(t)
                  /\ w \o after = t
                BY <3>2, LinesCons, LineParts
            <4>2. IsLine(S, line) /\ (after # <<>> => Complete(w))
                BY <2>1, <3>2, FirstLineEnds
            <4>3. w \in Seq(S) /\ w # <<>>
                BY <4>2 DEF IsLine, LineRecords
            <4>4. ls \in Seq(LineRecords(S))
                BY <4>1, LinesType
            <4>5. after = <<>> => ls = <<>>
                BY LinesNone
            <4>6. after # <<>> => ls = <<FirstLine(after, breaks)>> \o Lines(AfterLine(after, breaks), breaks)
                BY <4>1, LinesCons
            <4> HIDE DEF line, after, ls
            <4>7. WellEnded(after) /\ Plain(after, breaks)
                <5> HIDE DEF w
                <5> QED
                    BY <2>1, <4>1, <4>3, TailEnds
            <4>8. /\ m \in Nat /\ m # 0 /\ Len(t) = m + Len(after) /\ Len(after) \in Nat
                  /\ \A k \in 1..m+Len(after) : t[k] = IF k <= m THEN w[k] ELSE after[k - m]
                <5> HIDE DEF w
                <5> QED
                    BY <4>1, <4>3, ConcatProperties, EmptySeq
            <4> HIDE DEF w, m
            <4>9. ASSUME NEW i \in 1..Len(after), NEW e \in i+1..Len(after), IsSplit(after, i, e)
                  PROVE  /\ m + i \in 1..Len(t) /\ m + e \in (m + i)+1..Len(t)
                         /\ IsSplit(t, m + i, m + e)
                <5>1. m + i \in 1..Len(t) /\ m + e \in (m + i)+1..Len(t)
                    BY <4>8
                <5>2. IsSplit(w \o after, m + i, m + e)
                    BY <4>1, <4>3, <4>9, SplitInTail DEF m
                <5> QED
                    BY <4>1, <5>1, <5>2
            <4>10. Quiet(after)
                <5> SUFFICES ASSUME NEW i \in 1..Len(after), NEW e \in i+1..Len(after),
                                    IsSplit(after, i, e)
                             PROVE  e = Len(after)
                    BY DEF Quiet
                <5>1. m + e = Len(t)
                    BY <2>1, <4>9 DEF Quiet
                <5> QED
                    BY <4>8, <5>1
            <4>11. OnlyLastBlank(after, ls)
                <5>1. Len(after) < n
                    BY <2>1, <4>1
                <5> QED
                    BY <1>2, <4>1, <4>7, <4>10, <5>1 DEF ls
            <4>12. /\ all \in Seq(LineRecords(S)) /\ Len(all) = Len(ls) + 1 /\ Len(ls) \in Nat
                   /\ \A k \in 1..Len(ls) : all[k+1] = ls[k]
                BY <4>1, <4>4, ConsProperties
            <4>13. ASSUME ls # <<>>, ls[1].content = <<>>
                   PROVE  \E e \in m+1..Len(t) :
                              /\ IsSplit(t, m, e)
                              /\ e = Len(t) => Len(ls) = 1
                <5>1. after # <<>>
                    BY <4>5, <4>13
                <5> DEFINE l == FirstLine(after, breaks)
                           v == l.whole
                           rest == AfterLine(after, breaks)
                <5>2. /\ IsLine(S, l) /\ rest \in Seq(S) /\ v \o rest = after
                      /\ v \in Seq(S) /\ Lines(rest, breaks) \in Seq(LineRecords(S))
                    BY <4>1, <4>7, <5>1, FirstLineEnds, LineParts, LinesType DEF LineRecords
                <5>3. /\ rest = <<>> => Lines(rest, breaks) = <<>>
                      /\ ls = <<l>> \o Lines(rest, breaks)
                    BY <4>6, <5>1, LinesNone
                <5> HIDE DEF l, rest
                <5>4. l \in LineRecords(S)
                    BY <5>2 DEF IsLine
                <5>5. ls[1] = l /\ Len(ls) = Len(Lines(rest, breaks)) + 1
                    BY <5>2, <5>3, <5>4, ConsProperties
                <5>6. l.content = <<>>
                    BY <4>13, <5>5
                <5>7. v # <<>> /\ (Len(v) = 0 \/ (Len(v) = 1 /\ v[1] = LF)
                                   \/ (Len(v) = 2 /\ v[1] = CR /\ v[2] = LF))
                    <6>1. Len(l.content) = 0
                        BY <5>6, EmptySeq
                    <6>2. /\ v # <<>>
                          /\ \/ Len(v) = Len(l.content)
                             \/ Len(v) = Len(l.content) + 1 /\ v[Len(v)] = LF
                             \/ /\ Len(v) = Len(l.content) + 2
                                /\ v[Len(v) - 1] = CR /\ v[Len(v)] = LF
                        BY <5>2, Zenon DEF IsLine
                    <6> HIDE DEF v
                    <6> QED
                        BY <6>1, <6>2
                <5>8. /\ Len(after) = Len(v) + Len(rest) /\ Len(v) \in Nat /\ Len(rest) \in Nat
                      /\ \A k \in 1..Len(v) : after[k] = v[k]
                    <6> HIDE DEF v
                    <6>1. /\ Len(v \o rest) = Len(v) + Len(rest) /\ Len(v) \in Nat /\ Len(rest) \in Nat
                          /\ \A k \in 1..Len(v) : (v \o rest)[k] = v[k]
                        BY <5>2
                    <6> QED
                        BY <5>2, <6>1
                <5> HIDE DEF v
                <5>9. Len(v) # 0
                    BY <5>2, <5>7, EmptySeq
                <5>10. t[m] = LF
                    <6>1. w[m] = LF
                        BY <4>2, <4>3, <5>1 DEF Complete, m
                    <6>2. m \in 1..m+Len(after) /\ m <= m
                        BY <4>8
                    <6> QED
                        BY <4>8, <6>1, <6>2
                <5>11. \A k \in 1..Len(v) : t[m + k] = v[k]
                    <6>1. ASSUME NEW k \in 1..Len(v) PROVE t[m + k] = v[k]
                        <7>1. m + k \in 1..m+Len(after) /\ ~(m + k <= m) /\ (m + k) - m = k
                            BY <4>8, <5>8
                        <7> QED
                            BY <4>8, <5>8, <7>1
                    <6> QED
                        BY <6>1
                <5>12. m + Len(v) \in m+1..Len(t) /\ (m + Len(v) = Len(t) => Len(rest) = 0)
                    BY <4>8, <5>8, <5>9
                <5>13. IsSplit(t, m, m + Len(v))
                    <6>1. CASE Len(v) = 1 /\ v[1] = LF
                        <7>1. t[m + 1] = LF
                            BY <5>11, <6>1
                        <7> QED
                            BY <5>10, <6>1, <7>1 DEF IsSplit
                    <6>2. CASE Len(v) = 2 /\ v[1] = CR /\ v[2] = LF
                        <7>1. t[m + 1] = CR /\ t[m + 2] = LF
                            BY <5>11, <6>2
                        <7> QED
                            BY <5>10, <6>2, <7>1 DEF IsSplit
                    <6> QED
                        BY <5>7, <5>9, <6>1, <6>2 
                <5>14. Len(rest) = 0 => Len(ls) = 1
                    <6>1. Len(rest) = 0 => Len(Lines(rest, breaks)) = 0
                        BY <5>2, <5>3, EmptySeq
                    <6> QED
                        BY <5>5, <6>1
                <5> QED
                    BY <5>12, <5>13, <5>14
            <4>14. m \in 1..Len(t)
                BY <4>8
            <4> HIDE DEF all
            <4>15. ASSUME NEW k \in 2..Len(all), all[k].content = <<>>
                   PROVE  /\ k = Len(all)
                          /\ \E i \in 1..Len(t) : \E e \in i+1..Len(t) : IsSplit(t, i, e)
                <5>1. k - 1 \in 1..Len(ls) /\ (k - 1) + 1 = k /\ ls[k - 1].content = <<>>
                    <6>1. k - 1 \in 1..Len(ls) /\ (k - 1) + 1 = k
                        BY <4>12
                    <6> QED
                        BY <4>12, <4>15, <6>1
                <5>2. CASE k = 2
                    <6>1. ls # <<>> /\ ls[1].content = <<>>
                        BY <4>4, <5>1, <5>2, EmptySeq
                    <6>2. PICK e \in m+1..Len(t) : IsSplit(t, m, e) /\ (e = Len(t) => Len(ls) = 1)
                        BY <4>13, <6>1
                    <6>3. e = Len(t)
                        BY <2>1, <4>14, <6>2 DEF Quiet
                    <6>4. k = Len(all)
                        <7>1. Len(ls) = 1 /\ Len(all) = Len(ls) + 1
                            BY <4>12, <6>2, <6>3
                        <7> QED
                            BY <5>2, <7>1
                    <6> QED
                        BY <4>14, <6>2, <6>4
                <5>3. CASE k # 2
                    <6>1. k - 1 \in 2..Len(ls)
                        BY <5>1, <5>3
                    <6>2. /\ k - 1 = Len(ls)
                          /\ \E i \in 1..Len(after) : \E e \in i+1..Len(after) : IsSplit(after, i, e)
                        BY <4>11, <5>1, <6>1 DEF OnlyLastBlank
                    <6>3. k = Len(all)
                        BY <4>12, <5>1, <6>2
                    <6> QED
                        BY <4>9, <6>2, <6>3
                <5> QED
                    BY <5>2, <5>3
            <4> QED
                BY <4>1, <4>15 DEF OnlyLastBlank
        <3> QED
            BY <3>1, <3>2
    <2> HIDE DEF Ok
    <2> QED
        BY <2>1
<1>3. Len(text) + 1 \in T
    <2>1. Len(text) + 1 \in Nat
        OBVIOUS
    <2> HIDE DEF T
    <2> QED
        BY <1>1, <1>2, <2>1, NatSetInduction
<1>4. Len(text) < Len(text) + 1 /\ Ok(text)
    OBVIOUS
<1> HIDE DEF Ok
<1> QED
    BY <1>3, <1>4

-----------------------------------------------------------------------------

(* A frame of well ended lines, and the frames of such a stream.           *)
IsFrame(text) ==
    text # <<>> /\ FrameEnd(text) = Len(text) /\ WellEnded(text)

LEMMA FirstFrameIs ==
    ASSUME NEW S, NEW bytes \in Seq(S), FrameEnd(bytes) # 0, WellEnded(bytes)
    PROVE  IsFrame(FirstFrame(bytes)) /\ WellEnded(AfterFrame(bytes))
<1> DEFINE n == Len(bytes)
           e == FrameEnd(bytes)
           f == FirstFrame(bytes)
<1>1. PICK i : FirstSplit(bytes, i, e)
    BY FrameEndHasSplit
<1>2. /\ i \in 1..n /\ e \in i+1..n /\ n \in Nat /\ IsSplit(bytes, i, e)
      /\ \A j \in 1..i-1 : \A d \in j+1..n : ~IsSplit(bytes, j, d)
    BY <1>1 DEF FirstSplit
<1> HIDE DEF e, n
<1>3. f = SubSeq(bytes, 1, e)
    BY DEF FirstFrame, e
<1>4. f \in Seq(S) /\ Len(f) = e /\ \A k \in 1..e : f[k] = bytes[k]
    <2>1. 1 \in 1..Len(bytes) /\ e \in 1..Len(bytes)
        BY <1>2 DEF n
    <2>2. e - 1 + 1 = e /\ \A k \in 1..e : 1 + k - 1 = k
        BY <1>2
    <2> QED
        BY <1>3, <2>1, <2>2, SubSeqHolds
<1>5. bytes[e] = LF
    BY <1>2 DEF IsSplit
<1> HIDE DEF f
<1>6. f # <<>>
    BY <1>2, <1>4, EmptySeq
<1>7. FirstSplit(f, i, e)
    <2>1. i \in 1..Len(f) /\ e \in i+1..Len(f)
        BY <1>2, <1>4
    <2>2. IsSplit(f, i, e)
        BY <1>2, <1>4, <2>1, SplitSame
    <2>3. ASSUME NEW j \in 1..i-1, NEW d \in j+1..Len(f) PROVE ~IsSplit(f, j, d)
        <3>1. d \in j+1..n /\ j \in 1..Len(f) /\ j \in 1..n /\ d \in j+1..Len(f)
            BY <1>2, <1>4
        <3>2. IsSplit(f, j, d) => IsSplit(bytes, j, d)
            <4>1. e \in Nat /\ j \in 1..e /\ d \in j+1..e
                BY <1>2, <1>4, <3>1
            <4> QED
                BY <1>4, <4>1, SplitSame
        <3> QED
            BY <1>2, <3>1, <3>2
    <2> QED
        BY <2>1, <2>2, <2>3 DEF FirstSplit
<1>8. FrameEnd(f) = Len(f)
    BY <1>4, <1>7, FirstSplitEnds
<1>9. WellEnded(f)
    <2> SUFFICES ASSUME NEW k \in 1..Len(f), f[k] = CR
                 PROVE  k < Len(f) /\ f[k + 1] = LF
        BY DEF WellEnded
    <2>1. bytes[k] = CR /\ k \in 1..n
        BY <1>2, <1>4
    <2>2. bytes[k + 1] = LF
        BY <2>1 DEF WellEnded, n
    <2>3. k < e
        BY <1>2, <1>4, <1>5, <2>1, LineEndsDiffer
    <2>4. k + 1 \in 1..e
        BY <1>2, <1>4, <2>3
    <2> QED
        BY <1>4, <2>2, <2>3, <2>4
<1>10. WellEnded(AfterFrame(bytes))
    <2>1. /\ f \in Seq(S) /\ AfterFrame(bytes) \in Seq(S)
          /\ f \o AfterFrame(bytes) = bytes
        BY FrameParts DEF f
    <2> QED
        BY <2>1, TailEnds
<1> QED
    BY <1>6, <1>8, <1>9, <1>10 DEF f, IsFrame

FramesWellEnded(bytes) ==
    /\ \A k \in 1..Len(DrainComplete(bytes).frames) : IsFrame(DrainComplete(bytes).frames[k])
    /\ WellEnded(DrainComplete(bytes).rest)

LEMMA FramesOfStream ==
    ASSUME NEW S, NEW bytes \in Seq(S), WellEnded(bytes)
    PROVE  FramesWellEnded(bytes)
<1> DEFINE T == {n \in Nat : \A b \in Seq(S) : Len(b) < n /\ WellEnded(b) => FramesWellEnded(b)}
<1>1. 0 \in T
    OBVIOUS
<1>2. ASSUME NEW n \in Nat, n \in T
      PROVE  n + 1 \in T
    <2>1. ASSUME NEW b \in Seq(S), Len(b) < n + 1, WellEnded(b)
          PROVE  FramesWellEnded(b)
        <3>1. CASE FrameEnd(b) = 0
            <4>1. DrainComplete(b).frames = <<>> /\ DrainComplete(b).rest = b
                BY <3>1, DrainNone
            <4>2. 1..Len(<<>>) = {}
                BY EmptySeq
            <4> QED
                BY <2>1, <4>1, <4>2 DEF FramesWellEnded
        <3>2. CASE FrameEnd(b) # 0
            <4> DEFINE first == FirstFrame(b)
                       after == AfterFrame(b)
                       fs == DrainComplete(after).frames
                       all == <<first>> \o fs
            <4>1. /\ first \in Seq(S) /\ after \in Seq(S) /\ Len(after) < Len(b)
                  /\ IsFrame(first) /\ WellEnded(after)
                BY <2>1, <3>2, FrameParts, FirstFrameIs
            <4>2. /\ DrainComplete(b).frames = all
                  /\ DrainComplete(b).rest = DrainComplete(after).rest
                BY <3>2, DrainFirst
            <4> HIDE DEF first, after
            <4>3. FramesWellEnded(after)
                BY <1>2, <2>1, <4>1
            <4>4. fs \in Seq(Seq(S))
                BY <4>1, DrainProperties DEF Drained
            <4>5. /\ Len(all) = Len(fs) + 1 /\ Len(fs) \in Nat
                  /\ all[1] = first /\ \A k \in 1..Len(fs) : all[k+1] = fs[k]
                <5> DEFINE R == Seq(S)
                <5>1. first \in R /\ fs \in Seq(R)
                    BY <4>1, <4>4
                <5> HIDE DEF R, fs
                <5> QED
                    BY <5>1, ConsProperties
            <4> HIDE DEF all
            <4>6. ASSUME NEW k \in 1..Len(all) PROVE IsFrame(all[k])
                <5>1. k = 1 \/ (k - 1 \in 1..Len(fs) /\ (k - 1) + 1 = k)
                    BY <4>5
                <5>2. \A j \in 1..Len(fs) : IsFrame(fs[j])
                    BY <4>3 DEF FramesWellEnded
                <5> HIDE DEF fs
                <5> QED
                    BY <4>1, <4>5, <5>1, <5>2
            <4> QED
                BY <4>2, <4>3, <4>6 DEF FramesWellEnded
        <3> QED
            BY <3>1, <3>2
    <2> QED
        BY <2>1
<1>3. Len(bytes) + 1 \in T
    <2>1. Len(bytes) + 1 \in Nat
        OBVIOUS
    <2> HIDE DEF T
    <2> QED
        BY <1>1, <1>2, <2>1, NatSetInduction
<1>4. Len(bytes) < Len(bytes) + 1
    OBVIOUS
<1> QED
    BY <1>3, <1>4

(* The last line of a frame is blank.                                      *)
LEMMA LastLineBlank ==
    ASSUME NEW S, NEW text \in Seq(S), IsFrame(text), NEW lines, HasLines(S, text, lines)
    PROVE  /\ Len(lines) \in Nat \ {0}
           /\ lines[Len(lines)].content = <<>>
           /\ Complete(lines[Len(lines)].whole)
<1> DEFINE n == Len(lines)
           len == Len(text)
           ws == Wholes(lines)
           pre == FlattenTo(ws, n-1)
           line == lines[n]
           w == line.whole
           c == line.content
           m == Len(w)
<1>1. /\ lines \in Seq(LineRecords(S)) /\ ws \in Seq(Seq(S)) /\ FlattenSeq(ws) = text
      /\ \A k \in 1..n : IsLine(S, lines[k])
    BY DEF HasLines
<1>2. n \in Nat /\ DOMAIN lines = 1..n
    BY <1>1
<1>3. Len(ws) = n /\ \A k \in 1..n : ws[k] = lines[k].whole
    <2> DEFINE v == [k \in 1..n |-> lines[k].whole]
    <2>1. ws = v
        BY <1>2 DEF Wholes
    <2>2. DOMAIN v = 1..n /\ \A k \in 1..n : v[k] = lines[k].whole
        OBVIOUS
    <2>3. DOMAIN ws = 1..Len(ws) /\ Len(ws) \in Nat
        <3> DEFINE R == Seq(S)
        <3>1. ws \in Seq(R)
            BY <1>1
        <3> HIDE DEF R, ws
        <3> QED
            BY <3>1
    <2> HIDE DEF v, ws
    <2> QED
        BY <1>2, <2>1, <2>2, <2>3
<1>4. text # <<>> /\ len \in Nat /\ FrameEnd(text) = len /\ len # 0
    BY EmptySeq DEF IsFrame
<1>5. n # 0
    <2>1. n = 0 => FlattenSeq(ws) = <<>>
        BY <1>1, <1>3, FlattenSeqIs
    <2> QED
        BY <1>1, <1>4, <2>1
<1> HIDE DEF ws
<1>6. n \in 1..n /\ n \in 1..Len(ws)
    BY <1>2, <1>3, <1>5
<1>7. pre \in Seq(S) /\ w \in Seq(S) /\ text = pre \o w
    <2>1. pre \in Seq(S) /\ ws[n] \in Seq(S) /\ FlattenTo(ws, n) = pre \o ws[n]
        BY <1>1, <1>6, FlattenToStep
    <2>2. FlattenTo(ws, n) = FlattenSeq(ws)
        BY <1>1, <1>3, FlattenToEnds
    <2> QED
        BY <1>1, <1>3, <1>6, <2>1, <2>2
<1>8. IsLine(S, line)
    BY <1>1, <1>6
<1> HIDE DEF n, line, pre
<1>9. /\ w # <<>> /\ c \in Seq(S)
      /\ \A j \in 1..Len(c) : c[j] = w[j] /\ c[j] \notin {CR, LF}
      /\ \/ m = Len(c)
         \/ m = Len(c) + 1 /\ w[m] = LF
         \/ m = Len(c) + 2 /\ w[m - 1] = CR /\ w[m] = LF
    BY <1>8 DEF IsLine, LineRecords
<1>10. Len(c) \in Nat /\ m \in Nat /\ m # 0 /\ (Len(c) = 0 => c = <<>>)
    BY <1>7, <1>9, EmptySeq
<1> HIDE DEF w, c, m
<1> DEFINE p == Len(pre)
<1>11. /\ p \in Nat /\ len = p + m
       /\ \A j \in 1..m : text[p + j] = w[j]
    <2>1. /\ p \in Nat /\ Len(pre \o w) = p + m
          /\ \A j \in 1..p+m : (pre \o w)[j] = IF j <= p THEN pre[j] ELSE w[j - p]
        BY <1>7, <1>10, ConcatProperties DEF m
    <2>2. ASSUME NEW j \in 1..m PROVE text[p + j] = w[j]
        <3>1. p + j \in 1..p+m /\ ~(p + j <= p) /\ (p + j) - p = j
            BY <1>10, <2>1
        <3> HIDE DEF p
        <3> QED
            BY <1>7, <2>1, <3>1
    <2> QED
        BY <1>7, <2>1, <2>2
<1> HIDE DEF p, len
<1>12. /\ text[len] = LF
       /\ text[len - 1] = LF \/ (text[len - 1] = CR /\ text[len - 2] = LF)
    <2>1. PICK i : FirstSplit(text, i, len)
        BY <1>4, FrameEndHasSplit
    <2>2. i \in Nat /\ IsSplit(text, i, len)
        BY <2>1 DEF FirstSplit
    <2>3. /\ len = i + 1 => len - 1 = i
          /\ len = i + 2 => len - 1 = i + 1 /\ len - 2 = i
          /\ len = i + 3 => len - 1 = i + 2 /\ len - 2 = i + 1
        BY <2>2
    <2> QED
        BY <2>2, <2>3 DEF IsSplit
<1>13. w[m] = LF
    <2>1. m \in 1..m
        BY <1>10
    <2> QED
        BY <1>11, <1>12, <2>1
<1>14. Complete(w)
    BY <1>13 DEF Complete, m
<1>15. Len(c) = 0
    <2> DEFINE d == Len(c)
    <2>1. SUFFICES ASSUME d >= 1 PROVE FALSE
        BY <1>10
    <2>2. d \in 1..d /\ d <= m /\ d \in 1..m
        BY <1>9, <1>10, <2>1
    <2>3. w[d] \notin {CR, LF} /\ text[p + d] = w[d]
        BY <1>9, <1>11, <2>2
    <2>4. \/ p + d = len
          \/ p + d = len - 1
          \/ p + d = len - 2 /\ w[m - 1] = CR /\ m - 1 \in 1..m /\ p + (m - 1) = len - 1
        <3>1. d \in Nat /\ m \in Nat /\ p \in Nat /\ len = p + m /\ d >= 1
            BY <1>10, <1>11, <2>1
        <3>2. m = d \/ m = d + 1 \/ (m = d + 2 /\ w[m - 1] = CR)
            BY <1>9
        <3> HIDE DEF d
        <3>3. CASE m = d
            BY <3>1, <3>3
        <3>4. CASE m = d + 1
            BY <3>1, <3>4
        <3>5. CASE m = d + 2 /\ w[m - 1] = CR
            <4>1. p + d = len - 2 /\ m - 1 \in 1..m /\ p + (m - 1) = len - 1
                BY <3>1, <3>5
            <4> QED
                BY <3>5, <4>1
        <3> QED
            BY <3>2, <3>3, <3>4, <3>5
    <2>5. CASE p + d = len
        BY <1>12, <2>3, <2>5
    <2>6. CASE p + d = len - 1
        BY <1>12, <2>3, <2>6
    <2>7. CASE /\ p + d = len - 2 /\ w[m - 1] = CR
               /\ m - 1 \in 1..m /\ p + (m - 1) = len - 1
        <3>1. text[len - 1] = CR
            BY <1>11, <2>7
        <3> QED
            BY <1>12, <2>3, <2>7, <3>1, LineEndsDiffer
    <2> QED
        BY <2>4, <2>5, <2>6, <2>7
<1> QED
    BY <1>2, <1>5, <1>10, <1>14, <1>15 DEF n, line, w, c

-----------------------------------------------------------------------------

(* The bytes of the rewritten stream.                                      *)
Tokens == Bytes \cup {Restored}

(* Two clients between two events, the second of which has read what the   *)
(* first has with the texts restored.                                      *)
Between(client) == client.others = <<>> /\ client.data = <<>>

Follows(x, y) ==
    /\ x \in Seq(Tokens) /\ y \in Seq(Tokens)
    /\ Complete(x) /\ Complete(y)
    /\ Between(Client(x)) /\ Between(Client(y))
    /\ Client(y).events = RestoredEvents(Client(x).events)

(* Two clients within an event: payload is what the first has collected of *)
(* it, and if its text is restored the second has it restored as soon as   *)
(* there is anything.                                                      *)
Tracks(x, y, events, restoredEvents, slots, payload) ==
    /\ x \in Seq(Tokens) /\ y \in Seq(Tokens)
    /\ Complete(x) /\ Complete(y)
    /\ Client(x).events = events /\ Client(y).events = restoredEvents
    /\ Client(y).others = Client(x).others
    /\ Client(x).data = payload
    /\ Client(y).data = IF slots /\ payload # <<>> THEN <<<<Restored>>>> ELSE payload

(* What becomes of a line in a frame of which payload has been read.       *)
Piece(line, slots, payload) ==
    IF slots /\ IsData(line) THEN IF payload = <<>> THEN <<Restored, LF>> ELSE <<>>
    ELSE line.whole

Collected(line) == IF IsData(line) THEN <<line.content>> ELSE <<>>

LEMMA CompleteConcat ==
    ASSUME NEW S, NEW x \in Seq(S), NEW w \in Seq(S), Complete(x), Complete(w)
    PROVE  x \o w \in Seq(S) /\ Complete(x \o w)
<1> DEFINE n == Len(x)
           m == Len(w)
           both == x \o w
<1>1. /\ n \in Nat /\ m \in Nat /\ both \in Seq(S) /\ Len(both) = n + m
      /\ \A j \in 1..n+m : both[j] = IF j <= n THEN x[j] ELSE w[j-n]
      /\ (x = <<>> <=> n = 0) /\ (w = <<>> <=> m = 0)
    BY ConcatProperties, EmptySeq
<1>2. (n # 0 => x[n] = LF) /\ (m # 0 => w[m] = LF)
    BY <1>1 DEF Complete
<1>3. both # <<>> => n + m # 0
    <2> HIDE DEF both
    <2> QED
        BY <1>1, EmptySeq
<1> HIDE DEF both, n, m
<1>4. ASSUME n + m # 0 PROVE both[n + m] = LF
    <2>1. n + m \in 1..n+m
        BY <1>1, <1>4
    <2>2. CASE m = 0
        BY <1>1, <1>2, <1>4, <2>1, <2>2
    <2>3. CASE m # 0
        <3>1. ~(n + m <= n) /\ (n + m) - n = m
            BY <1>1, <2>3
        <3> QED
            BY <1>1, <1>2, <2>1, <2>3, <3>1
    <2> QED
        BY <2>2, <2>3
<1>5. Complete(both)
    BY <1>1, <1>3, <1>4 DEF Complete
<1> QED
    BY <1>1, <1>5 DEF both

RestoredLine == [content |-> <<Restored>>, whole |-> <<Restored, LF>>]

LEMMA RestoredLineIs ==
    ASSUME Restored \notin {CR, LF}
    PROVE  /\ IsLine(Tokens, RestoredLine)
           /\ Complete(RestoredLine.whole)
           /\ IsData(RestoredLine)
<1>1. Restored \in Tokens /\ LF \in Tokens
    BY DEF Tokens, Bytes
<1> DEFINE c == <<Restored>>
           w == <<Restored, LF>>
<1>2. /\ c \in Seq(Tokens) /\ Len(c) = 1 /\ c[1] = Restored
      /\ w \in Seq(Tokens) /\ Len(w) = 2 /\ w[1] = Restored /\ w[2] = LF
    BY <1>1
<1>3. RestoredLine.content = c /\ RestoredLine.whole = w
      /\ RestoredLine = [content |-> c, whole |-> w]
    BY DEF RestoredLine
<1> HIDE DEF c, w
<1>4. w # <<>> /\ c # <<>>
    <2>1. \A q \in Seq(Tokens) : q = <<>> => Len(q) = 0
        BY EmptySeq
    <2>2. c \in Seq(Tokens) /\ w \in Seq(Tokens) /\ Len(c) # 0 /\ Len(w) # 0
        BY <1>2
    <2> QED
        BY <2>1, <2>2, Zenon
<1>5. RestoredLine \in LineRecords(Tokens)
    BY <1>2, <1>3 DEF LineRecords
<1>6. \A j \in 1..Len(c) : c[j] = w[j] /\ c[j] \notin {CR, LF}
    <2>1. \A j \in 1..Len(c) : j = 1
        BY <1>2
    <2> QED
        BY <1>2, <2>1
<1>7. Len(w) = Len(c) + 1 /\ w[Len(w)] = LF
    BY <1>2
<1>8. IsLine(Tokens, RestoredLine)
    BY <1>3, <1>4, <1>5, <1>6, <1>7, Zenon DEF IsLine
<1>9. Complete(w)
    BY <1>7 DEF Complete
<1>10. IsData(RestoredLine)
    BY <1>2, <1>3, <1>4 DEF IsData
<1> QED
    BY <1>3, <1>8, <1>9, <1>10

LEMMA TracksLine ==
    ASSUME Restored \notin {CR, LF}, NEW slots \in BOOLEAN,
           NEW x, NEW y, NEW events, NEW restored, NEW payload \in Seq(Seq(Tokens)),
           Tracks(x, y, events, restored, slots, payload),
           NEW line, IsLine(Tokens, line), line.content # <<>>, Complete(line.whole)
    PROVE  Tracks(x \o line.whole, y \o Piece(line, slots, payload), events, restored, slots,
                  payload \o Collected(line))
<1> DEFINE X == Client(x)
           Y == Client(y)
           w == line.whole
           x2 == x \o w
           y2 == y \o Piece(line, slots, payload)
<1>1. /\ x \in Seq(Tokens) /\ y \in Seq(Tokens) /\ Complete(x) /\ Complete(y)
      /\ X.events = events /\ Y.events = restored /\ Y.others = X.others
      /\ X.data = payload
      /\ Y.data = IF slots /\ payload # <<>> THEN <<<<Restored>>>> ELSE payload
    BY DEF Tracks
<1>2. X \in Clients(Tokens) /\ Y \in Clients(Tokens) /\ line \in LineRecords(Tokens)
    BY <1>1, ClientType DEF IsLine
<1>3. w \in Seq(Tokens) /\ Complete(w) /\ line.content \in Seq(Tokens)
    BY <1>2 DEF LineRecords
<1>4. x2 \in Seq(Tokens) /\ Complete(x2) /\ y \o w \in Seq(Tokens) /\ Complete(y \o w)
    BY <1>1, <1>3, CompleteConcat
<1>5. Client(x2) = Heard(X, line) /\ Client(y \o w) = Heard(Y, line)
    BY <1>1, ClientSnoc
<1>6. /\ Append(payload, line.content) = payload \o <<line.content>>
      /\ Append(payload, line.content) # <<>>
      /\ payload \o <<>> = payload
    <2> DEFINE R == Seq(Tokens)
               l == line.content
    <2>1. payload \in Seq(R) /\ l \in R
        BY <1>3
    <2> HIDE DEF R, l
    <2>2. Append(payload, l) = payload \o <<l>>
        BY <2>1, AppendIsConcat
    <2>4. Append(payload, l) # <<>>
        BY <2>1, AppendProperties
    <2>3. payload \o <<>> = payload
        BY <2>1, ConcatEmptySeq
    <2> QED
        BY <2>2, <2>3, <2>4 DEF l
<1> HIDE DEF X, Y, w, x2, y2
<1>7. CASE ~IsData(line)
    <2>1. Piece(line, slots, payload) = w /\ Collected(line) = <<>>
        BY <1>7 DEF Piece, Collected, w
    <2>2. y2 = y \o w
        BY <2>1 DEF y2
    <2>3. Client(x2) = [events |-> X.events, others |-> Append(X.others, line), data |-> X.data]
        BY <1>2, <1>5, <1>7, HeardCases
    <2>4. Client(y2) = [events |-> Y.events, others |-> Append(Y.others, line), data |-> Y.data]
        BY <1>2, <1>5, <1>7, <2>2, HeardCases
    <2>5. /\ Client(x2).events = events /\ Client(y2).events = restored
          /\ Client(x2).data = payload /\ Client(y2).data = Y.data
          /\ Client(y2).others = Client(x2).others
        BY <1>1, <2>3, <2>4
    <2>6. payload \o Collected(line) = payload
        BY <1>6, <2>1
    <2> QED
        BY <1>1, <1>4, <2>2, <2>5, <2>6, Zenon DEF Tracks, x2, y2, w
<1>8. CASE IsData(line)
    <2>1. payload \o Collected(line) = Append(payload, line.content)
        BY <1>6, <1>8 DEF Collected
    <2> DEFINE d == Append(payload, line.content)
    <2>2. Client(x2) = [events |-> X.events, others |-> X.others, data |-> Append(X.data, line.content)]
        BY <1>2, <1>5, <1>8, HeardCases
    <2>3. Client(x2).events = events /\ Client(x2).others = X.others /\ Client(x2).data = d
        BY <1>1, <2>2
    <2>4. d # <<>>
        BY <1>6
    <2> HIDE DEF d
    <2>5. CASE ~slots
        <3>1. y2 = y \o w
            BY <2>5 DEF Piece, y2, w
        <3>2. Client(y2) = [events |-> Y.events, others |-> Y.others, data |-> Append(Y.data, line.content)]
            BY <1>2, <1>5, <1>8, <3>1, HeardCases
        <3>3. Client(y2).events = restored /\ Client(y2).others = X.others /\ Client(y2).data = d
            BY <1>1, <2>5, <3>2 DEF d
        <3> QED
            BY <1>4, <2>1, <2>3, <2>5, <3>1, <3>3, Zenon DEF Tracks, x2, y2, w, d
    <2>6. CASE slots /\ payload = <<>>
        <3>1. Piece(line, slots, payload) = RestoredLine.whole
            BY <1>8, <2>6 DEF Piece, RestoredLine
        <3>2. /\ IsLine(Tokens, RestoredLine) /\ Complete(RestoredLine.whole)
              /\ IsData(RestoredLine)
            BY RestoredLineIs
        <3>3. /\ RestoredLine \in LineRecords(Tokens) /\ RestoredLine.whole \in Seq(Tokens)
              /\ RestoredLine.content = <<Restored>>
            BY <3>2 DEF IsLine, LineRecords, RestoredLine
        <3>4. Client(y2) = Heard(Y, RestoredLine)
            BY <1>1, <3>1, <3>2, ClientSnoc DEF y2, Y
        <3>5. y2 \in Seq(Tokens) /\ Complete(y2)
            BY <1>1, <3>1, <3>2, <3>3, CompleteConcat DEF y2
        <3>6. Client(y2) = [events |-> Y.events, others |-> Y.others,
                            data |-> Append(Y.data, <<Restored>>)]
            <4>1. Heard(Y, RestoredLine) = [events |-> Y.events, others |-> Y.others,
                                            data |-> Append(Y.data, RestoredLine.content)]
                BY <1>2, <3>2, <3>3, HeardCases
            <4> QED
                BY <3>3, <3>4, <4>1, Zenon
        <3>7. Y.data = <<>>
            BY <1>1, <2>6
        <3>8. Append(<<>>, <<Restored>>) = <<<<Restored>>>>
            OBVIOUS
        <3>9. /\ Client(y2).events = restored /\ Client(y2).others = X.others
              /\ Client(y2).data = <<<<Restored>>>>
            <4> DEFINE q == Append(Y.data, <<Restored>>)
            <4>1. Client(y2) = [events |-> Y.events, others |-> Y.others, data |-> q]
                BY <3>6
            <4>2. q = <<<<Restored>>>>
                BY <3>7, <3>8, Zenon
            <4> HIDE DEF q
            <4>3. Client(y2).events = Y.events /\ Client(y2).others = Y.others
                  /\ Client(y2).data = q
                BY <4>1
            <4> QED
                BY <1>1, <4>2, <4>3, Zenon
        <3> QED
            BY <1>4, <2>1, <2>3, <2>4, <2>6, <3>5, <3>9, Zenon DEF Tracks, x2, y2, w, d
    <2>7. CASE slots /\ payload # <<>>
        <3>1. Piece(line, slots, payload) = <<>>
            BY <1>8, <2>7 DEF Piece
        <3>2. y2 = y
            BY <1>1, <3>1, ConcatEmptySeq DEF y2
        <3>3. Client(y2).data = <<<<Restored>>>>
            BY <1>1, <2>7, <3>2 DEF Y
        <3>4. Client(y2).events = restored /\ Client(y2).others = X.others
            BY <1>1, <3>2 DEF Y
        <3> QED
            BY <1>1, <1>4, <2>1, <2>3, <2>4, <2>7, <3>2, <3>3, <3>4, Zenon
               DEF Tracks, x2, y2, w, d
    <2> QED
        BY <2>5, <2>6, <2>7
<1> QED
    BY <1>7, <1>8

(* A blank line that nothing precedes.                                     *)
LEMMA TracksBlank ==
    ASSUME NEW slots \in BOOLEAN, NEW x, NEW y, Follows(x, y),
           NEW line, IsLine(Tokens, line), line.content = <<>>, Complete(line.whole)
    PROVE  /\ Follows(x \o line.whole, y \o line.whole)
           /\ Client(x \o line.whole) = Client(x)
           /\ Client(y \o line.whole) = Client(y)
<1>1. /\ x \in Seq(Tokens) /\ y \in Seq(Tokens) /\ Complete(x) /\ Complete(y)
      /\ Client(x).others = <<>> /\ Client(x).data = <<>>
      /\ Client(y).others = <<>> /\ Client(y).data = <<>>
    BY DEF Follows, Between
<1>2. /\ Client(x) \in Clients(Tokens) /\ Client(y) \in Clients(Tokens)
      /\ line \in LineRecords(Tokens) /\ line.whole \in Seq(Tokens)
    BY <1>1, ClientType DEF IsLine, LineRecords
<1>3. /\ Client(x \o line.whole) = Heard(Client(x), line)
      /\ Client(y \o line.whole) = Heard(Client(y), line)
    BY <1>1, ClientSnoc
<1>4. Heard(Client(x), line) = Client(x) /\ Heard(Client(y), line) = Client(y)
    BY <1>1, <1>2, HeardCases
<1>5. /\ x \o line.whole \in Seq(Tokens) /\ Complete(x \o line.whole)
      /\ y \o line.whole \in Seq(Tokens) /\ Complete(y \o line.whole)
    BY <1>1, <1>2, CompleteConcat
<1> QED
    BY <1>3, <1>4, <1>5 DEF Follows

LEMMA DataObjEmpty == DataObj(<<>>) # "text"
<1>1. /\ <<>> # <<<<Text>>>> /\ <<>> # <<<<Half1>>, <<Half2>>>>
      /\ <<>> # <<<<Half1, Sep, Rest>>>> /\ <<>> # <<<<Struct>>>> /\ <<>> # <<<<Restored>>>>
    OBVIOUS
<1> QED
    BY <1>1 DEF DataObj

RestoredEvent(event) ==
    IF DataObj(event.data) = "text" THEN [event EXCEPT !.data = <<<<Restored>>>>] ELSE event

LEMMA RestoredEventsSnoc ==
    ASSUME NEW S, NEW events \in Seq(S), NEW event
    PROVE  RestoredEvents(Append(events, event)) =
               Append(RestoredEvents(events), RestoredEvent(event))
<1> DEFINE n == Len(events)
           all == Append(events, event)
           r == RestoredEvents(events)
<1>1. n \in Nat /\ DOMAIN events = 1..n
    OBVIOUS
<1>2. /\ all = [k \in 1..n+1 |-> IF k = n + 1 THEN event ELSE events[k]]
    <2>1. all \in Seq(S \cup {event}) /\ Len(all) = n + 1
        <3>1. events \in Seq(S \cup {event}) /\ event \in S \cup {event}
            OBVIOUS
        <3> QED
            BY <3>1, AppendProperties
    <2>2. DOMAIN all = 1..n+1 /\ \A k \in 1..n+1 : all[k] = IF k = n + 1 THEN event ELSE events[k]
        OBVIOUS
    <2>3. all = [k \in DOMAIN all |-> all[k]]
        <3> DEFINE R == S \cup {event}
        <3>1. all \in Seq(R)
            BY <2>1
        <3> HIDE DEF all, R
        <3> QED
            BY <3>1
    <2> HIDE DEF all, n
    <2> QED
        BY <2>2, <2>3
<1>3. r = [k \in 1..n |-> RestoredEvent(events[k])]
    BY <1>1 DEF RestoredEvents, RestoredEvent
<1> HIDE DEF all, n
<1>4. RestoredEvents(all) = [k \in 1..n+1 |-> RestoredEvent(all[k])]
    <2>1. DOMAIN all = 1..n+1
        BY <1>2
    <2> QED
        BY <2>1 DEF RestoredEvents, RestoredEvent
<1> HIDE DEF r
<1>5. Append(r, RestoredEvent(event)) =
          [k \in 1..n+1 |-> IF k = n + 1 THEN RestoredEvent(event) ELSE r[k]]
    <2> DEFINE e == RestoredEvent(event)
               R == {r[k] : k \in 1..n} \cup {e}
    <2>1. r \in Seq(R) /\ Len(r) = n /\ e \in R
        <3> HIDE DEF e
        <3>1. \A k \in 1..n : r[k] \in R
            OBVIOUS
        <3>2. DOMAIN r = 1..n /\ r = [k \in 1..n |-> r[k]]
            BY <1>3
        <3>3. e \in R
            OBVIOUS
        <3> HIDE DEF R
        <3>4. r \in [1..n -> R]
            BY <3>1, <3>2
        <3> QED
            BY <1>1, <3>3, <3>4
    <2> HIDE DEF e, R
    <2> DEFINE a == Append(r, e)
    <2>2. a \in Seq(R) /\ Len(a) = n + 1 /\ \A k \in 1..n+1 : a[k] = IF k = n + 1 THEN e ELSE r[k]
        BY <1>1, <2>1
    <2>3. DOMAIN a = 1..n+1 /\ a = [k \in DOMAIN a |-> a[k]]
        <3> HIDE DEF a
        <3> QED
            BY <2>2
    <2> HIDE DEF a
    <2>4. a = [k \in 1..n+1 |-> IF k = n + 1 THEN e ELSE r[k]]
        BY <2>2, <2>3
    <2> QED
        BY <2>4 DEF a, e
<1>6. ASSUME NEW k \in 1..n+1
      PROVE  RestoredEvent(all[k]) = IF k = n + 1 THEN RestoredEvent(event) ELSE r[k]
    <2>1. CASE k = n + 1
        BY <1>2, <2>1
    <2>2. CASE k # n + 1
        <3>1. k \in 1..n
            BY <1>1, <2>2
        <3>2. all[k] = events[k] /\ r[k] = RestoredEvent(events[k])
            BY <1>2, <1>3, <2>2, <3>1
        <3> QED
            BY <2>2, <3>2
    <2> QED
        BY <2>1, <2>2
<1> DEFINE g == [k \in 1..n+1 |-> IF k = n + 1 THEN RestoredEvent(event) ELSE r[k]]
<1>7. RestoredEvents(all) = g
    BY <1>4, <1>6, Zenon
<1> QED
    BY <1>5, <1>7 DEF all, r

(* A blank line ends the event.                                            *)
LEMMA TracksEnd ==
    ASSUME NEW slots \in BOOLEAN,
           NEW x, NEW y, NEW events, NEW restored, NEW payload \in Seq(Seq(Tokens)),
           Tracks(x, y, events, restored, slots, payload),
           restored = RestoredEvents(events),
           slots <=> DataObj(payload) = "text",
           NEW line, IsLine(Tokens, line), line.content = <<>>, Complete(line.whole)
    PROVE  Follows(x \o line.whole, y \o line.whole)
<1> DEFINE X == Client(x)
           Y == Client(y)
           w == line.whole
           x2 == x \o w
           y2 == y \o w
<1>1. /\ x \in Seq(Tokens) /\ y \in Seq(Tokens) /\ Complete(x) /\ Complete(y)
      /\ X.events = events /\ Y.events = restored /\ Y.others = X.others
      /\ X.data = payload
      /\ Y.data = IF slots /\ payload # <<>> THEN <<<<Restored>>>> ELSE payload
    BY DEF Tracks
<1>2. X \in Clients(Tokens) /\ Y \in Clients(Tokens) /\ line \in LineRecords(Tokens)
    BY <1>1, ClientType DEF IsLine
<1>3. w \in Seq(Tokens) /\ Complete(w)
    BY <1>2 DEF LineRecords
<1>4. x2 \in Seq(Tokens) /\ Complete(x2) /\ y2 \in Seq(Tokens) /\ Complete(y2)
    BY <1>1, <1>3, CompleteConcat
<1>5. Client(x2) = Heard(X, line) /\ Client(y2) = Heard(Y, line)
    BY <1>1, ClientSnoc
<1>6. slots => payload # <<>>
    BY DataObjEmpty
<1> HIDE DEF X, Y, w, x2, y2
<1>7. CASE X.others = <<>> /\ payload = <<>>
    <2>1. Y.others = <<>> /\ X.data = <<>> /\ Y.data = <<>>
        BY <1>1, <1>7
    <2>2. Heard(X, line) = X /\ Heard(Y, line) = Y
        BY <1>1, <1>2, <1>7, <2>1, HeardCases
    <2>3. Between(X) /\ Between(Y)
        BY <1>7, <2>1 DEF Between
    <2> QED
        BY <1>1, <1>4, <1>5, <2>2, <2>3, Zenon DEF Follows, x2, y2, w
<1>8. CASE ~(X.others = <<>> /\ payload = <<>>)
    <2>1. ~(Y.others = <<>> /\ Y.data = <<>>)
        <3>1. <<<<Restored>>>> # <<>>
            OBVIOUS
        <3> QED
            BY <1>1, <1>8, <3>1
    <2> DEFINE e == [others |-> X.others, data |-> X.data]
               f == [others |-> Y.others, data |-> Y.data]
    <2>2. /\ Client(x2) = [events |-> Append(X.events, e), others |-> <<>>, data |-> <<>>]
          /\ Client(y2) = [events |-> Append(Y.events, f), others |-> <<>>, data |-> <<>>]
        <3>1. ~(X.others = <<>> /\ X.data = <<>>)
            BY <1>1, <1>8
        <3> QED
            BY <1>2, <1>5, <2>1, <3>1, HeardCases
    <2>3. f = RestoredEvent(e)
        <3>1. e.data = payload /\ e.others = X.others
            BY <1>1
        <3>2. CASE slots
            <4>1. Y.data = <<<<Restored>>>> /\ DataObj(e.data) = "text"
                BY <1>1, <1>6, <3>1, <3>2
            <4>2. [e EXCEPT !.data = <<<<Restored>>>>] = [others |-> X.others, data |-> <<<<Restored>>>>]
                OBVIOUS
            <4>3. f = [others |-> X.others, data |-> <<<<Restored>>>>]
                BY <1>1, <4>1
            <4> HIDE DEF e, f
            <4> QED
                BY <4>1, <4>2, <4>3 DEF RestoredEvent
        <3>3. CASE ~slots
            <4>1. Y.data = payload /\ DataObj(e.data) # "text"
                BY <1>1, <3>1, <3>3
            <4>2. f = e
                BY <1>1, <4>1
            <4> HIDE DEF e, f
            <4> QED
                BY <4>1, <4>2 DEF RestoredEvent
        <3> QED
            BY <3>2, <3>3
    <2> HIDE DEF e, f
    <2>4. Append(Y.events, f) = RestoredEvents(Append(X.events, e))
        <3>1. X.events \in Seq(EventRecords(Tokens))
            BY <1>2 DEF Clients
        <3>2. RestoredEvents(Append(X.events, e)) =
                  Append(RestoredEvents(X.events), RestoredEvent(e))
            BY <3>1, RestoredEventsSnoc
        <3> QED
            BY <1>1, <2>3, <3>2
    <2>5. /\ Client(x2).others = <<>> /\ Client(x2).data = <<>>
          /\ Client(y2).others = <<>> /\ Client(y2).data = <<>>
          /\ Client(x2).events = Append(X.events, e)
          /\ Client(y2).events = Append(Y.events, f)
        <3> DEFINE E == Append(X.events, e)
                   F == Append(Y.events, f)
        <3> HIDE DEF E, F
        <3>1. /\ Client(x2) = [events |-> E, others |-> <<>>, data |-> <<>>]
              /\ Client(y2) = [events |-> F, others |-> <<>>, data |-> <<>>]
            BY <2>2 DEF E, F
        <3> QED
            BY <3>1 DEF E, F
    <2> QED
        BY <1>4, <2>4, <2>5, Zenon DEF Follows, Between, x2, y2, w
<1> QED
    BY <1>7, <1>8

-----------------------------------------------------------------------------

LEMMA BytesAreTokens ==
    ASSUME NEW text \in Seq(Bytes)
    PROVE  text \in Seq(Tokens)
<1>1. text \in [1..Len(text) -> Bytes] /\ Len(text) \in Nat
    OBVIOUS
<1>2. text \in [1..Len(text) -> Tokens]
    BY <1>1 DEF Tokens
<1> QED
    BY <1>1, <1>2

(* A function on 1..n is a sequence.                                       *)
LEMMA FunctionIsSeq ==
    ASSUME NEW R, NEW n \in Nat, NEW f, DOMAIN f = 1..n, f = [k \in 1..n |-> f[k]],
           \A k \in 1..n : f[k] \in R
    PROVE  f \in Seq(R) /\ Len(f) = n
<1>1. f \in [1..n -> R]
    OBVIOUS
<1> QED
    BY <1>1

LEMMA WholesAre ==
    ASSUME NEW S, NEW lines \in Seq(LineRecords(S))
    PROVE  /\ DOMAIN lines = 1..Len(lines) /\ Len(lines) \in Nat
           /\ Wholes(lines) \in Seq(Seq(S))
           /\ Len(Wholes(lines)) = Len(lines)
           /\ \A k \in 1..Len(lines) :
                  Wholes(lines)[k] = lines[k].whole /\ lines[k] \in LineRecords(S)
<1> DEFINE n == Len(lines)
           Q == LineRecords(S)
           R == Seq(S)
           v == [k \in 1..n |-> lines[k].whole]
<1>1. DOMAIN lines = 1..n /\ n \in Nat /\ \A k \in 1..n : lines[k] \in Q
    <2>1. lines \in Seq(Q)
        OBVIOUS
    <2> HIDE DEF Q
    <2> QED
        BY <2>1
<1>2. \A k \in 1..n : lines[k].whole \in R
    BY <1>1 DEF LineRecords
<1>3. Wholes(lines) = v
    BY <1>1 DEF Wholes
<1> HIDE DEF n, R
<1>4. DOMAIN v = 1..n /\ v = [k \in 1..n |-> v[k]] /\ \A k \in 1..n : v[k] = lines[k].whole
    OBVIOUS
<1> HIDE DEF v
<1>5. \A k \in 1..n : v[k] \in R
    BY <1>2, <1>4
<1>6. v \in Seq(R) /\ Len(v) = n
    BY <1>1, <1>4, <1>5, FunctionIsSeq
<1> QED
    BY <1>1, <1>3, <1>4, <1>6 DEF n, R, Q

(* The data lines before the k-th.                                         *)
DataBefore(lines, k) == \E j \in 1..k-1 : IsData(lines[j])

LEMMA FirstData ==
    ASSUME NEW lines, NEW n \in Nat, DOMAIN lines = 1..n, NEW k \in 1..n, IsData(lines[k])
    PROVE  k = Min({j \in DOMAIN lines : IsData(lines[j])}) <=> ~DataBefore(lines, k)
<1> DEFINE T == {j \in DOMAIN lines : IsData(lines[j])}
<1>1. T \subseteq Nat /\ k \in T /\ \A j \in T : j \in 1..n /\ IsData(lines[j])
    OBVIOUS
<1>2. \A j \in 1..n : IsData(lines[j]) => j \in T
    OBVIOUS
<1> HIDE DEF T
<1>3. Min(T) \in T /\ \A j \in T : Min(T) <= j
    BY <1>1, MinProperties
<1> DEFINE m == Min(T)
<1>4. m \in 1..n /\ IsData(lines[m]) /\ m <= k /\ \A j \in T : m <= j
    BY <1>1, <1>3
<1> HIDE DEF m
<1>5. ASSUME k = m, NEW j \in 1..k-1, IsData(lines[j]) PROVE FALSE
    <2>1. j \in 1..n /\ j < k
        OBVIOUS
    <2>2. m <= j
        BY <1>2, <1>4, <1>5, <2>1
    <2> QED
        BY <1>4, <1>5, <2>1, <2>2
<1>6. ASSUME k # m PROVE \E j \in 1..k-1 : IsData(lines[j])
    <2>1. m \in 1..k-1
        BY <1>4, <1>6
    <2> QED
        BY <1>4, <2>1
<1>7. k = m <=> ~DataBefore(lines, k)
    BY <1>5, <1>6 DEF DataBefore
<1> QED
    BY <1>7 DEF m, T

(* What is passed on for a frame, line by line.                            *)
PassedLine(lines, slots, k) ==
    IF slots /\ IsData(lines[k])
    THEN IF DataBefore(lines, k) THEN <<>> ELSE <<Restored, LF>>
    ELSE lines[k].whole

LEMMA PassedPieces ==
    ASSUME NEW raw \in Seq(Tokens), HasLines(Tokens, raw, FrameLines(raw))
    PROVE  \E pieces \in Seq(Seq(Tokens)) :
               /\ Len(pieces) = Len(FrameLines(raw))
               /\ \A k \in 1..Len(pieces) :
                      pieces[k] = PassedLine(FrameLines(raw), HasSlots(raw), k)
               /\ FlattenSeq(pieces) = Passed(raw)
<1> DEFINE lines == FrameLines(raw)
           n == Len(lines)
           slots == HasSlots(raw)
           R == Seq(Tokens)
<1>1. /\ lines \in Seq(LineRecords(Tokens)) /\ FlattenSeq(Wholes(lines)) = raw
    BY DEF HasLines
<1>2. /\ DOMAIN lines = 1..n /\ n \in Nat
      /\ Wholes(lines) \in Seq(R) /\ Len(Wholes(lines)) = n
      /\ \A k \in 1..n : Wholes(lines)[k] = lines[k].whole /\ lines[k] \in LineRecords(Tokens)
    <2> HIDE DEF lines
    <2> QED
        BY <1>1, WholesAre
<1> HIDE DEF lines, n, slots
<1>3. CASE ~slots
    <2>1. Passed(raw) = raw
        BY <1>3 DEF Passed, slots
    <2>2. \A k \in 1..n : Wholes(lines)[k] = PassedLine(lines, slots, k)
        BY <1>2, <1>3 DEF PassedLine
    <2> HIDE DEF R
    <2> QED
        BY <1>1, <1>2, <2>1, <2>2 DEF lines, n, slots, R
<1>4. CASE slots
    <2> DEFINE first == Min({k \in DOMAIN lines : IsData(lines[k])})
               p == [k \in DOMAIN lines |->
                        IF k = first THEN <<Restored, LF>>
                        ELSE IF IsData(lines[k]) THEN <<>>
                        ELSE lines[k].whole]
    <2>1. Passed(raw) = FlattenSeq(p)
        BY <1>4 DEF Passed, RestoreFrameText, lines, slots
    <2>2. \E j \in 1..n : IsData(lines[j])
        <3>1. SUFFICES ASSUME \A j \in 1..n : ~IsData(lines[j]) PROVE FALSE
            OBVIOUS
        <3> DEFINE none == [k \in DOMAIN lines |->
                               IF IsData(lines[k]) THEN <<lines[k].content>> ELSE <<>>]
        <3>2. none = [k \in 1..n |-> <<>>]
            BY <1>2, <3>1
        <3>3. Payload(lines) = FlattenSeq(none)
            BY DEF Payload
        <3> HIDE DEF none
        <3>4. none \in Seq(Seq({0})) /\ Len(none) = n /\ \A k \in 1..n : none[k] = <<>>
            <4> DEFINE Q == Seq({0})
            <4>1. DOMAIN none = 1..n /\ none = [k \in 1..n |-> none[k]]
                  /\ \A k \in 1..n : none[k] = <<>>
                BY <3>2
            <4>2. <<>> \in Q
                BY EmptySeq
            <4> HIDE DEF Q
            <4>3. \A k \in 1..n : none[k] \in Q
                BY <4>1, <4>2
            <4>4. none \in Seq(Q) /\ Len(none) = n
                BY <1>2, <4>1, <4>3, FunctionIsSeq
            <4> QED
                BY <4>1, <4>4 DEF Q
        <3> DEFINE T == {k \in Nat : k <= n => FlattenTo(none, k) = <<>>}
        <3>5. 0 \in T
            BY DEF FlattenTo
        <3>6. ASSUME NEW k \in Nat, k \in T
              PROVE  k + 1 \in T
            <4>1. SUFFICES ASSUME k + 1 <= n PROVE FlattenTo(none, k + 1) = <<>>
                OBVIOUS
            <4>2. k + 1 \in 1..n /\ k + 1 \in 1..Len(none) /\ (k + 1) - 1 = k /\ k <= n
                BY <1>2, <3>4, <4>1
            <4>3. FlattenTo(none, k + 1) = FlattenTo(none, k) \o none[k + 1]
                BY <3>4, <4>2, FlattenToStep
            <4>4. FlattenTo(none, k) = <<>> /\ none[k + 1] = <<>>
                BY <3>4, <3>6, <4>2
            <4> QED
                BY <4>3, <4>4
        <3>7. n \in T
            <4> HIDE DEF T
            <4> QED
                BY <1>2, <3>5, <3>6, NatSetInduction
        <3>8. FlattenSeq(none) = <<>>
            BY <1>2, <3>4, <3>7, FlattenToEnds
        <3> QED
            BY <1>4, <3>3, <3>8, DataObjEmpty DEF HasSlots, slots, lines
    <2>3. \A k \in 1..n : IsData(lines[k]) => (k = first <=> ~DataBefore(lines, k))
        <3> SUFFICES ASSUME NEW k \in 1..n, IsData(lines[k])
                     PROVE  k = first <=> ~DataBefore(lines, k)
            OBVIOUS
        <3> QED
            BY <1>2, FirstData
    <2>4. IsData(lines[first]) /\ first \in 1..n
        <3> DEFINE T == {k \in DOMAIN lines : IsData(lines[k])}
        <3>1. T \subseteq Nat /\ T # {} /\ \A j \in T : IsData(lines[j]) /\ j \in 1..n
            BY <1>2, <2>2
        <3> HIDE DEF T
        <3>2. Min(T) \in T
            BY <3>1, MinProperties
        <3> QED
            BY <3>1, <3>2 DEF T
    <2> HIDE DEF first
    <2>5. /\ DOMAIN p = 1..n /\ p = [k \in 1..n |-> p[k]]
          /\ \A k \in 1..n : p[k] = IF k = first THEN <<Restored, LF>>
                                    ELSE IF IsData(lines[k]) THEN <<>>
                                    ELSE lines[k].whole
        BY <1>2
    <2> HIDE DEF p
    <2>6. ASSUME NEW k \in 1..n PROVE p[k] = PassedLine(lines, slots, k) /\ p[k] \in R
        <3>1. lines[k].whole \in R
            BY <1>2 DEF LineRecords
        <3>2. <<>> \in R /\ <<Restored, LF>> \in R
            BY EmptySeq DEF Tokens, Bytes
        <3>3. p[k] = IF IsData(lines[k])
                     THEN IF DataBefore(lines, k) THEN <<>> ELSE <<Restored, LF>>
                     ELSE lines[k].whole
            BY <2>3, <2>4, <2>5
        <3> HIDE DEF R
        <3>4. p[k] \in R
            BY <3>1, <3>2, <3>3, Zenon
        <3>5. p[k] = PassedLine(lines, slots, k)
            BY <1>4, <3>3, Zenon DEF PassedLine
        <3> QED
            BY <3>4, <3>5
    <2>7. p \in Seq(R) /\ Len(p) = n
        <3> HIDE DEF R
        <3> QED
            BY <1>2, <2>5, <2>6, FunctionIsSeq
    <2> HIDE DEF R
    <2> QED
        BY <2>1, <2>6, <2>7 DEF lines, n, slots, R
<1> QED
    BY <1>3, <1>4

-----------------------------------------------------------------------------

(* One more frame: the client of the stream passed on has one more of the  *)
(* same events, or none as the other client has none.                      *)
LEMMA FrameFollows ==
    ASSUME Sep \notin Bytes, Restored \notin {CR, LF},
           NEW x, NEW y, Follows(x, y), NEW raw \in Seq(Bytes), IsFrame(raw)
    PROVE  Follows(x \o raw, y \o Passed(raw))
<1> DEFINE lines == FrameLines(raw)
           n == Len(lines)
           slots == HasSlots(raw)
           events == Client(x).events
           restored == Client(y).events
           R == Seq(Tokens)
           Q == Seq(R)
           ws == Wholes(lines)
           c == [k \in DOMAIN lines |->
                    IF IsData(lines[k]) THEN <<lines[k].content>> ELSE <<>>]
<1>1. raw \in Seq(Tokens) /\ WellEnded(raw) /\ FrameEnd(raw) \in {0, Len(raw)}
    BY BytesAreTokens DEF IsFrame
<1>2. Plain(raw, {CR, LF, Sep})
    <2>1. \A k \in 1..Len(raw) : raw[k] \in Bytes
        OBVIOUS
    <2> QED
        BY <2>1 DEF Plain
<1>3. HasLines(Tokens, raw, lines)
    BY <1>1, <1>2, LinesOfText DEF FrameLines
<1>4. OnlyLastBlank(raw, lines)
    <2>1. Quiet(raw)
        BY <1>1, FrameIsQuiet
    <2> QED
        BY <1>1, <1>2, <2>1, QuietLines DEF FrameLines
<1>5. n \in Nat \ {0} /\ lines[n].content = <<>> /\ Complete(lines[n].whole)
    <2> HIDE DEF lines
    <2> QED
        BY <1>1, <1>3, LastLineBlank
<1>6. PICK pieces \in Seq(Seq(Tokens)) :
          /\ Len(pieces) = n
          /\ \A k \in 1..Len(pieces) : pieces[k] = PassedLine(lines, slots, k)
          /\ FlattenSeq(pieces) = Passed(raw)
    BY <1>1, <1>3, PassedPieces
<1>7. slots \in BOOLEAN /\ (slots <=> DataObj(FlattenSeq(c)) = "text")
    BY DEF HasSlots, Payload
<1> HIDE DEF lines, n, slots, events, restored
<1>8. /\ DOMAIN lines = 1..n /\ ws \in Seq(R) /\ Len(ws) = n /\ FlattenSeq(ws) = raw
      /\ \A k \in 1..n : ws[k] = lines[k].whole /\ lines[k] \in LineRecords(Tokens)
    <2>1. lines \in Seq(LineRecords(Tokens)) /\ FlattenSeq(ws) = raw
        BY <1>3 DEF HasLines
    <2> QED
        BY <2>1, WholesAre DEF n
<1>9. ASSUME NEW k \in 1..n
      PROVE  /\ IsLine(Tokens, lines[k]) /\ Complete(lines[k].whole)
             /\ lines[k].content \in R /\ lines[k].whole \in R
    <2>1. IsLine(Tokens, lines[k])
        BY <1>3 DEF HasLines, n
    <2>2. k # n => k \in 1..n-1
        BY <1>5
    <2>3. Complete(lines[k].whole)
        BY <1>3, <1>5, <2>2 DEF HasLines, n
    <2> QED
        BY <1>8, <2>1, <2>3 DEF LineRecords
<1>10. ASSUME NEW k \in 2..n-1 PROVE lines[k].content # <<>>
    <2>1. k \in 2..n /\ k # n
        BY <1>5
    <2> QED
        BY <1>4, <2>1 DEF OnlyLastBlank, n
<1>11. c \in Seq(Q) /\ Len(c) = n /\ \A k \in 1..n : c[k] = Collected(lines[k]) /\ c[k] \in Q
    <2>1. DOMAIN c = 1..n /\ c = [k \in 1..n |-> c[k]]
          /\ \A k \in 1..n : c[k] = Collected(lines[k])
        BY <1>8 DEF Collected
    <2>2. ASSUME NEW k \in 1..n PROVE Collected(lines[k]) \in Q
        <3> DEFINE l == lines[k].content
        <3>1. l \in R
            BY <1>9
        <3> HIDE DEF R, l
        <3>2. <<l>> \in Seq(R) /\ <<>> \in Seq(R)
            BY <3>1, EmptySeq
        <3> QED
            BY <3>2 DEF Collected, l
    <2> HIDE DEF c, Q
    <2>3. \A k \in 1..n : c[k] \in Q
        BY <2>1, <2>2
    <2>4. n \in Nat
        BY <1>5
    <2>5. c \in Seq(Q) /\ Len(c) = n
        BY <2>1, <2>3, <2>4, FunctionIsSeq
    <2> QED
        BY <2>1, <2>3, <2>5
<1> HIDE DEF c, ws
<1> DEFINE X(k) == x \o FlattenTo(ws, k)
           Y(k) == y \o FlattenTo(pieces, k)
           P(k) == FlattenTo(c, k)
           J(k) == /\ Tracks(X(k), Y(k), events, restored, slots, P(k))
                   /\ P(k) \in Q
                   /\ P(k) = <<>> <=> \A j \in 1..k : ~IsData(lines[j])
<1>12. x \in R /\ y \in R /\ restored = RestoredEvents(events)
    BY DEF Follows, events, restored
<1>13. ASSUME NEW k \in 1..n
       PROVE  /\ X(k) = X(k-1) \o lines[k].whole
              /\ Y(k) = Y(k-1) \o pieces[k]
              /\ P(k) = P(k-1) \o Collected(lines[k])
              /\ FlattenTo(ws, k-1) \in R /\ FlattenTo(pieces, k-1) \in R
    <2>1. k \in 1..Len(ws) /\ k \in 1..Len(pieces) /\ k \in 1..Len(c)
        BY <1>6, <1>8, <1>11
    <2>2. /\ ws[k] \in R /\ FlattenTo(ws, k-1) \in R
          /\ FlattenTo(ws, k) = FlattenTo(ws, k-1) \o ws[k]
        BY <1>8, <2>1, FlattenToStep
    <2>3. /\ pieces[k] \in R /\ FlattenTo(pieces, k-1) \in R
          /\ FlattenTo(pieces, k) = FlattenTo(pieces, k-1) \o pieces[k]
        BY <2>1, FlattenToStep
    <2>4. P(k) = P(k-1) \o c[k]
        <3>1. c \in Seq(Seq(R))
            BY <1>11
        <3> HIDE DEF R
        <3> QED
            BY <2>1, <3>1, FlattenToStep
    <2> DEFINE f == FlattenTo(ws, k-1)
               g == FlattenTo(pieces, k-1)
               u == ws[k]
               v == pieces[k]
    <2>5. f \in R /\ g \in R /\ ws[k] \in R /\ pieces[k] \in R /\ x \in R /\ y \in R
        BY <1>12, <2>2, <2>3
    <2>6. x \o (f \o u) = (x \o f) \o u
        <3>1. x \in Seq(Tokens) /\ f \in Seq(Tokens) /\ u \in Seq(Tokens)
            BY <2>5
        <3> HIDE DEF f, u
        <3> QED
            BY ONLY <3>1, ConcatAssociative, SMTT(60)
    <2>7. y \o (g \o v) = (y \o g) \o v
        <3>1. y \in Seq(Tokens) /\ g \in Seq(Tokens) /\ v \in Seq(Tokens)
            BY <2>5
        <3> HIDE DEF g, v
        <3> QED
            BY ONLY <3>1, ConcatAssociative, SMTT(60)
    <2>8. X(k) = X(k-1) \o lines[k].whole
        BY <1>8, <2>2, <2>6
    <2>9. Y(k) = Y(k-1) \o pieces[k]
        BY <2>3, <2>7
    <2> HIDE DEF X, Y, R
    <2> QED
        BY <1>11, <2>2, <2>3, <2>4, <2>8, <2>9
<1>14. X(0) = x /\ Y(0) = y /\ P(0) = <<>>
    BY <1>12, ConcatEmptySeq DEF FlattenTo
<1>15. J(0)
    <2>1. Tracks(x, y, events, restored, slots, <<>>)
        BY DEF Follows, Between, Tracks, events, restored
    <2>2. <<>> \in Q /\ 1..0 = {}
        BY EmptySeq
    <2> HIDE DEF X, Y, P, Q
    <2> QED
        BY <1>14, <2>1, <2>2
<1>16. ASSUME NEW k \in 1..n, J(k-1)
       PROVE  pieces[k] = Piece(lines[k], slots, P(k-1))
    <2>1. pieces[k] = PassedLine(lines, slots, k)
        BY <1>6
    <2>2. P(k-1) = <<>> <=> ~DataBefore(lines, k)
        BY <1>16 DEF DataBefore
    <2> HIDE DEF P
    <2> QED
        BY <2>1, <2>2 DEF PassedLine, Piece
<1> HIDE DEF X, Y, P
<1>17. ASSUME NEW k \in Nat, k + 1 <= n - 1, J(k)
       PROVE  J(k + 1)
    <2> DEFINE line == lines[k+1]
    <2>1. k + 1 \in 1..n /\ (k + 1) - 1 = k /\ (k # 0 => k + 1 \in 2..n-1)
        BY <1>5, <1>17
    <2>2. IsLine(Tokens, line) /\ Complete(line.whole) /\ line.content \in R
        BY <1>9, <2>1
    <2>3. /\ X(k+1) = X(k) \o line.whole
          /\ Y(k+1) = Y(k) \o pieces[k+1]
          /\ P(k+1) = P(k) \o Collected(line)
        BY <1>13, <2>1
    <2>4. pieces[k+1] = Piece(line, slots, P(k))
        BY <1>16, <1>17, <2>1
    <2>5. P(k) \in Q
        BY <1>17
    <2>6. P(k+1) \in Q /\ (P(k+1) = <<>> <=> P(k) = <<>> /\ ~IsData(line))
        <3> DEFINE l == line.content
        <3>1. l \in R
            BY <2>2
        <3> HIDE DEF R, l
        <3>2. /\ P(k) \o <<l>> \in Seq(R) /\ P(k) \o <<l>> # <<>>
              /\ P(k) \o <<>> = P(k)
            <4>1. P(k) \in Seq(R)
                BY <2>5
            <4>2. Append(P(k), l) = P(k) \o <<l>>
                BY <3>1, <4>1, AppendIsConcat
            <4>3. Append(P(k), l) \in Seq(R) /\ Append(P(k), l) # <<>>
                BY <3>1, <4>1, AppendProperties
            <4>4. P(k) \o <<>> = P(k)
                BY <4>1, ConcatEmptySeq
            <4> QED
                BY <4>2, <4>3, <4>4, Zenon
        <3>3. CASE IsData(line)
            <4>1. P(k+1) = P(k) \o <<l>>
                BY <2>3, <3>3 DEF Collected, l
            <4> QED
                BY <3>2, <3>3, <4>1, Zenon
        <3>4. CASE ~IsData(line)
            <4>1. P(k+1) = P(k)
                BY <2>3, <3>2, <3>4 DEF Collected
            <4> QED
                BY <2>5, <3>4, <4>1, Zenon
        <3> QED
            BY <3>3, <3>4
    <2>7. (\A j \in 1..k+1 : ~IsData(lines[j])) <=> (\A j \in 1..k : ~IsData(lines[j])) /\ ~IsData(line)
        <3>1. \A j \in 1..k+1 : j \in 1..k \/ j = k + 1
            OBVIOUS
        <3>2. k + 1 \in 1..k+1 /\ \A j \in 1..k : j \in 1..k+1
            OBVIOUS
        <3> QED
            BY <3>1, <3>2
    <2>8. Tracks(X(k+1), Y(k+1), events, restored, slots, P(k+1))
        <3>1. Tracks(X(k), Y(k), events, restored, slots, P(k))
            BY <1>17
        <3>2. CASE line.content # <<>>
            <4>1. P(k) \in Seq(Seq(Tokens))
                BY <2>5
            <4> HIDE DEF line
            <4>2. Tracks(X(k) \o line.whole, Y(k) \o Piece(line, slots, P(k)), events, restored,
                         slots, P(k) \o Collected(line))
                BY <1>7, <2>2, <3>1, <3>2, <4>1, TracksLine
            <4> QED
                BY <2>3, <2>4, <4>2, Zenon
        <3>3. CASE line.content = <<>>
            <4>1. k = 0
                BY <1>10, <2>1, <3>3
            <4>2. ~IsData(line)
                BY <3>3 DEF IsData
            <4>3. X(k) = x /\ Y(k) = y /\ P(k) = <<>>
                BY <1>14, <4>1
            <4>4. pieces[k+1] = line.whole /\ Collected(line) = <<>>
                BY <2>4, <4>2 DEF Piece, Collected
            <4>5. P(k+1) = <<>>
                BY <2>3, <4>3, <4>4
            <4>6. X(k+1) = x \o line.whole /\ Y(k+1) = y \o line.whole
                BY <2>3, <4>3, <4>4
            <4> HIDE DEF line
            <4>7. /\ Follows(x \o line.whole, y \o line.whole)
                  /\ Client(x \o line.whole) = Client(x)
                  /\ Client(y \o line.whole) = Client(y)
                BY <1>7, <2>2, <3>3, TracksBlank
            <4>8. Tracks(x \o line.whole, y \o line.whole, events, restored, slots, <<>>)
                BY <4>7 DEF Follows, Between, Tracks, events, restored
            <4> QED
                BY <4>5, <4>6, <4>8
        <3> QED
            BY <3>2, <3>3
    <2> QED
        BY <1>17, <2>6, <2>7, <2>8, Zenon
<1> DEFINE T == {k \in Nat : k <= n - 1 => J(k)}
<1>18. 0 \in T
    BY <1>15
<1>19. ASSUME NEW k \in Nat, k \in T PROVE k + 1 \in T
    <2>1. k + 1 <= n - 1 => k <= n - 1
        BY <1>5
    <2> HIDE DEF J
    <2> QED
        BY <1>17, <1>19, <2>1
<1>20. J(n - 1)
    <2>1. n - 1 \in Nat
        BY <1>5
    <2>2. n - 1 \in T
        <3> HIDE DEF T
        <3> QED
            BY <1>18, <1>19, <2>1, NatSetInduction
    <2> HIDE DEF J
    <2> QED
        BY <2>1, <2>2
<1>21. n \in 1..n
    BY <1>5
<1>22. ~IsData(lines[n])
    BY <1>5 DEF IsData
<1>23. pieces[n] = lines[n].whole
    BY <1>16, <1>20, <1>21, <1>22 DEF Piece
<1>24. /\ X(n) = X(n-1) \o lines[n].whole
       /\ Y(n) = Y(n-1) \o lines[n].whole
       /\ P(n) = P(n-1) \o Collected(lines[n])
    BY <1>13, <1>21, <1>23
<1>25. P(n) = P(n-1)
    <2>1. Collected(lines[n]) = <<>> /\ P(n-1) \in Seq(R)
        BY <1>20, <1>22 DEF Collected
    <2> HIDE DEF R
    <2> QED
        BY <1>24, <2>1, ConcatEmptySeq
<1>26. X(n) = x \o raw /\ Y(n) = y \o Passed(raw) /\ P(n) = FlattenSeq(c)
    <2>1. FlattenTo(ws, n) = raw
        BY <1>8, FlattenToEnds
    <2>2. FlattenTo(pieces, n) = Passed(raw)
        BY <1>6, FlattenToEnds
    <2>3. FlattenTo(c, n) = FlattenSeq(c)
        <3>1. c \in Seq(Seq(R)) /\ Len(c) = n
            BY <1>11
        <3> HIDE DEF R
        <3>2. FlattenTo(c, Len(c)) = FlattenSeq(c)
            BY <3>1, FlattenToEnds
        <3> QED
            BY <3>1, <3>2
    <2> QED
        BY <2>1, <2>2, <2>3 DEF X, Y, P
<1>27. slots <=> DataObj(P(n-1)) = "text"
    BY <1>7, <1>25, <1>26
<1>28. Follows(X(n-1) \o lines[n].whole, Y(n-1) \o lines[n].whole)
    <2>1. Tracks(X(n-1), Y(n-1), events, restored, slots, P(n-1)) /\ P(n-1) \in Seq(Seq(Tokens))
        BY <1>20
    <2>2. IsLine(Tokens, lines[n]) /\ lines[n].content = <<>> /\ Complete(lines[n].whole)
        BY <1>5, <1>9, <1>21
    <2> DEFINE line == lines[n]
               p == P(n-1)
               a == X(n-1)
               b == Y(n-1)
    <2>3. /\ Tracks(a, b, events, restored, slots, p) /\ p \in Seq(Seq(Tokens))
          /\ IsLine(Tokens, line) /\ line.content = <<>> /\ Complete(line.whole)
          /\ (slots <=> DataObj(p) = "text") /\ restored = RestoredEvents(events)
          /\ slots \in BOOLEAN
        BY <1>7, <1>12, <1>27, <2>1, <2>2
    <2> HIDE DEF line, p, a, b
    <2>4. Follows(a \o line.whole, b \o line.whole)
        BY <2>3, TracksEnd
    <2> QED
        BY <2>4 DEF line, a, b
<1> QED
    BY <1>24, <1>26, <1>28

-----------------------------------------------------------------------------

(* What is held of a frame that is not complete makes no event.            *)
LEMMA BufferSilent ==
    ASSUME NEW x \in Seq(Tokens), Complete(x), Between(Client(x)),
           NEW held \in Seq(Bytes), WellEnded(held), FrameEnd(held) = 0
    PROVE  Client(x \o held).events = Client(x).events
<1> DEFINE lines == Lines(held, Ends)
           n == Len(lines)
           ws == Wholes(lines)
           events == Client(x).events
           R == Seq(Tokens)
           X(k) == x \o FlattenTo(ws, k)
           J(k) == /\ X(k) \in R
                   /\ Client(X(k)).events = events
                   /\ k = 0 => Between(Client(X(k)))
                   /\ k < n => Complete(X(k))
           T == {k \in Nat : k <= n => J(k)}
<1>1. held \in Seq(Tokens) /\ Plain(held, Ends) /\ Quiet(held)
    BY BytesAreTokens, FrameIsQuiet DEF Plain, Ends
<1>2. HasLines(Tokens, held, lines) /\ OnlyLastBlank(held, lines)
    BY <1>1, LinesOfText, QuietLines
<1>3. \A i \in 1..Len(held) : \A e \in i+1..Len(held) : ~IsSplit(held, i, e)
    BY <1>1, SplitMakesFrame
<1> HIDE DEF lines
<1>4. /\ n \in Nat /\ ws \in Seq(R) /\ Len(ws) = n /\ FlattenSeq(ws) = held
      /\ \A k \in 1..n : ws[k] = lines[k].whole /\ lines[k] \in LineRecords(Tokens)
    <2>1. lines \in Seq(LineRecords(Tokens)) /\ FlattenSeq(ws) = held
        BY <1>2 DEF HasLines
    <2> QED
        BY <2>1, WholesAre
<1>5. \A k \in 2..n : lines[k].content # <<>>
    BY <1>2, <1>3 DEF OnlyLastBlank
<1> HIDE DEF n, ws, events
<1>6. 0 \in T
    <2>1. X(0) = x
        BY ConcatEmptySeq DEF FlattenTo
    <2> QED
        BY <2>1 DEF events
<1>7. ASSUME NEW k \in Nat, k \in T
      PROVE  k + 1 \in T
    <2>1. SUFFICES ASSUME k + 1 <= n PROVE J(k + 1)
        <3> HIDE DEF J
        <3> QED
            OBVIOUS
    <2> DEFINE line == lines[k+1]
               a == FlattenTo(ws, k)
               w == line.whole
    <2>2. k + 1 \in 1..n /\ (k + 1) - 1 = k /\ k < n /\ k <= n /\ (k # 0 => k + 1 \in 2..n)
          /\ (k + 1 < n => k + 1 \in 1..n-1)
        BY <1>4, <2>1
    <2>3. /\ X(k) \in R /\ Client(X(k)).events = events /\ Complete(X(k))
          /\ k = 0 => Between(Client(X(k)))
        BY <1>7, <2>2
    <2>4. IsLine(Tokens, line) /\ (k + 1 < n => Complete(w)) /\ line \in LineRecords(Tokens)
        BY <1>2, <1>4, <2>2 DEF HasLines, n
    <2>5. w \in R
        BY <2>4 DEF LineRecords
    <2>6. FlattenTo(ws, k+1) = a \o w /\ a \in R
        <3>1. k + 1 \in 1..Len(ws)
            BY <1>4, <2>2
        <3>2. /\ FlattenTo(ws, (k+1)-1) \in R
              /\ FlattenTo(ws, k+1) = FlattenTo(ws, (k+1)-1) \o ws[k+1]
            BY <1>4, <3>1, FlattenToStep
        <3> QED
            BY <1>4, <2>2, <3>2
    <2>7. X(k+1) = X(k) \o w
        <3>1. x \in Seq(Tokens) /\ a \in Seq(Tokens) /\ w \in Seq(Tokens)
            BY <2>5, <2>6
        <3>2. x \o (a \o w) = (x \o a) \o w
            <4> HIDE DEF a, w
            <4> QED
                BY ONLY <3>1, ConcatAssociative, SMTT(60)
        <3> QED
            BY <2>6, <3>2
    <2> HIDE DEF X, a, w, line
    <2>8. X(k) \in Seq(Tokens) /\ w \in Seq(Tokens)
        BY <2>3, <2>5
    <2>9. Client(X(k) \o w) = Heard(Client(X(k)), line)
        BY <2>3, <2>4, <2>8, ClientSnoc DEF w
    <2>10. Client(X(k)) \in Clients(Tokens)
        BY <2>8, ClientType
    <2>11. Client(X(k+1)).events = events
        <3> DEFINE C == Client(X(k))
        <3>1. C \in Clients(Tokens) /\ line \in LineRecords(Tokens) /\ C.events = events
            BY <2>3, <2>4, <2>10
        <3>2. Client(X(k+1)) = Heard(C, line)
            BY <2>7, <2>9
        <3>3. line.content = <<>> => C.others = <<>> /\ C.data = <<>>
            BY <1>5, <2>2, <2>3 DEF Between, line
        <3> HIDE DEF C
        <3>4. CASE IsData(line)
            <4> DEFINE d == Append(C.data, line.content)
            <4>1. Heard(C, line) = [events |-> C.events, others |-> C.others, data |-> d]
                BY <3>1, <3>4, HeardCases
            <4> HIDE DEF d
            <4> QED
                BY <3>1, <3>2, <4>1
        <3>5. CASE line.content # <<>> /\ ~IsData(line)
            <4> DEFINE d == Append(C.others, line)
            <4>1. Heard(C, line) = [events |-> C.events, others |-> d, data |-> C.data]
                BY <3>1, <3>5, HeardCases
            <4> HIDE DEF d
            <4> QED
                BY <3>1, <3>2, <4>1
        <3>6. CASE line.content = <<>>
            BY <3>1, <3>2, <3>3, <3>6, HeardCases
        <3> QED
            BY <3>4, <3>5, <3>6
    <2>12. X(k+1) \in R
        <3>1. X(k) \o w \in Seq(Tokens)
            BY <2>8, ConcatProperties
        <3> QED
            BY <2>7, <3>1
    <2>13. k + 1 < n => Complete(X(k+1))
        BY <2>3, <2>4, <2>7, <2>8, CompleteConcat
    <2>14. k + 1 # 0
        OBVIOUS
    <2> QED
        BY <2>11, <2>12, <2>13, <2>14, Zenon
<1>8. n \in T
    <2> HIDE DEF T
    <2> QED
        BY <1>4, <1>6, <1>7, NatSetInduction
<1>9. X(n) = x \o held
    <2>1. FlattenTo(ws, n) = held
        BY <1>4, FlattenToEnds
    <2> QED
        BY <2>1
<1>10. Client(X(n)).events = events
    <2> HIDE DEF X
    <2> QED
        BY <1>4, <1>8
<1> HIDE DEF X
<1> QED
    BY <1>9, <1>10 DEF events

-----------------------------------------------------------------------------

LEMMA PassedType ==
    ASSUME NEW raw \in Seq(Bytes)
    PROVE  Passed(raw) \in Seq(Tokens)
<1> DEFINE lines == FrameLines(raw)
           n == Len(lines)
           R == Seq(Tokens)
           first == Min({k \in DOMAIN lines : IsData(lines[k])})
           p == [k \in DOMAIN lines |->
                    IF k = first THEN <<Restored, LF>>
                    ELSE IF IsData(lines[k]) THEN <<>>
                    ELSE lines[k].whole]
<1>1. raw \in Seq(Tokens)
    BY BytesAreTokens
<1>2. lines \in Seq(LineRecords(Tokens))
    BY <1>1, LinesType DEF FrameLines
<1>3. Passed(raw) = IF HasSlots(raw) THEN FlattenSeq(p) ELSE raw
    BY DEF Passed, RestoreFrameText
<1> HIDE DEF lines
<1>4. /\ DOMAIN lines = 1..n /\ n \in Nat
      /\ \A k \in 1..n : lines[k] \in LineRecords(Tokens)
    BY <1>2, WholesAre
<1> HIDE DEF n, first
<1>5. ASSUME NEW k \in 1..n PROVE p[k] \in R
    <2>1. lines[k].whole \in R
        BY <1>4 DEF LineRecords
    <2>2. <<>> \in R /\ <<Restored, LF>> \in R
        BY EmptySeq DEF Tokens, Bytes
    <2>3. p[k] = IF k = first THEN <<Restored, LF>>
                 ELSE IF IsData(lines[k]) THEN <<>> ELSE lines[k].whole
        BY <1>4
    <2> HIDE DEF p, R
    <2> QED
        BY <2>1, <2>2, <2>3, Zenon
<1>6. DOMAIN p = 1..n /\ p = [k \in 1..n |-> p[k]]
    BY <1>4
<1> HIDE DEF p
<1>7. p \in Seq(R)
    <2> HIDE DEF R
    <2> QED
        BY <1>4, <1>5, <1>6, FunctionIsSeq
<1>8. FlattenSeq(p) \in Seq(Tokens)
    BY <1>7, FlattenSeqType
<1> QED
    BY <1>1, <1>3, <1>8

PassedEach(popped) == [k \in DOMAIN popped |-> Passed(popped[k])]

LEMMA PassedEachType ==
    ASSUME NEW popped \in Seq(Seq(Bytes))
    PROVE  /\ PassedEach(popped) \in Seq(Seq(Tokens))
           /\ Len(PassedEach(popped)) = Len(popped)
           /\ \A k \in 1..Len(popped) :
                  popped[k] \in Seq(Bytes) /\ PassedEach(popped)[k] = Passed(popped[k])
<1> DEFINE n == Len(popped)
           B == Seq(Bytes)
           R == Seq(Tokens)
           p == PassedEach(popped)
<1>1. DOMAIN popped = 1..n /\ n \in Nat /\ \A k \in 1..n : popped[k] \in B
    <2>1. popped \in Seq(B)
        OBVIOUS
    <2> HIDE DEF B
    <2> QED
        BY <2>1
<1>2. ASSUME NEW k \in 1..n PROVE Passed(popped[k]) \in R
    BY <1>1, PassedType
<1> HIDE DEF n
<1>3. DOMAIN p = 1..n /\ p = [k \in 1..n |-> p[k]] /\ \A k \in 1..n : p[k] = Passed(popped[k])
    BY <1>1 DEF PassedEach
<1> HIDE DEF p, R
<1>4. \A k \in 1..n : p[k] \in R
    BY <1>2, <1>3
<1>5. p \in Seq(R) /\ Len(p) = n
    BY <1>1, <1>3, <1>4, FunctionIsSeq
<1> QED
    BY <1>1, <1>3, <1>5 DEF p, R, n

LEMMA PassedAllConcat ==
    ASSUME NEW f \in Seq(Seq(Bytes)), NEW g \in Seq(Seq(Bytes))
    PROVE  PassedAll(f \o g) = PassedAll(f) \o PassedAll(g)
<1> DEFINE B == Seq(Bytes)
           R == Seq(Tokens)
           both == f \o g
           n == Len(f)
           m == Len(g)
           pf == PassedEach(f)
           pg == PassedEach(g)
           pb == PassedEach(both)
<1>1. /\ both \in Seq(B) /\ n \in Nat /\ m \in Nat /\ Len(both) = n + m
      /\ \A k \in 1..n+m : both[k] = IF k <= n THEN f[k] ELSE g[k-n]
    <2>1. f \in Seq(B) /\ g \in Seq(B)
        OBVIOUS
    <2> HIDE DEF B
    <2> QED
        BY <2>1, ConcatProperties
<1> HIDE DEF both
<1>2. pf \in Seq(R) /\ Len(pf) = n /\ \A k \in 1..n : pf[k] = Passed(f[k])
    BY PassedEachType
<1>3. pg \in Seq(R) /\ Len(pg) = m /\ \A k \in 1..m : pg[k] = Passed(g[k])
    BY PassedEachType
<1>4. pb \in Seq(R) /\ Len(pb) = n + m /\ \A k \in 1..n+m : pb[k] = Passed(both[k])
    BY <1>1, PassedEachType
<1>5. /\ PassedAll(f) = FlattenSeq(pf) /\ PassedAll(g) = FlattenSeq(pg)
      /\ PassedAll(both) = FlattenSeq(pb)
    BY DEF PassedAll, PassedEach
<1> HIDE DEF pf, pg, pb, n, m
<1>6. FlattenSeq(pf \o pg) = FlattenSeq(pf) \o FlattenSeq(pg)
    BY <1>2, <1>3, FlattenSeqConcat
<1> HIDE DEF R
<1>7. /\ pf \o pg \in Seq(R) /\ Len(pf \o pg) = n + m
      /\ \A k \in 1..n+m : (pf \o pg)[k] = IF k <= n THEN pf[k] ELSE pg[k-n]
    BY <1>2, <1>3, ConcatProperties
<1>8. ASSUME NEW k \in 1..n+m PROVE pb[k] = (pf \o pg)[k]
    <2>1. CASE k <= n
        <3>1. k \in 1..n
            BY <1>1, <2>1
        <3>2. both[k] = f[k] /\ (pf \o pg)[k] = pf[k]
            BY <1>1, <1>7, <2>1
        <3>3. pb[k] = Passed(both[k]) /\ pf[k] = Passed(f[k])
            BY <1>4, <1>2, <3>1
        <3> QED
            BY <3>2, <3>3
    <2>2. CASE ~(k <= n)
        <3>1. k - n \in 1..m
            BY <1>1, <2>2
        <3>2. both[k] = g[k-n] /\ (pf \o pg)[k] = pg[k-n]
            BY <1>1, <1>7, <2>2
        <3>3. pb[k] = Passed(both[k]) /\ pg[k-n] = Passed(g[k-n])
            BY <1>4, <1>3, <3>1
        <3> QED
            BY <3>2, <3>3
    <2> QED
        BY <2>1, <2>2
<1>9. pb = pf \o pg
    BY <1>4, <1>7, <1>8, SeqEqual
<1> QED
    BY <1>5, <1>6, <1>9 DEF both

(* A stream of frames, frame by frame.                                     *)
LEMMA StreamFollows ==
    ASSUME Sep \notin Bytes, Restored \notin {CR, LF},
           NEW popped \in Seq(Seq(Bytes)), \A k \in 1..Len(popped) : IsFrame(popped[k])
    PROVE  Follows(FlattenSeq(popped), PassedAll(popped))
<1> DEFINE n == Len(popped)
           p == PassedEach(popped)
           X(k) == FlattenTo(popped, k)
           Y(k) == FlattenTo(p, k)
           T == {k \in Nat : k <= n => Follows(X(k), Y(k))}
<1>1. /\ p \in Seq(Seq(Tokens)) /\ Len(p) = n
      /\ \A k \in 1..n : popped[k] \in Seq(Bytes) /\ p[k] = Passed(popped[k])
    BY PassedEachType
<1>2. n \in Nat
    <2> DEFINE B == Seq(Bytes)
    <2>1. popped \in Seq(B)
        OBVIOUS
    <2> HIDE DEF B
    <2> QED
        BY <2>1
<1>3. PassedAll(popped) = FlattenSeq(p)
    BY DEF PassedAll, PassedEach
<1> HIDE DEF p
<1>4. Follows(<<>>, <<>>)
    <2>1. Client(<<>>) = Silent
        BY ClientNone
    <2>2. Silent.events = <<>> /\ Silent.others = <<>> /\ Silent.data = <<>>
        BY DEF Silent
    <2>3. RestoredEvents(<<>>) = <<>>
        BY DEF RestoredEvents
    <2>4. <<>> \in Seq(Tokens) /\ Complete(<<>>)
        BY EmptySeq DEF Complete
    <2> QED
        BY <2>1, <2>2, <2>3, <2>4 DEF Follows, Between
<1>5. 0 \in T
    BY <1>4 DEF FlattenTo
<1>6. ASSUME NEW k \in Nat, k \in T
      PROVE  k + 1 \in T
    <2>1. SUFFICES ASSUME k + 1 <= n PROVE Follows(X(k + 1), Y(k + 1))
        OBVIOUS
    <2>2. k + 1 \in 1..n /\ (k + 1) - 1 = k /\ k <= n /\ k + 1 \in 1..Len(p)
        BY <1>1, <1>2, <2>1
    <2>3. X(k + 1) = X(k) \o popped[k + 1]
        <3>1. FlattenTo(popped, k+1) = FlattenTo(popped, (k+1)-1) \o popped[k+1]
            BY <2>2, FlattenToStep
        <3> QED
            BY <2>2, <3>1
    <2>4. Y(k + 1) = Y(k) \o p[k + 1]
        <3>1. FlattenTo(p, k+1) = FlattenTo(p, (k+1)-1) \o p[k+1]
            BY <1>1, <2>2, FlattenToStep
        <3> QED
            BY <2>2, <3>1
    <2>5. Follows(X(k), Y(k))
        BY <1>6, <2>2
    <2> HIDE DEF X, Y
    <2>6. popped[k+1] \in Seq(Bytes) /\ IsFrame(popped[k+1]) /\ p[k+1] = Passed(popped[k+1])
        BY <1>1, <2>2
    <2>7. Follows(X(k) \o popped[k+1], Y(k) \o Passed(popped[k+1]))
        BY <2>5, <2>6, FrameFollows
    <2> QED
        BY <2>3, <2>4, <2>6, <2>7
<1>7. n \in T
    <2> HIDE DEF T
    <2> QED
        BY <1>2, <1>5, <1>6, NatSetInduction
<1>8. X(n) = FlattenSeq(popped) /\ Y(n) = FlattenSeq(p)
    BY <1>1, FlattenToEnds
<1> HIDE DEF X, Y
<1>9. Follows(X(n), Y(n))
    BY <1>2, <1>7
<1> QED
    BY <1>3, <1>8, <1>9

-----------------------------------------------------------------------------

(* What was passed on is what the frames that were popped become.          *)
OutIsPassed == out = PassedAll(frames)

LEMMA OutInit == Init => OutIsPassed
<1> SUFFICES ASSUME Init PROVE OutIsPassed
    OBVIOUS
<1>1. frames = <<>> /\ out = <<>>
    BY DEF Init
<1>2. PassedEach(<<>>) = <<>>
    BY DEF PassedEach
<1>3. PassedAll(<<>>) = FlattenSeq(<<>>)
    BY <1>2 DEF PassedAll, PassedEach
<1>4. FlattenSeq(<<>>) = <<>>
    BY EmptySeq, FlattenSeqIs
<1> QED
    BY <1>1, <1>3, <1>4 DEF OutIsPassed

LEMMA OutNext == IInv /\ OutIsPassed /\ [Next]_vars => OutIsPassed'
<1> SUFFICES ASSUME IInv, OutIsPassed, [Next]_vars PROVE OutIsPassed'
    OBVIOUS
<1>1. ASSUME NEW chunk \in Chunks, Feed(chunk) PROVE OutIsPassed'
    <2> DEFINE more == DrainComplete(buf \o chunk).frames
    <2>1. frames' = frames \o more /\ out' = out \o PassedAll(more)
        BY <1>1 DEF Feed
    <2>2. frames \in Seq(Seq(Bytes)) /\ buf \in Seq(Bytes)
        BY DrainProperties DEF IInv, Drained
    <2>3. buf \o chunk \in Seq(Bytes)
        BY <2>2, ChunkType, ConcatProperties
    <2>4. more \in Seq(Seq(Bytes))
        BY <2>3, DrainProperties DEF Drained
    <2> HIDE DEF more
    <2>5. PassedAll(frames \o more) = PassedAll(frames) \o PassedAll(more)
        BY <2>2, <2>4, PassedAllConcat
    <2> QED
        BY <2>1, <2>5 DEF OutIsPassed
<1>2. CASE End
    BY <1>2 DEF End, OutIsPassed
<1>3. CASE UNCHANGED vars
    BY <1>3 DEF vars, OutIsPassed
<1> QED
    BY <1>1, <1>2, <1>3 DEF Next

LEMMA OutInvariant == Spec => []OutIsPassed
BY FramingInvariant, OutInit, OutNext, PTL DEF Spec

LEMMA ClientSeesState ==
    ASSUME Sep \notin Bytes, Restored \notin {CR, LF}, IInv, OutIsPassed
    PROVE  ClientSees
<1> SUFFICES ASSUME LinesWellEnded
             PROVE  ClientEvents(out) = RestoredEvents(ClientEvents(received))
    BY DEF ClientSees
<1>1. received \in Seq(Bytes) /\ WellEnded(received)
    <2>1. received \in Seq(Bytes) /\ DOMAIN received = 1..Len(received)
        BY DEF IInv
    <2> QED
        BY <2>1 DEF LinesWellEnded, WellEnded
<1>2. /\ frames \in Seq(Seq(Bytes)) /\ buf \in Seq(Bytes) /\ FrameEnd(buf) = 0
      /\ FlattenSeq(frames) \o buf = received
    BY <1>1, DrainProperties DEF IInv, Drained
<1>3. (\A k \in 1..Len(frames) : IsFrame(frames[k])) /\ WellEnded(buf)
    BY <1>1, FramesOfStream DEF IInv, FramesWellEnded
<1>4. Follows(FlattenSeq(frames), PassedAll(frames))
    BY <1>2, <1>3, StreamFollows
<1> DEFINE x == FlattenSeq(frames)
<1>5. /\ x \in Seq(Tokens) /\ Complete(x) /\ Between(Client(x))
      /\ Client(PassedAll(frames)).events = RestoredEvents(Client(x).events)
    BY <1>4 DEF Follows
<1> HIDE DEF x
<1>6. Client(x \o buf).events = Client(x).events
    BY <1>2, <1>3, <1>5, BufferSilent
<1> QED
    BY <1>2, <1>5, <1>6 DEF x, OutIsPassed, ClientEvents

(* A client of the rewritten stream sees the events of the stream with     *)
(* every text restored, in order and with their other lines, for streams   *)
(* of any length in any chunks whose lines end as servers end them         *)
(* (restore_frame_text).  The streams are those without a character at     *)
(* which str.splitlines breaks a line and a client does not: with one, the *)
(* code passes texts on unrestored.  An object is no end of a line.        *)
THEOREM ClientReadsRestored ==
    ASSUME Sep \notin Bytes, Restored \notin {CR, LF}
    PROVE  Spec => []ClientSees
<1>1. IInv /\ OutIsPassed => ClientSees
    BY ClientSeesState
<1> QED
    BY <1>1, FramingInvariant, OutInvariant, PTL
=============================================================================
