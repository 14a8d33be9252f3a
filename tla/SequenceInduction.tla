-------------------------- MODULE SequenceInduction --------------------------
(***************************************************************************)
(* Induction over data, as the proofs about texts and streams use it:      *)
(* induction on natural numbers stated with sets, what Min and Max return, *)
(* what FlattenSeq returns, and how a sequence is cut in two.              *)
(***************************************************************************)
EXTENDS SequencesExt, WellFoundedInduction, SequenceTheorems, TLAPS

(* A set that holds 0, and n + 1 with every n, holds every natural number. *)
LEMMA NatSetInduction ==
    ASSUME NEW T,
           0 \in T,
           \A n \in Nat : n \in T => n + 1 \in T
    PROVE  \A n \in Nat : n \in T
<1> DEFINE Out == Nat \ T
<1>1. SUFFICES ASSUME Out # {} PROVE FALSE
    OBVIOUS
<1>2. PICK x \in Out : \A y \in Out : <<y, x>> \notin OpToRel(<, Nat)
    <2> HIDE DEF Out
    <2>1. Out \subseteq Nat
        BY DEF Out
    <2> QED
        BY <1>1, <2>1, NatLessThanWellFounded, WFMin
<1>3. x \in Nat \ {0}
    OBVIOUS
<1>4. x - 1 \in Nat /\ <<x - 1, x>> \in OpToRel(<, Nat)
    BY <1>3 DEF OpToRel
<1>5. x - 1 \in T
    BY <1>2, <1>4
<1>6. (x - 1) + 1 \in T
    BY <1>4, <1>5
<1> QED
    BY <1>3, <1>6

(* The smallest element of a set of natural numbers.                       *)
LEMMA MinProperties ==
    ASSUME NEW T, T \subseteq Nat, T # {}
    PROVE  Min(T) \in T /\ \A y \in T : Min(T) <= y
<1>1. PICK x \in T : \A y \in T : <<y, x>> \notin OpToRel(<, Nat)
    BY NatLessThanWellFounded, WFMin
<1>2. ASSUME NEW y \in T PROVE x <= y
    <2>1. x \in Nat /\ y \in Nat
        OBVIOUS
    <2>2. y < x => <<y, x>> \in OpToRel(<, Nat)
        BY <2>1 DEF OpToRel
    <2>3. ~(y < x)
        BY <1>1, <2>2, Zenon
    <2> QED
        BY <2>1, <2>3
<1> QED
    BY <1>2 DEF Min

-----------------------------------------------------------------------------

(* The largest element of a set of natural numbers that has a bound.       *)
LEMMA MaxProperties ==
    ASSUME NEW n \in Nat, NEW T, T \subseteq 0..n, T # {}
    PROVE  Max(T) \in T /\ \A y \in T : Max(T) >= y
<1> DEFINE U == {k \in Nat : n - k \in T}
<1>1. PICK t \in T : t \in 0..n
    OBVIOUS
<1>2. n - t \in U
    BY <1>1
<1>3. Min(U) \in U /\ \A k \in U : Min(U) <= k
    <2>1. U \subseteq Nat /\ U # {}
        BY <1>2
    <2> HIDE DEF U
    <2> QED
        BY <2>1, MinProperties
<1> DEFINE x == n - Min(U)
<1>4. x \in T
    BY <1>3
<1>5. ASSUME NEW y \in T PROVE x >= y
    <2>1. y \in 0..n /\ n - y \in Nat /\ n - (n - y) = y
        OBVIOUS
    <2>2. n - y \in U
        BY <2>1
    <2>3. Min(U) \in Nat /\ Min(U) <= n - y
        BY <1>3, <2>2
    <2> HIDE DEF U
    <2> QED
        BY <2>1, <2>3
<1> HIDE DEF x
<1> QED
    BY <1>4, <1>5 DEF Max

-----------------------------------------------------------------------------

(* The function by which FlattenSeq is defined, and its equation.          *)
Flatten(seqs) ==
    CHOOSE f : f = [i \in 1..Len(seqs) |->
                       IF i = 1 THEN seqs[i] ELSE f[i-1] \o seqs[i]]

LEMMA FlattenEquation ==
    ASSUME NEW S, NEW seqs \in Seq(S)
    PROVE  Flatten(seqs) = [i \in 1..Len(seqs) |->
               IF i = 1 THEN seqs[i] ELSE Flatten(seqs)[i-1] \o seqs[i]]
<1> DEFINE n == Len(seqs)
           Defined(k) == \E f : f = [i \in 1..k |->
                                       IF i = 1 THEN seqs[i] ELSE f[i-1] \o seqs[i]]
           T == {k \in Nat : Defined(k)}
<1>1. 0 \in T
    <2>1. [i \in 1..0 |-> 0] =
          [i \in 1..0 |-> IF i = 1 THEN seqs[i]
                          ELSE [j \in 1..0 |-> 0][i-1] \o seqs[i]]
        OBVIOUS
    <2> QED
        BY <2>1
<1>2. ASSUME NEW k \in Nat, k \in T
      PROVE  k + 1 \in T
    <2>1. PICK f : f = [i \in 1..k |-> IF i = 1 THEN seqs[i] ELSE f[i-1] \o seqs[i]]
        BY <1>2
    <2> DEFINE g == [i \in 1..k+1 |-> IF i \in 1..k THEN f[i]
                                      ELSE IF i = 1 THEN seqs[i] ELSE f[i-1] \o seqs[i]]
    <2>2. \A i \in 1..k+1 : g[i] = IF i \in 1..k THEN f[i]
                         ELSE IF i = 1 THEN seqs[i] ELSE f[i-1] \o seqs[i]
        OBVIOUS
    <2>3. DOMAIN g = 1..k+1 /\ g = [i \in DOMAIN g |-> g[i]]
        OBVIOUS
    <2> HIDE DEF g
    <2>4. ASSUME NEW i \in 1..k+1
          PROVE  g[i] = IF i = 1 THEN seqs[i] ELSE g[i-1] \o seqs[i]
        <3>1. CASE i \in 1..k
            <4>1. g[i] = IF i = 1 THEN seqs[i] ELSE f[i-1] \o seqs[i]
                BY <2>1, <2>2, <3>1
            <4>2. i # 1 => g[i-1] = f[i-1]
                BY <2>2, <3>1
            <4> QED
                BY <4>1, <4>2
        <3>2. CASE i = k + 1
            <4>1. i # 1 => g[i-1] = f[i-1]
                BY <2>2, <3>2
            <4>2. g[i] = IF i = 1 THEN seqs[i] ELSE f[i-1] \o seqs[i]
                BY <2>2, <3>2
            <4> QED
                BY <4>1, <4>2
        <3> QED
            BY <3>1, <3>2
    <2>5. g = [i \in 1..k+1 |-> IF i = 1 THEN seqs[i] ELSE g[i-1] \o seqs[i]]
        BY <2>3, <2>4
    <2>6. Defined(k + 1)
        BY <2>5, Zenon
    <2> QED
        <3> HIDE DEF Defined
        <3> QED
            BY <2>6
<1>3. n \in T
    <2> HIDE DEF T
    <2> QED
        BY <1>1, <1>2, NatSetInduction, LenProperties
<1> QED
    BY <1>3 DEF Flatten

LEMMA FlattenStep ==
    ASSUME NEW S, NEW seqs \in Seq(S), NEW i \in 1..Len(seqs)
    PROVE  /\ i = 1 => Flatten(seqs)[i] = seqs[i]
           /\ i # 1 => Flatten(seqs)[i] = Flatten(seqs)[i-1] \o seqs[i]
<1> DEFINE f == Flatten(seqs)
<1>1. f = [k \in 1..Len(seqs) |-> IF k = 1 THEN seqs[k] ELSE f[k-1] \o seqs[k]]
    BY FlattenEquation
<1> HIDE DEF f
<1>2. f[i] = IF i = 1 THEN seqs[i] ELSE f[i-1] \o seqs[i]
    BY <1>1
<1> QED
    BY <1>2 DEF f

LEMMA FlattenSeqIs ==
    ASSUME NEW S, NEW seqs \in Seq(S)
    PROVE  FlattenSeq(seqs) = IF Len(seqs) = 0 THEN <<>> ELSE Flatten(seqs)[Len(seqs)]
BY EmptySeq DEF FlattenSeq, Flatten

(* Flattened sequences are sequences over the same elements.               *)
LEMMA FlattenTypes ==
    ASSUME NEW S, NEW seqs \in Seq(Seq(S))
    PROVE  \A i \in 1..Len(seqs) : Flatten(seqs)[i] \in Seq(S)
<1> DEFINE n == Len(seqs)
           T == {k \in Nat : k \in 1..n => Flatten(seqs)[k] \in Seq(S)}
<1>0. n \in Nat /\ \A i \in 1..n : seqs[i] \in Seq(S)
    OBVIOUS
<1>1. 0 \in T
    OBVIOUS
<1>2. ASSUME NEW k \in Nat, k \in T
      PROVE  k + 1 \in T
    <2>1. SUFFICES ASSUME k + 1 \in 1..n PROVE Flatten(seqs)[k+1] \in Seq(S)
        OBVIOUS
    <2>2. /\ k + 1 = 1 => Flatten(seqs)[k+1] = seqs[k+1]
          /\ k + 1 # 1 => Flatten(seqs)[k+1] = Flatten(seqs)[(k+1)-1] \o seqs[k+1]
        BY <2>1, FlattenStep
    <2>3. CASE k = 0
        BY <2>1, <2>2, <2>3, <1>0
    <2>4. CASE k # 0
        <3>1. Flatten(seqs)[k] \in Seq(S) /\ seqs[k+1] \in Seq(S)
            BY <1>0, <1>2, <2>1, <2>4
        <3>2. k + 1 # 1 /\ (k + 1) - 1 = k
            BY <2>4
        <3>3. Flatten(seqs)[k+1] = Flatten(seqs)[k] \o seqs[k+1]
            BY <2>2, <3>2
        <3> QED
            BY <3>1, <3>3, ConcatProperties
    <2> QED
        BY <2>3, <2>4
<1>3. \A k \in Nat : k \in T
    <2> HIDE DEF T
    <2> QED
        BY <1>1, <1>2, NatSetInduction
<1> QED
    BY <1>0, <1>3

LEMMA FlattenSeqType ==
    ASSUME NEW S, NEW seqs \in Seq(Seq(S))
    PROVE  FlattenSeq(seqs) \in Seq(S)
<1>1. Len(seqs) = 0 => FlattenSeq(seqs) = <<>>
    BY FlattenSeqIs
<1>2. Len(seqs) # 0 => FlattenSeq(seqs) = Flatten(seqs)[Len(seqs)] /\ Len(seqs) \in 1..Len(seqs)
    BY FlattenSeqIs
<1> QED
    BY <1>1, <1>2, FlattenTypes, EmptySeq

(* A sequence put in front comes out in front.                             *)
LEMMA FlattenSeqCons ==
    ASSUME NEW S, NEW first \in Seq(S), NEW seqs \in Seq(Seq(S))
    PROVE  FlattenSeq(<<first>> \o seqs) = first \o FlattenSeq(seqs)
<1> DEFINE all == <<first>> \o seqs
           n == Len(seqs)
           T == {k \in Nat : k \in 1..n =>
                    Flatten(all)[k+1] = first \o Flatten(seqs)[k]}
<1>1. /\ all \in Seq(Seq(S)) /\ n \in Nat /\ Len(all) = n + 1
      /\ all[1] = first /\ \A i \in 1..n : all[i+1] = seqs[i]
      /\ \A i \in 1..n : seqs[i] \in Seq(S)
    <2>1. n \in Nat /\ \A i \in 1..n : seqs[i] \in Seq(S)
        OBVIOUS
    <2>2. /\ all \in Seq(Seq(S)) /\ Len(all) = n + 1
          /\ all[1] = first /\ \A i \in 1..n : all[i+1] = seqs[i]
        <3> DEFINE one == <<first>>
        <3>1. one \in Seq(Seq(S)) /\ Len(one) = 1 /\ one[1] = first
            OBVIOUS
        <3> HIDE DEF one
        <3>2. /\ one \o seqs \in Seq(Seq(S)) /\ Len(one \o seqs) = 1 + n
              /\ \A i \in 1..1+n : (one \o seqs)[i] = IF i <= 1 THEN one[i] ELSE seqs[i-1]
            <4>1. /\ one \o seqs \in Seq(Seq(S)) /\ Len(one \o seqs) = Len(one) + Len(seqs)
                  /\ \A i \in 1..Len(one)+Len(seqs) :
                         (one \o seqs)[i] = IF i <= Len(one) THEN one[i] ELSE seqs[i-Len(one)]
                <5> DEFINE T1 == Seq(S)
                <5>1. one \in Seq(T1) /\ seqs \in Seq(T1)
                    BY <3>1
                <5> HIDE DEF T1
                <5> QED
                    BY <5>1, ConcatProperties, Zenon DEF T1
            <4> QED
                BY <3>1, <4>1
        <3>3. (one \o seqs)[1] = first
            BY <2>1, <3>1, <3>2
        <3>4. ASSUME NEW i \in 1..n PROVE (one \o seqs)[i+1] = seqs[i]
            <4>1. i + 1 \in 1..1+n /\ ~(i + 1 <= 1) /\ (i + 1) - 1 = i
                BY <2>1
            <4> QED
                BY <3>2, <4>1
        <3> QED
            BY <2>1, <3>2, <3>3, <3>4 DEF one
    <2> QED
        BY <2>1, <2>2
<1> HIDE DEF all, n
<1>0. ASSUME NEW a \in Seq(S), NEW b \in Seq(S), NEW c \in Seq(S)
      PROVE  (a \o b) \o c = a \o (b \o c)
    BY ConcatAssociative, SMTT(60)
<1>2. Flatten(all)[1] = first
    <2>1. 1 \in 1..Len(all)
        BY <1>1
    <2> QED
        BY <1>1, <2>1, FlattenStep
<1>3. 0 \in T
    BY <1>1
<1>4. ASSUME NEW k \in Nat, k \in T
      PROVE  k + 1 \in T
    <2>1. SUFFICES ASSUME k + 1 \in 1..n
                   PROVE  Flatten(all)[k+1+1] = first \o Flatten(seqs)[k+1]
        OBVIOUS
    <2>2. k + 1 + 1 \in 1..Len(all) /\ k + 1 + 1 # 1 /\ (k + 1 + 1) - 1 = k + 1
        BY <1>1, <2>1
    <2>3. Flatten(all)[k+1+1] = Flatten(all)[k+1] \o all[k+1+1]
        <3>1. Flatten(all)[k+1+1] = Flatten(all)[(k+1+1)-1] \o all[k+1+1]
            BY <1>1, <2>2, FlattenStep
        <3> QED
            BY <2>2, <3>1
    <2>4. all[k+1+1] = seqs[k+1]
        BY <1>1, <2>1
    <2>5. k + 1 \in 1..Len(seqs)
        BY <2>1 DEF n
    <2>6. /\ k = 0 => Flatten(seqs)[k+1] = seqs[k+1]
          /\ k # 0 => Flatten(seqs)[k+1] = Flatten(seqs)[k] \o seqs[k+1]
        <3>1. /\ k + 1 = 1 => Flatten(seqs)[k+1] = seqs[k+1]
              /\ k + 1 # 1 => Flatten(seqs)[k+1] = Flatten(seqs)[(k+1)-1] \o seqs[k+1]
            BY <2>5, FlattenStep
        <3>2. (k + 1) - 1 = k /\ (k + 1 = 1 <=> k = 0)
            OBVIOUS
        <3> QED
            BY <3>1, <3>2
    <2>7. CASE k = 0
        <3>1. Flatten(all)[k+1] = first
            BY <1>2, <2>7
        <3> QED
            BY <2>3, <2>4, <2>6, <2>7, <3>1
    <2>8. CASE k # 0
        <3>1. k \in 1..n /\ Flatten(all)[k+1] = first \o Flatten(seqs)[k]
            <4>1. k \in 1..n
                BY <1>1, <2>1, <2>8
            <4> QED
                BY <1>4, <4>1
        <3>2. Flatten(seqs)[k] \in Seq(S) /\ seqs[k+1] \in Seq(S)
            BY <1>1, <2>1, <3>1, FlattenTypes DEF n
        <3>3. Flatten(all)[k+1+1] = (first \o Flatten(seqs)[k]) \o seqs[k+1]
            BY <2>3, <2>4, <3>1
        <3>4. (first \o Flatten(seqs)[k]) \o seqs[k+1]
              = first \o (Flatten(seqs)[k] \o seqs[k+1])
            BY <1>0, <3>2
        <3> QED
            BY <2>6, <2>8, <3>3, <3>4
    <2> QED
        BY <2>7, <2>8
<1>5. \A k \in Nat : k \in T
    <2> HIDE DEF T
    <2> QED
        BY <1>3, <1>4, NatSetInduction
<1>6. CASE n = 0
    <2>1. FlattenSeq(seqs) = <<>>
        BY <1>6, FlattenSeqIs DEF n
    <2>2. FlattenSeq(all) = first
        <3>1. FlattenSeq(all) = IF Len(all) = 0 THEN <<>> ELSE Flatten(all)[Len(all)]
            BY <1>1, FlattenSeqIs
        <3>2. Len(all) = 1
            BY <1>1, <1>6
        <3> QED
            BY <1>2, <3>1, <3>2
    <2> QED
        BY <2>1, <2>2, ConcatEmptySeq DEF all
<1>7. CASE n # 0
    <2>1. Flatten(all)[n+1] = first \o Flatten(seqs)[n]
        BY <1>1, <1>5, <1>7
    <2>2. FlattenSeq(all) = Flatten(all)[n+1]
        BY <1>1, FlattenSeqIs
    <2>3. FlattenSeq(seqs) = Flatten(seqs)[n]
        BY <1>7, FlattenSeqIs DEF n
    <2> QED
        BY <2>1, <2>2, <2>3 DEF all
<1> QED
    BY <1>6, <1>7

-----------------------------------------------------------------------------

(* What a cut holds.                                                       *)
LEMMA SubSeqHolds ==
    ASSUME NEW S, NEW s \in Seq(S), NEW a \in 1..Len(s), NEW b \in a..Len(s)
    PROVE  /\ SubSeq(s, a, b) \in Seq(S)
           /\ Len(SubSeq(s, a, b)) = b-a+1
           /\ \A k \in 1..b-a+1 : SubSeq(s, a, b)[k] = s[a+k-1]
<1>1. /\ SubSeq(s, a, b) \in Seq(S)
      /\ Len(SubSeq(s, a, b)) = b-a+1
    OBVIOUS
<1>2. \A k \in 1..b-a+1 : SubSeq(s, a, b)[k] = s[a+k-1]
    OBVIOUS
<1> QED
    BY <1>1, <1>2

(* A sequence cut at e.                                                    *)
LEMMA CutInTwo ==
    ASSUME NEW S, NEW s \in Seq(S), NEW e \in 0..Len(s)
    PROVE  SubSeq(s, 1, e) \o SubSeq(s, e + 1, Len(s)) = s
<1> DEFINE a == SubSeq(s, 1, e)
           b == SubSeq(s, e + 1, Len(s))
           n == Len(s)
<1>0. n \in Nat /\ e \in 0..n
    OBVIOUS
<1>1. a \in Seq(S) /\ Len(a) = e /\ \A i \in 1..e : a[i] = s[i]
    OBVIOUS
<1>2. b \in Seq(S) /\ Len(b) = n - e /\ \A i \in 1..n-e : b[i] = s[i + e]
    OBVIOUS
<1>3. /\ a \o b \in Seq(S) /\ Len(a \o b) = Len(a) + Len(b)
      /\ \A i \in 1..Len(a)+Len(b) : (a \o b)[i] = IF i <= Len(a) THEN a[i] ELSE b[i-Len(a)]
    <2> HIDE DEF a, b
    <2> QED
        BY <1>1, <1>2, ConcatProperties
<1> HIDE DEF a, b, n
<1>4. Len(a \o b) = n
    BY <1>0, <1>1, <1>2, <1>3
<1>5. ASSUME NEW i \in 1..n PROVE (a \o b)[i] = s[i]
    <2>0. i \in 1..Len(a)+Len(b)
        BY <1>0, <1>1, <1>2
    <2>1. CASE i <= e
        BY <1>1, <1>2, <1>3, <2>0, <2>1
    <2>2. CASE i > e
        <3>1. i - e \in 1..n-e /\ (i - e) + e = i
            BY <1>0, <2>2
        <3>2. (a \o b)[i] = b[i-e]
            BY <1>0, <1>1, <1>3, <2>0, <2>2
        <3> QED
            BY <1>2, <3>2, <3>1
    <2>3. i <= e \/ i > e
        BY <1>0
    <2> QED
        BY <2>1, <2>2, <2>3
<1> QED
    BY <1>3, <1>4, <1>5, SeqEqual DEF a, b, n

(* What a sequence continued by another has after e.                       *)
LEMMA TailOfConcat ==
    ASSUME NEW S, NEW s \in Seq(S), NEW t \in Seq(S), NEW e \in 1..Len(s)
    PROVE  SubSeq(s \o t, e+1, Len(s \o t)) = SubSeq(s, e + 1, Len(s)) \o t
<1> DEFINE n == Len(s)
           m == Len(t)
           u == s \o t
           a == SubSeq(s, e+1, n)
           b == SubSeq(u, e+1, n + m)
<1>0. n \in Nat /\ m \in Nat /\ e \in 1..n
    OBVIOUS
<1>1. /\ u \in Seq(S) /\ Len(u) = n + m
      /\ \A i \in 1..n + m : u[i] = IF i <= n THEN s[i] ELSE t[i-n]
    BY ConcatProperties
<1>2. a \in Seq(S) /\ Len(a) = n - e /\ \A i \in 1..n-e : a[i] = s[i + e]
    OBVIOUS
<1>3. b \in Seq(S) /\ Len(b) = n + m - e /\ \A i \in 1..n+m-e : b[i] = u[i + e]
    <2> HIDE DEF u, n, m
    <2> QED
        BY <1>0, <1>1
<1>4. /\ a \o t \in Seq(S) /\ Len(a \o t) = Len(a) + m
      /\ \A i \in 1..Len(a)+m : (a \o t)[i] = IF i <= Len(a) THEN a[i] ELSE t[i-Len(a)]
    <2> HIDE DEF a
    <2> QED
        BY <1>2, ConcatProperties
<1> HIDE DEF n, m, u, a, b
<1>5. Len(a \o t) = Len(b) /\ Len(b) \in Nat
    BY <1>0, <1>2, <1>3, <1>4
<1>6. ASSUME NEW i \in 1..Len(b) PROVE b[i] = (a \o t)[i]
    <2>1. i \in 1..n+m-e /\ i + e \in 1..n+m /\ i \in 1..Len(a)+m
        BY <1>0, <1>2, <1>3
    <2>2. CASE i <= n - e
        <3>1. i \in 1..n-e /\ i + e <= n /\ i <= Len(a)
            BY <1>0, <1>2, <2>1, <2>2
        <3>2. u[i + e] = s[i + e]
            BY <1>1, <2>1, <3>1
        <3>3. (a \o t)[i] = a[i]
            BY <1>4, <2>1, <3>1
        <3>4. a[i] = s[i + e] /\ b[i] = u[i + e]
            BY <1>2, <1>3, <2>1, <3>1
        <3> QED
            BY <3>2, <3>3, <3>4, Zenon
    <2>3. CASE i > n - e
        <3>1. ~(i + e <= n) /\ ~(i <= Len(a)) /\ i - Len(a) = (i + e) - n
            BY <1>0, <1>2, <2>1, <2>3, SMTT(60)
        <3> QED
            BY <1>1, <1>2, <1>3, <1>4, <2>1, <3>1
    <2>4. i <= n - e \/ i > n - e
        BY <1>0, <2>1
    <2> QED
        BY <2>2, <2>3, <2>4
<1>7. b = a \o t
    BY <1>3, <1>4, <1>5, <1>6, SeqEqual
<1> QED
    BY <1>7, <1>1 DEF n, m, u, a, b

-----------------------------------------------------------------------------

(* Sequences flattened in two portions.                                    *)
LEMMA FlattenSeqConcat ==
    ASSUME NEW S, NEW s \in Seq(Seq(S)), NEW t \in Seq(Seq(S))
    PROVE  FlattenSeq(s \o t) = FlattenSeq(s) \o FlattenSeq(t)
<1> DEFINE R == Seq(S)
           T == {n \in Nat : \A u \in Seq(R) : Len(u) < n =>
                    FlattenSeq(u \o t) = FlattenSeq(u) \o FlattenSeq(t)}
<1>1. 0 \in T
    OBVIOUS
<1>2. ASSUME NEW n \in Nat, n \in T
      PROVE  n + 1 \in T
    <2>1. ASSUME NEW u \in Seq(R), Len(u) < n + 1
          PROVE  FlattenSeq(u \o t) = FlattenSeq(u) \o FlattenSeq(t)
        <3>1. CASE u = <<>>
            <4>1. FlattenSeq(u) = <<>>
                <5>1. u \in Seq(R) /\ Len(u) = 0
                    BY <2>1, <3>1
                <5> HIDE DEF R
                <5> QED
                    BY <5>1, FlattenSeqIs
            <4>2. FlattenSeq(t) \in Seq(S)
                BY FlattenSeqType
            <4>3. u \o t = t
                BY <3>1, ConcatEmptySeq
            <4> QED
                BY <4>1, <4>2, <4>3, ConcatEmptySeq
        <3>2. CASE u # <<>>
            <4> DEFINE v == Tail(u)
                       h == Head(u)
                       one == <<h>>
            <4>1. h \in R /\ v \in Seq(R) /\ Len(v) < n /\ one \in Seq(R)
                <5> HIDE DEF R
                <5> QED
                    BY <2>1, <3>2
            <4>2. u = one \o v
                <5> HIDE DEF R
                <5> QED
                    BY <3>2
            <4> HIDE DEF h, v
            <4>3. u \o t = one \o (v \o t)
                <5>1. one \in Seq(R) /\ v \in Seq(R) /\ t \in Seq(R)
                    BY <4>1
                <5> HIDE DEF R, one
                <5> QED
                    BY ONLY <4>2, <5>1, ConcatAssociative, SMTT(60)
            <4>4. v \o t \in Seq(R)
                <5>1. t \in Seq(R)
                    OBVIOUS
                <5> HIDE DEF R
                <5> QED
                    BY <4>1, <5>1, ConcatProperties
            <4>5. FlattenSeq(one \o (v \o t)) = h \o FlattenSeq(v \o t)
                BY <4>1, <4>4, FlattenSeqCons
            <4>6. FlattenSeq(one \o v) = h \o FlattenSeq(v)
                BY <4>1, FlattenSeqCons
            <4>7. FlattenSeq(v \o t) = FlattenSeq(v) \o FlattenSeq(t)
                BY <1>2, <4>1
            <4>8. h \in Seq(S) /\ FlattenSeq(v) \in Seq(S) /\ FlattenSeq(t) \in Seq(S)
                BY <4>1, FlattenSeqType
            <4>9. h \o (FlattenSeq(v) \o FlattenSeq(t)) = (h \o FlattenSeq(v)) \o FlattenSeq(t)
                BY ONLY <4>8, ConcatAssociative, SMTT(60)
            <4> HIDE DEF one
            <4> QED
                BY <4>2, <4>3, <4>5, <4>6, <4>7, <4>9
        <3> QED
            BY <3>1, <3>2
    <2> HIDE DEF R
    <2> QED
        BY <2>1
<1>3. Len(s) + 1 \in T
    <2>1. Len(s) + 1 \in Nat
        OBVIOUS
    <2> HIDE DEF T
    <2> QED
        BY <1>1, <1>2, <2>1, NatSetInduction
<1>4. s \in Seq(R) /\ Len(s) < Len(s) + 1
    OBVIOUS
<1> HIDE DEF R
<1> QED
    BY <1>3, <1>4

(* The first k sequences, flattened.                                       *)
FlattenTo(seqs, k) == IF k = 0 THEN <<>> ELSE Flatten(seqs)[k]

LEMMA FlattenToStep ==
    ASSUME NEW S, NEW seqs \in Seq(Seq(S)), NEW k \in 1..Len(seqs)
    PROVE  /\ seqs[k] \in Seq(S)
           /\ FlattenTo(seqs, k-1) \in Seq(S)
           /\ FlattenTo(seqs, k) \in Seq(S)
           /\ FlattenTo(seqs, k) = FlattenTo(seqs, k-1) \o seqs[k]
<1>1. seqs[k] \in Seq(S)
    OBVIOUS
<1>2. /\ k = 1 => Flatten(seqs)[k] = seqs[k]
      /\ k # 1 => Flatten(seqs)[k] = Flatten(seqs)[k-1] \o seqs[k]
    BY FlattenStep
<1>3. \A i \in 1..Len(seqs) : Flatten(seqs)[i] \in Seq(S)
    BY FlattenTypes
<1>4. k - 1 = 0 \/ k - 1 \in 1..Len(seqs)
    OBVIOUS
<1>5. FlattenTo(seqs, k-1) \in Seq(S) /\ FlattenTo(seqs, k) \in Seq(S)
    BY <1>3, <1>4, EmptySeq DEF FlattenTo
<1>6. CASE k = 1
    <2>1. FlattenTo(seqs, k) = seqs[k] /\ FlattenTo(seqs, k-1) = <<>>
        BY <1>2, <1>6 DEF FlattenTo
    <2> QED
        BY <1>1, <1>5, <2>1, ConcatEmptySeq
<1>7. CASE k # 1
    <2>1. FlattenTo(seqs, k) = Flatten(seqs)[k] /\ FlattenTo(seqs, k-1) = Flatten(seqs)[k-1]
        BY <1>4, <1>7 DEF FlattenTo
    <2> QED
        BY <1>1, <1>2, <1>5, <1>7, <2>1
<1> QED
    BY <1>6, <1>7

LEMMA FlattenToEnds ==
    ASSUME NEW S, NEW seqs \in Seq(Seq(S))
    PROVE  /\ FlattenTo(seqs, 0) = <<>>
           /\ FlattenTo(seqs, Len(seqs)) = FlattenSeq(seqs)
BY FlattenSeqIs DEF FlattenTo

(* An element put in front.                                                *)
LEMMA ConsProperties ==
    ASSUME NEW S, NEW x \in S, NEW s \in Seq(S)
    PROVE  /\ <<x>> \o s \in Seq(S)
           /\ <<x>> \o s # <<>>
           /\ Len(<<x>> \o s) = Len(s) + 1
           /\ (<<x>> \o s)[1] = x
           /\ \A k \in 1..Len(s) : (<<x>> \o s)[k+1] = s[k]
<1> DEFINE one == <<x>>
<1>1. one \in Seq(S) /\ Len(one) = 1 /\ one[1] = x
    OBVIOUS
<1> HIDE DEF one
<1>2. /\ one \o s \in Seq(S) /\ Len(one \o s) = Len(one) + Len(s)
      /\ \A i \in 1..Len(one)+Len(s) :
             (one \o s)[i] = IF i <= Len(one) THEN one[i] ELSE s[i-Len(one)]
    BY <1>1, ConcatProperties
<1>3. Len(s) \in Nat
    OBVIOUS
<1>4. (one \o s)[1] = x
    BY <1>1, <1>2, <1>3
<1>5. ASSUME NEW k \in 1..Len(s) PROVE (one \o s)[k+1] = s[k]
    <2>1. k + 1 \in 1..1+Len(s) /\ ~(k + 1 <= 1) /\ (k + 1) - 1 = k
        BY <1>3
    <2> QED
        BY <1>1, <1>2, <2>1
<1>6. Len(one \o s) = Len(s) + 1 /\ one \o s # <<>>
    BY <1>1, <1>2, <1>3, EmptySeq
<1> QED
    BY <1>2, <1>4, <1>5, <1>6 DEF one
=============================================================================
