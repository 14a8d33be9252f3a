--------------------------- MODULE StreamingProofs ---------------------------
(***************************************************************************)
(* Theorems about the streaming side: the PlaceholderBuffer on its own and *)
(* the two regimes of streaming_restore that use it.                       *)
(***************************************************************************)
EXTENDS StreamingRestore, PlaceholderBuffer, HoldBackProofs

-----------------------------------------------------------------------------

VaultChars == UNION {Range(Vault[p]) : p \in DOMAIN Vault}

PieceChars == UNION {Range(p) : p \in Pieces}

MessageChars == PieceChars \cup VaultChars

LEMMA VaultGives ==
    ASSUME NEW S, VaultChars \subseteq S
    PROVE  GivesTexts(Vault, S)
<1>1. ASSUME NEW p \in DOMAIN Vault PROVE Vault[p] \in Seq(S)
    <2>1. Vault[p] \in Seq(Range(Vault[p]))
        BY VaultAssumption
    <2>2. Range(Vault[p]) \subseteq VaultChars
        BY DEF VaultChars
    <2> QED
        BY <2>1, <2>2
<1> QED
    BY <1>1 DEF GivesTexts

LEMMA MessagesGiven == GivesTexts(Vault, MessageChars)
<1>1. VaultChars \subseteq MessageChars
    BY DEF MessageChars
<1> QED
    BY <1>1, VaultGives

LEMMA MessagesAreTexts == Messages \subseteq Seq(MessageChars)
<1>1. ASSUME NEW p \in Pieces PROVE p \in Seq(MessageChars)
    <2>1. p \in Seq(Range(p))
        BY PiecesAssumption DEF PiecesAreTexts
    <2>2. Range(p) \subseteq MessageChars
        BY DEF MessageChars, PieceChars
    <2> QED
        BY <2>1, <2>2
<1>2. ASSUME NEW ps \in Seq(Pieces) PROVE FlattenSeq(ps) \in Seq(MessageChars)
    <2>1. ps \in Seq(Seq(MessageChars))
        BY <1>1
    <2> QED
        BY <2>1, FlattenSeqType
<1>3. ASSUME NEW ps \in BoundedSeq(Pieces, MaxPieces) PROVE ps \in Seq(Pieces)
    <2>1. PICK n \in 0..MaxPieces : ps \in [1..n -> Pieces]
        BY DEF BoundedSeq, SeqOf
    <2> QED
        BY <2>1
<1> QED
    BY <1>2, <1>3 DEF Messages

(* The next n characters of a text move from what is to come to what came. *)
LEMMA NextCharacters ==
    ASSUME NEW S, NEW m \in Seq(S), NEW k \in 0..Len(m), NEW n \in 0..Len(m)-k
    PROVE  LET came == SubSeq(m, 1, k)
               more == SubSeq(m, k + 1, Len(m))
           IN  /\ came \in Seq(S) /\ SubSeq(more, 1, n) \in Seq(S)
               /\ SubSeq(m, 1, k + n) = came \o SubSeq(more, 1, n)
               /\ SubSeq(more, n + 1, Len(more)) = SubSeq(m, k + n + 1, Len(m))
<1> DEFINE N == Len(m)
           came == SubSeq(m, 1, k)
           more == SubSeq(m, k + 1, N)
           part == SubSeq(more, 1, n)
           left == SubSeq(more, n + 1, Len(more))
           came2 == SubSeq(m, 1, k + n)
           left2 == SubSeq(m, k + n + 1, N)
<1>1. N \in Nat /\ k \in 0..N /\ n \in 0..N-k /\ k + n \in 0..N
    OBVIOUS
<1>2. came \in Seq(S) /\ Len(came) = k /\ \A i \in 1..k : came[i] = m[i]
    BY <1>1
<1>3. more \in Seq(S) /\ Len(more) = N - k /\ \A i \in 1..N-k : more[i] = m[k+i]
    <2>1. k + 1 \in 1..N+1
        BY <1>1
    <2> QED
        BY <1>1, <2>1
<1>4. came2 \in Seq(S) /\ Len(came2) = k + n /\ \A i \in 1..k+n : came2[i] = m[i]
    BY <1>1
<1>5. left2 \in Seq(S) /\ Len(left2) = N - (k + n) /\ \A i \in 1..N-(k+n) : left2[i] = m[(k+n)+i]
    <2>1. k + n + 1 \in 1..N+1
        BY <1>1
    <2> QED
        BY <1>1, <2>1
<1> HIDE DEF more
<1>6. part \in Seq(S) /\ Len(part) = n /\ \A i \in 1..n : part[i] = more[i]
    BY <1>1, <1>3
<1>7. left \in Seq(S) /\ Len(left) = N - (k + n) /\ \A i \in 1..N-(k+n) : left[i] = more[n+i]
    <2>1. n + 1 \in 1..Len(more)+1 /\ Len(more) - (n + 1) + 1 = N - (k + n) /\ more \in Seq(S)
        BY <1>1, <1>3
    <2>2. left \in Seq(S) /\ Len(left) = Len(more) - (n + 1) + 1
          /\ \A i \in 1..Len(more)-(n+1)+1 : left[i] = more[(n+1)+i-1]
        BY <2>1
    <2>3. \A i \in 1..N-(k+n) : (n+1)+i-1 = n+i
        BY <1>1
    <2> HIDE DEF left
    <2> QED
        BY <2>1, <2>2, <2>3
<1> HIDE DEF came, part, left, came2, left2
<1>8. left = left2
    <2>1. \A i \in 1..N-(k+n) : left[i] = left2[i]
        <3>1. ASSUME NEW i \in 1..N-(k+n) PROVE left[i] = left2[i]
            <4>1. n + i \in 1..N-k /\ k + (n + i) = (k + n) + i
                BY <1>1
            <4> QED
                BY <1>3, <1>5, <1>7, <4>1
        <3> QED
            BY <3>1
    <2> QED
        BY <1>5, <1>7, <2>1, SeqEqual
<1>9. came2 = came \o part
    <2> DEFINE both == came \o part
    <2>1. both \in Seq(S) /\ Len(both) = k + n
          /\ \A i \in 1..k+n : both[i] = IF i <= k THEN came[i] ELSE part[i-k]
        BY <1>2, <1>6, ConcatProperties
    <2> HIDE DEF both
    <2>2. \A i \in 1..k+n : came2[i] = both[i]
        <3>1. ASSUME NEW i \in 1..k+n PROVE came2[i] = both[i]
            <4>1. CASE i <= k
                BY <1>1, <1>2, <1>4, <2>1, <4>1
            <4>2. CASE ~(i <= k)
                <5>1. i - k \in 1..n /\ i - k \in 1..N-k /\ k + (i - k) = i
                    BY <1>1, <4>2
                <5> QED
                    BY <1>3, <1>4, <1>6, <2>1, <4>2, <5>1
            <4> QED
                BY <4>1, <4>2
        <3> QED
            BY <3>1
    <2>3. came2 = both
        BY <1>4, <2>1, <2>2, SeqEqual
    <2> QED
        BY <2>3 DEF both
<1> QED
    BY <1>2, <1>6, <1>8, <1>9, Zenon DEF came, more, part, left, came2, left2

Arrived == SubSeq(message, 1, Len(message) - Len(rest))

(* While the message arrives the buffer has drained all of it that came;   *)
(* then nothing is left, and the flag says how the message ends.           *)
BufferInv ==
    /\ message \in Messages
    /\ rest \in Seq(MessageChars)
    /\ Len(rest) <= Len(message)
    /\ rest = SubSeq(message, Len(message) - Len(rest) + 1, Len(message))
    /\ done \in BOOLEAN
    /\ partial \in BOOLEAN
    /\ ~done => /\ ~partial
                /\ Drained(Arrived, held, out, Vault)
                /\ Cut(held) = 0
    /\ done => rest = <<>> /\ held = <<>> /\ (partial <=> HasUnclosedOpener(message))

(* The format is unambiguous and no placeholder of a message is followed by*)
(* a hyphen and a digit.                                                   *)
PlainMessages ==
    /\ UnambiguousFormat
    /\ \A m \in Messages : Unsuffixed(m)

LEMMA BufferInvInit == PlainMessages /\ BufferInit => BufferInv
<1> SUFFICES ASSUME PlainMessages, BufferInit PROVE BufferInv
    OBVIOUS
<1>1. /\ message \in Messages /\ rest = message /\ held = <<>> /\ out = <<>>
      /\ done = FALSE /\ partial = FALSE
    BY DEF BufferInit
<1>2. message \in Seq(MessageChars) /\ Len(message) \in Nat
    BY <1>1, MessagesAreTexts DEF PlainMessages
<1>3. rest = SubSeq(message, Len(message) - Len(rest) + 1, Len(message))
    <2>1. Len(message) - Len(rest) + 1 = 1
        BY <1>1, <1>2
    <2>2. SubSeq(message, 1, Len(message)) = message
        BY <1>2, SubSeqFull
    <2> QED
        BY <1>1, <2>1, <2>2
<1>4. Arrived = <<>>
    <2>1. Len(message) - Len(rest) = 0
        BY <1>1, <1>2
    <2>2. SubSeq(message, 1, 0) = <<>>
        BY <1>2, SubSeqEmpty
    <2> QED
        BY <2>1, <2>2 DEF Arrived
<1>5. Drained(Arrived, held, out, Vault)
    BY <1>1, <1>4, DrainedStart
<1>6. Cut(held) = 0
    <2>1. <<>> \in Seq({}) /\ Len(<<>>) <= Window
        BY LiteralLengths, EmptySeq
    <2> QED
        BY <1>1, <2>1, CutIs
<1>7. /\ message \in Messages
      /\ rest \in Seq(MessageChars)
      /\ Len(rest) <= Len(message)
      /\ done = FALSE /\ partial = FALSE
    BY <1>1, <1>2
<1> QED
    BY <1>3, <1>5, <1>6, <1>7, Zenon DEF BufferInv

LEMMA BufferChunk ==
    ASSUME PlainMessages, BufferInv, NEW n \in 1..MaxChunk, Chunk(n)
    PROVE  /\ BufferInv'
           /\ ~done /\ n <= Len(rest)
           /\ Arrived' = Arrived \o SubSeq(rest, 1, n)
           /\ Arrived \in Seq(MessageChars) /\ SubSeq(rest, 1, n) \in Seq(MessageChars)
           /\ \E emitted \in Seq(MessageChars) : out' = out \o emitted
<1> DEFINE S == MessageChars
           N == Len(message)
           k == N - Len(rest)
           t == SubSeq(rest, 1, n)
           text == held \o t
           c == Cut(text)
<1>1. /\ ~done /\ n <= Len(rest)
      /\ out' = out \o Restore(SubSeq(text, 1, c), Vault)
      /\ held' = SubSeq(text, c + 1, Len(text))
      /\ rest' = SubSeq(rest, n + 1, Len(rest))
      /\ message' = message /\ done' = done /\ partial' = partial
    BY DEF Chunk
<1>2. /\ message \in Messages
      /\ rest \in Seq(S)
      /\ Len(rest) <= N /\ rest = SubSeq(message, k + 1, N)
      /\ ~partial /\ Drained(Arrived, held, out, Vault)
      /\ done = FALSE /\ partial = FALSE
    BY <1>1 DEF BufferInv
<1>3. message \in Seq(S) /\ N \in Nat /\ Unsuffixed(message) /\ UnambiguousFormat
    BY <1>2, MessagesAreTexts DEF PlainMessages
<1>4. Len(rest) \in Nat /\ k \in 0..N /\ n \in 0..N-k /\ k + n \in 0..N /\ n <= Len(rest)
    <2>1. Len(rest) \in Nat
        BY <1>2
    <2> QED
        BY <1>1, <1>2, <1>3, <2>1
<1>5. /\ Arrived = SubSeq(message, 1, k)
      /\ Arrived \in Seq(S) /\ t \in Seq(S)
      /\ SubSeq(message, 1, k + n) = Arrived \o t
      /\ rest' = SubSeq(message, k + n + 1, N)
    <2> DEFINE came == SubSeq(message, 1, k)
               more == SubSeq(message, k + 1, Len(message))
    <2>1. /\ came \in Seq(S) /\ SubSeq(more, 1, n) \in Seq(S)
          /\ SubSeq(message, 1, k + n) = came \o SubSeq(more, 1, n)
          /\ SubSeq(more, n + 1, Len(more)) = SubSeq(message, k + n + 1, Len(message))
        BY <1>3, <1>4, NextCharacters, Zenon
    <2>2. Arrived = came
        BY Zenon DEF Arrived
    <2>3. rest = more
        BY <1>2, Zenon
    <2> HIDE DEF came, more
    <2>4. t = SubSeq(more, 1, n) /\ rest' = SubSeq(more, n + 1, Len(more))
        BY <1>1, <2>3
    <2> QED
        BY <2>1, <2>2, <2>4, Zenon DEF came
<1>6. Len(rest') = N - (k + n) /\ rest' \in Seq(S)
    <2>1. k + n + 1 \in 1..N+1
        BY <1>4
    <2> QED
        BY <1>3, <1>4, <1>5, <2>1
<1>7. Arrived' = Arrived \o t
    <2>1. Arrived' = SubSeq(message, 1, N - Len(rest'))
        BY <1>1 DEF Arrived
    <2>2. N - Len(rest') = k + n
        BY <1>3, <1>4, <1>6
    <2> QED
        BY <1>5, <2>1, <2>2
<1>8. Unsuffixed(Arrived \o t)
    BY <1>3, <1>4, <1>5, UnsuffixedFront
<1>9. GivesTexts(Vault, S)
    BY MessagesGiven
<1>10. /\ text \in Seq(S) /\ c \in 0..Len(text)
       /\ Drained(Arrived', held', out', Vault)
    BY <1>1, <1>2, <1>3, <1>5, <1>7, <1>8, <1>9, DrainedFeed
<1>11. Cut(held') = 0
    BY <1>1, <1>10, CutIdempotent
<1>12. Restore(SubSeq(text, 1, c), Vault) \in Seq(S)
    <2>1. SubSeq(text, 1, c) \in Seq(S)
        <3> HIDE DEF text, c
        <3> QED
            BY <1>10
    <2> QED
        BY <1>9, <2>1, RestoreType
<1>13. BufferInv'
    <2>1. Len(rest') <= N /\ rest' = SubSeq(message, N - Len(rest') + 1, N)
        <3>1. N - Len(rest') + 1 = k + n + 1
            BY <1>3, <1>4, <1>6
        <3>2. rest' = SubSeq(message, k + n + 1, N)
            BY <1>5
        <3>3. rest' = SubSeq(message, N - Len(rest') + 1, N)
            BY <3>1, <3>2
        <3>4. Len(rest') <= N
            BY <1>3, <1>4, <1>6
        <3> QED
            BY <3>3, <3>4
    <2>2. /\ message' = message /\ done' = FALSE /\ partial' = FALSE
          /\ rest' \in Seq(MessageChars)
          /\ message \in Messages
        BY <1>1, <1>2, <1>6
    <2>3. Drained(Arrived', held', out', Vault)
        BY <1>10
    <2>4. Cut(held') = 0
        BY <1>11
    <2> HIDE DEF S, N, k, t, text, c
    <2> QED
        BY <2>1, <2>2, <2>3, <2>4, Zenon DEF BufferInv, N
<1> QED
    BY <1>1, <1>5, <1>7, <1>12, <1>13

(* The tail is restored, or withheld because it looks like a placeholder   *)
(* cut short; it does exactly when the message does.                       *)
LEMMA BufferFlush ==
    ASSUME PlainMessages, BufferInv, Flush
    PROVE  /\ BufferInv'
           /\ ~done /\ rest = <<>> /\ message' = message /\ rest' = rest
           /\ done' = TRUE
           /\ partial' = HasUnclosedOpener(message)
           /\ message \in Seq(MessageChars) /\ Arrived = message
           /\ out \in Seq(MessageChars) /\ Restore(held, Vault) \in Seq(MessageChars)
           /\ Restore(message, Vault) = out \o Restore(held, Vault)
           /\ out' = IF HasUnclosedOpener(message) THEN out ELSE Restore(message, Vault)
<1> DEFINE S == MessageChars
           N == Len(message)
<1>1. /\ ~done /\ rest = <<>>
      /\ partial' = HasUnclosedOpener(held)
      /\ out' = IF HasUnclosedOpener(held) THEN out ELSE out \o Restore(held, Vault)
      /\ held' = <<>> /\ done' = TRUE /\ message' = message /\ rest' = rest
    BY DEF Flush
<1>2. /\ message \in Messages /\ rest \in Seq(S)
      /\ Drained(Arrived, held, out, Vault)
    BY <1>1 DEF BufferInv
<1>3. message \in Seq(S) /\ N \in Nat /\ Unsuffixed(message) /\ UnambiguousFormat
    BY <1>2, MessagesAreTexts DEF PlainMessages
<1>4. Arrived = message
    <2>1. N - Len(rest) = N
        BY <1>1, <1>3, EmptySeq
    <2>2. SubSeq(message, 1, N) = message
        BY <1>3, SubSeqFull
    <2> QED
        BY <2>1, <2>2 DEF Arrived
<1>5. /\ out \in Seq(S) /\ Restore(held, Vault) \in Seq(S)
      /\ Restore(message, Vault) = out \o Restore(held, Vault)
      /\ HasUnclosedOpener(held) <=> HasUnclosedOpener(message)
    <2>1. Drained(message, held, out, Vault)
        BY <1>2, <1>4
    <2> QED
        BY <1>3, <2>1, MessagesGiven, DrainedWhole
<1>6. partial' = HasUnclosedOpener(message)
    <2>1. HasUnclosedOpener(held) \in BOOLEAN
        BY DEF HasUnclosedOpener
    <2>2. HasUnclosedOpener(message) \in BOOLEAN
        BY DEF HasUnclosedOpener
    <2> QED
        BY <1>1, <1>5, <2>1, <2>2
<1>7. BufferInv'
    <2>1. /\ message' \in Messages /\ rest' \in Seq(MessageChars)
          /\ rest' = <<>> /\ held' = <<>> /\ done' = TRUE
        BY <1>1, <1>2
    <2>2. Len(rest') <= Len(message')
        BY <1>1, <1>3, EmptySeq
    <2>3. rest' = SubSeq(message', Len(message') - Len(rest') + 1, Len(message'))
        BY <1>1 DEF BufferInv
    <2>4. partial' \in BOOLEAN /\ (partial' <=> HasUnclosedOpener(message'))
        BY <1>1, <1>6 DEF HasUnclosedOpener
    <2> QED
        BY <2>1, <2>2, <2>3, <2>4, Zenon DEF BufferInv
<1> QED
    BY <1>1, <1>3, <1>4, <1>5, <1>6, <1>7

(* While a message arrives, what was emitted is its beginning restored and *)
(* the rest is held; when it has ended nothing is held, and the flag tells *)
(* whether the message ends inside a placeholder (buffer.py:58-107).       *)
THEOREM BufferHoldsTheRest ==
    ASSUME PlainMessages
    PROVE  BufferSpec => []BufferInv
<1>1. BufferInit => BufferInv
    BY BufferInvInit
<1>2. BufferInv /\ [BufferNext]_(bufferVars) => BufferInv'
    <2> SUFFICES ASSUME BufferInv, [BufferNext]_(bufferVars)
                 PROVE  BufferInv'
        OBVIOUS
    <2>1. ASSUME NEW n \in 1..MaxChunk, Chunk(n) PROVE BufferInv'
        BY <2>1, BufferChunk
    <2>2. ASSUME Flush PROVE BufferInv'
        BY <2>2, BufferFlush
    <2>3. ASSUME UNCHANGED bufferVars PROVE BufferInv'
        BY <2>3 DEF bufferVars, BufferInv, Arrived
    <2> QED
        BY <2>1, <2>2, <2>3 DEF BufferNext
<1> QED
    BY <1>1, <1>2, PTL DEF BufferSpec

LEMMA PutInFront ==
    ASSUME NEW S, NEW s \in Seq(S), NEW t \in Seq(S), NEW u \in Seq(S), NEW v, v = t \o u
    PROVE  (s \o t) \o u = s \o v
BY ConcatAssociative

(* What is held and what is to come are the end of the message.            *)
AreEndOf(m, h, r, S) ==
    /\ h \in Seq(S) /\ r \in Seq(S)
    /\ Len(h) + Len(r) <= Len(m)
    /\ h \o r = SubSeq(m, Len(m) - (Len(h) + Len(r)) + 1, Len(m))

(* A step of the buffer takes from the front of what is held and to come.  *)
LEMMA TailOfTail ==
    ASSUME NEW S, NEW m \in Seq(S), NEW h, NEW r, AreEndOf(m, h, r, S),
           NEW n \in 0..Len(r), NEW c \in 0..Len(h)+n
    PROVE  LET text == h \o SubSeq(r, 1, n)
           IN  AreEndOf(m, SubSeq(text, c + 1, Len(text)), SubSeq(r, n + 1, Len(r)), S)
<1> DEFINE N == Len(m)
           part == SubSeq(r, 1, n)
           text == h \o part
           held2 == SubSeq(text, c + 1, Len(text))
           rest2 == SubSeq(r, n + 1, Len(r))
           k == N - (Len(h) + Len(r))
<1> h \in Seq(S) /\ r \in Seq(S)
    BY DEF AreEndOf
<1>1. N \in Nat /\ Len(h) \in Nat /\ Len(r) \in Nat /\ n \in 0..Len(r) /\ k \in 0..N
    BY DEF AreEndOf
<1>2. part \in Seq(S) /\ Len(part) = n
    BY <1>1
<1>3. rest2 \in Seq(S) /\ Len(rest2) = Len(r) - n
    <2>1. n + 1 \in 1..Len(r)+1
        BY <1>1
    <2> QED
        BY <1>1, <2>1
<1>4. part \o rest2 = r
    BY CutInTwo
<1> HIDE DEF part, rest2
<1>5. text \in Seq(S) /\ Len(text) = Len(h) + n
    BY <1>2, ConcatProperties
<1>6. text \o rest2 = h \o r
    <2>1. h \in Seq(S) /\ part \in Seq(S) /\ rest2 \in Seq(S) /\ r = part \o rest2
        BY <1>2, <1>3, <1>4
    <2> QED
        BY ONLY <2>1, PutInFront, SMTT(60)
<1> HIDE DEF text
<1>7. c \in 0..Len(text) /\ k + c \in 0..N /\ c \in 0..N-k /\ c \in Nat
    BY <1>1, <1>5
<1>8. held2 \in Seq(S) /\ Len(held2) = Len(text) - c
    <2>1. c + 1 \in 1..Len(text)+1
        BY <1>1, <1>5, <1>7
    <2> QED
        BY <1>5, <1>7, <2>1
<1>9. held2 \o rest2 = SubSeq(text \o rest2, c + 1, Len(text \o rest2))
    BY <1>3, <1>5, <1>7, TailGrows
<1> HIDE DEF held2
<1>10. text \o rest2 = SubSeq(m, k + 1, N)
    BY <1>6 DEF AreEndOf
<1>11. held2 \o rest2 = SubSeq(m, k + c + 1, N)
    BY <1>1, <1>7, <1>9, <1>10, NextCharacters
<1>12. N - (Len(held2) + Len(rest2)) = k + c /\ Len(held2) + Len(rest2) <= N
    BY <1>1, <1>3, <1>5, <1>7, <1>8
<1>13. N - (Len(held2) + Len(rest2)) + 1 = k + c + 1
    BY <1>12
<1> QED
    BY <1>3, <1>8, <1>11, <1>12, <1>13, Zenon DEF part, text, held2, rest2, N, AreEndOf

(* What is held and what is to come is always the end of the message, for  *)
(* every format and every vault (buffer.py:58-107).                        *)
THEOREM BufferTypes == BufferSpec => []BufferTypeOK
<1>1. ASSUME NEW m \in Messages PROVE m \in Seq(Range(m)) /\ Len(m) \in Nat
    BY MessagesAreTexts DEF Range
<1>2. BufferInit => BufferTypeOK
    <2> SUFFICES ASSUME BufferInit PROVE BufferTypeOK
        OBVIOUS
    <2>1. /\ message \in Messages /\ rest = message /\ held = <<>>
          /\ done = FALSE /\ partial = FALSE
        BY DEF BufferInit
    <2>2. message \in Seq(Range(message)) /\ Len(message) \in Nat
        BY <1>1, <2>1
    <2> DEFINE S == Range(message)
    <2> HIDE DEF S
    <2>3. held \in Seq(S) /\ Len(held) = 0 /\ message \in Seq(S)
        BY <2>1, <2>2, EmptySeq DEF S
    <2>4. held \o rest = message /\ SubSeq(message, 1, Len(message)) = message
        BY <2>1, <2>3, ConcatEmptySeq, SubSeqFull
    <2>5. Len(held) + Len(rest) = Len(message) /\ Len(message) - (Len(held) + Len(rest)) + 1 = 1
        BY <2>1, <2>2, <2>3
    <2>6. held \o rest = SubSeq(message, Len(message) - (Len(held) + Len(rest)) + 1, Len(message))
        BY <2>4, <2>5
    <2>7. Len(held) + Len(rest) <= Len(message)
        BY <2>2, <2>5
    <2>8. rest \in Seq(Range(message)) /\ held \in Seq(Range(message))
        BY <2>1, <2>3 DEF S
    <2> QED
        BY <2>1, <2>6, <2>7, <2>8, Zenon DEF BufferTypeOK
<1>3. ASSUME BufferTypeOK, NEW n \in 1..MaxChunk, Chunk(n) PROVE BufferTypeOK'
    <2> DEFINE S == Range(message)
               text == held \o SubSeq(rest, 1, n)
               c == Cut(text)
    <2>1. /\ n <= Len(rest)
          /\ held' = SubSeq(text, c + 1, Len(text))
          /\ rest' = SubSeq(rest, n + 1, Len(rest))
          /\ message' = message /\ done' = done /\ partial' = partial
        BY <1>3 DEF Chunk
    <2>2. /\ message \in Messages /\ rest \in Seq(S) /\ held \in Seq(S)
          /\ Len(held) + Len(rest) <= Len(message)
          /\ held \o rest = SubSeq(message, Len(message) - (Len(held) + Len(rest)) + 1, Len(message))
          /\ done \in BOOLEAN /\ partial \in BOOLEAN
        BY <1>3 DEF BufferTypeOK
    <2>3. message \in Seq(S)
        BY <1>1, <2>2
    <2> HIDE DEF S
    <2>4. n \in 0..Len(rest) /\ Len(rest) \in Nat /\ Len(held) \in Nat
        BY <2>1, <2>2
    <2>5. SubSeq(rest, 1, n) \in Seq(S) /\ Len(SubSeq(rest, 1, n)) = n
        BY <2>2, <2>4
    <2>6. text \in Seq(S) /\ Len(text) = Len(held) + n
        BY <2>2, <2>4, <2>5, ConcatProperties
    <2>7. c \in 0..Len(held)+n
        <3> HIDE DEF text
        <3> QED
            BY <2>6, CutIs
    <2> HIDE DEF c
    <2>8. AreEndOf(message, held', rest', S)
        <3>1. n \in 0..Len(rest) /\ c \in 0..Len(held)+n /\ AreEndOf(message, held, rest, S)
            BY <2>2, <2>4, <2>7 DEF AreEndOf
        <3> QED
            BY <2>1, <2>3, <3>1, TailOfTail, Zenon
    <2>9. /\ held' \in Seq(Range(message')) /\ rest' \in Seq(Range(message'))
          /\ message' \in Messages /\ done' \in BOOLEAN /\ partial' \in BOOLEAN
        BY <2>1, <2>2, <2>8 DEF S, AreEndOf
    <2> HIDE DEF text
    <2> QED
        BY <2>1, <2>8, <2>9 DEF BufferTypeOK, AreEndOf
<1>4. ASSUME BufferTypeOK, Flush PROVE BufferTypeOK'
    <2> DEFINE S == Range(message)
    <2>1. /\ rest = <<>> /\ held' = <<>> /\ rest' = rest /\ message' = message
          /\ done' = TRUE /\ partial' \in BOOLEAN
        BY <1>4 DEF Flush, HasUnclosedOpener
    <2>2. message \in Messages
        BY <1>4 DEF BufferTypeOK
    <2>3. message \in Seq(S) /\ Len(message) \in Nat
        BY <1>1, <2>2
    <2> HIDE DEF S
    <2>4. Len(held') = 0 /\ Len(rest') = 0 /\ held' \in Seq(S) /\ rest' \in Seq(S)
        BY <2>1, EmptySeq
    <2>5. held' \o rest' = <<>>
        BY <2>1
    <2>6. SubSeq(message, Len(message) + 1, Len(message)) = <<>>
        BY <2>3, SubSeqEmpty
    <2>7. Len(message') - (Len(held') + Len(rest')) + 1 = Len(message') + 1
          /\ Len(held') + Len(rest') <= Len(message')
        BY <2>1, <2>3, <2>4
    <2> QED
        BY <2>1, <2>2, <2>4, <2>5, <2>6, <2>7 DEF BufferTypeOK, S
<1>5. BufferTypeOK /\ [BufferNext]_(bufferVars) => BufferTypeOK'
    BY <1>3, <1>4 DEF BufferNext, bufferVars, BufferTypeOK
<1> QED
    BY <1>2, <1>5, PTL DEF BufferSpec

-----------------------------------------------------------------------------

(* The opener that is looked at last begins a placeholder, and a           *)
(* placeholder holds the bracket that closes it.                           *)
LEMMA ClosedIsNotCutShort ==
    ASSUME UnambiguousFormat, NEW S, NEW text \in Seq(S),
           \A i \in 1..Len(text) : LiteralAt(text, i, Opener) => MatchesAt(text, i)
    PROVE  LastUnclosedOpener(text) = 0
<1> DEFINE i == LastOpener(text)
<1>1. i \in 0..Len(text) /\ (i # 0 => LiteralAt(text, i, Opener))
    BY LastOpenerIs
<1> HIDE DEF i
<1>2. ASSUME i # 0 PROVE \E k \in i..Len(text) : text[k] = Bracket
    <2>1. i \in 1..Len(text) /\ MatchesAt(text, i)
        BY <1>1, <1>2
    <2>2. PICK e : e \in BodyEnds(text, i)
        BY <2>1 DEF MatchesAt
    <2> QED
        BY <2>1, <2>2, BodyChars
<1>3. LastUnclosedOpener(text) = IF i # 0 /\ \A k \in i..Len(text) : text[k] # Bracket
                                 THEN i ELSE 0
    BY DEF LastUnclosedOpener, i
<1> QED
    BY <1>2, <1>3

(* A message whose placeholders are all complete is never reported as cut  *)
(* short, wherever the chunks cut it (buffer.py:88-107).                   *)
THEOREM CompleteIsNotFlagged ==
    ASSUME PlainMessages
    PROVE  BufferSpec => []CompleteNotFlagged
<1>1. BufferInv => CompleteNotFlagged
    <2> SUFFICES ASSUME BufferInv, AllClosed, TrailingOpenerPrefix(message) = 0
                 PROVE  ~partial
        BY DEF CompleteNotFlagged
    <2>1. message \in Seq(MessageChars) /\ UnambiguousFormat
        BY MessagesAreTexts DEF PlainMessages, BufferInv
    <2>2. \A i \in 1..Len(message) : LiteralAt(message, i, Opener) => MatchesAt(message, i)
        BY DEF AllClosed
    <2>3. LastUnclosedOpener(message) = 0
        BY <2>1, <2>2, ClosedIsNotCutShort
    <2>4. ~HasUnclosedOpener(message)
        BY <2>3 DEF HasUnclosedOpener
    <2> QED
        BY <2>4 DEF BufferInv
<1> QED
    BY <1>1, BufferHoldsTheRest, PTL

(* No code of a message is longer than the codes of the vault.             *)
ShortCodes ==
    \A m \in Messages : \A i \in 1..Len(m) : \A e \in BodyEnds(m, i) :
        e - i + 1 <= Len(Opener) + CodeLen + Len(Closer)

(* A full buffer that drains nothing begins with an opener, and nothing in *)
(* front of its window closes it.                                          *)
LEMMA FullBuffer ==
    ASSUME UnambiguousFormat, NEW S, NEW text \in Seq(S), NEW w \in Nat,
           Len(Opener) <= w, Len(text) >= Window + w, Cut(text) = 0
    PROVE  LiteralAt(text, 1, Opener) /\ \A k \in 1..w : text[k] # Bracket
<1> DEFINE n == Len(text) - Window
           ready == SubSeq(text, 1, n)
<1>1. Len(text) \in Nat /\ Window \in Nat /\ Len(Opener) \in Nat \ {0} /\ n \in Nat /\ n >= w
    BY FormatFacts, LiteralLengths
<1>2. /\ n \in 1..Len(text) /\ HoldBackPoint(ready) \in 0..n
      /\ Cut(text) = IF HoldBackPoint(ready) # 0 THEN HoldBackPoint(ready) - 1 ELSE n
    BY <1>1, CutIs
<1>3. ready \in Seq(S) /\ Len(ready) = n /\ \A k \in 1..n : ready[k] = text[k]
    BY <1>2
<1> HIDE DEF ready
<1>4. HoldBackPoint(ready) = 1
    BY <1>1, <1>2
<1>5. ~(TrailingOpenerPrefix(ready) = 1)
    <2> SUFFICES ASSUME TrailingOpenerPrefix(ready) = 1 PROVE FALSE
        OBVIOUS
    <2>1. n \in PrefixLengths(ready)
        BY <1>1, <1>3, TrailingPrefixIs, SMTT(60)
    <2>2. n <= Len(Opener) - 1
        BY <1>1, <2>1 DEF PrefixLengths
    <2> QED
        BY <1>1, <2>2
<1>6. LastUnclosedOpener(ready) = 1
    BY <1>3, <1>4, <1>5, HoldBackPointIs
<1>7. LastOpener(ready) = 1 /\ \A k \in 1..n : ready[k] # Bracket
    BY <1>3, <1>6 DEF LastUnclosedOpener
<1>8. LiteralAt(ready, 1, Opener)
    BY <1>3, <1>7, LastOpenerIs
<1>9. 1 + Len(Opener) - 1 <= n /\ \A k \in 1..Len(Opener) : 1 + k - 1 \in 1..n
    BY <1>1
<1>10. LiteralAt(text, 1, Opener)
    BY <1>1, <1>3, <1>8, <1>9 DEF LiteralAt
<1> QED
    BY <1>1, <1>3, <1>7, <1>10

(* While every opener is closed the buffer holds less than a window and a  *)
(* placeholder, however long the message is (buffer.py:58-86).             *)
THEOREM HoldIsBounded ==
    ASSUME PlainMessages, ShortCodes
    PROVE  BufferSpec => []BoundedHold
<1>1. BufferInv => BoundedHold
    <2> DEFINE w == Len(Opener) + CodeLen + Len(Closer)
    <2> SUFFICES ASSUME BufferInv, AllClosed
                 PROVE  Len(held) < Window + w
        <3>1. Window = Window
            BY DEF Window, Window
        <3>2. Window + w = Window + Len(Opener) + CodeLen + Len(Closer)
            BY LiteralLengths, RoomAssumption
        <3> QED
            BY <3>1, <3>2 DEF BoundedHold
    <2>1. message \in Seq(MessageChars) /\ UnambiguousFormat /\ message \in Messages
        BY MessagesAreTexts DEF PlainMessages, BufferInv
    <2>2. w \in Nat /\ Len(Opener) \in Nat \ {0} /\ Len(Opener) <= w /\ Window \in Nat
        BY <2>1, FormatFacts, LiteralLengths, RoomAssumption
    <2> HIDE DEF w
    <2>3. CASE done
        BY <2>2, <2>3, EmptySeq DEF BufferInv
    <2>4. CASE ~done
        <3> DEFINE S == MessageChars
                   N == Len(message)
                   k == N - Len(rest)
        <3>1. /\ N \in Nat /\ k \in 0..N /\ Arrived = SubSeq(message, 1, k)
              /\ Drained(Arrived, held, out, Vault) /\ Cut(held) = 0
            BY <2>1, <2>4 DEF BufferInv, Arrived
        <3>2. /\ Arrived \in Seq(S) /\ Len(Arrived) = k
              /\ \A j \in 1..k : Arrived[j] = message[j]
            BY <2>1, <3>1
        <3>3. PICK E \in 0..k : held = SubSeq(Arrived, E + 1, k)
            <4>1. \E E \in 0..Len(Arrived) : held = SubSeq(Arrived, E + 1, Len(Arrived))
                BY <3>1 DEF Drained
            <4> HIDE DEF k
            <4> QED
                BY <3>2, <4>1
        <3>4. /\ held \in Seq(S) /\ Len(held) = k - E
              /\ \A j \in 1..k-E : held[j] = Arrived[E+j]
            <4>1. E + 1 \in 1..k+1
                BY <3>1
            <4> QED
                BY <3>1, <3>2, <3>3, <4>1, SMTT(60)
        <3>5. \A j \in 1..k-E : E + j \in 1..k /\ held[j] = message[E+j]
            BY <3>1, <3>2, <3>4
        <3> SUFFICES ASSUME Len(held) >= Window + w PROVE FALSE
            BY <2>2, <3>1, <3>4
        <3>6. LiteralAt(held, 1, Opener) /\ \A j \in 1..w : held[j] # Bracket
            BY <2>1, <2>2, <3>1, <3>4, FullBuffer
        <3>7. w <= k - E /\ E + 1 \in 1..N /\ k - E \in Nat
            BY <2>2, <3>1, <3>4
        <3>8. LiteralAt(message, E + 1, Opener)
            <4>1. (E + 1) + Len(Opener) - 1 <= N
                BY <2>2, <3>1, <3>7
            <4>2. \A j \in 1..Len(Opener) : message[E + 1 + j - 1] = Opener[j]
                <5>1. ASSUME NEW j \in 1..Len(Opener) PROVE message[E + 1 + j - 1] = Opener[j]
                    <6>1. j \in 1..k-E /\ 1 + j - 1 = j /\ E + 1 + j - 1 = E + j
                        BY <2>2, <3>1, <3>7
                    <6>2. held[j] = Opener[j]
                        BY <3>6, <6>1 DEF LiteralAt
                    <6> QED
                        BY <3>5, <6>1, <6>2
                <5> QED
                    BY <5>1
            <4> QED
                BY <4>1, <4>2 DEF LiteralAt
        <3>9. PICK e : e \in BodyEnds(message, E + 1)
            BY <3>7, <3>8 DEF AllClosed, MatchesAt
        <3>10. e \in E+1..N /\ message[e] = Bracket /\ e - (E + 1) + 1 <= w
            BY <2>1, <3>7, <3>9, BodyChars DEF ShortCodes, w
        <3>11. e - E \in 1..w /\ E + (e - E) = e /\ e - E \in 1..k-E
            BY <2>2, <3>1, <3>7, <3>10
        <3> QED
            BY <3>5, <3>6, <3>10, <3>11
    <2> QED
        BY <2>3, <2>4 DEF BufferInv
<1> QED
    BY <1>1, BufferHoldsTheRest, PTL

-----------------------------------------------------------------------------

LEMMA SameIsPrefix ==
    ASSUME NEW S, NEW s \in Seq(S)
    PROVE  IsPrefix(s, s)
BY SubSeqFull DEF IsPrefix

LEMMA StreamPrefix ==
    ASSUME NEW s, NEW t
    PROVE  Stream!IsPrefix(s, t) <=> IsPrefix(s, t)
BY DEF IsPrefix, Stream!IsPrefix

(* What a drained buffer has given begins the restored text.               *)
LEMMA DrainedGives ==
    ASSUME UnambiguousFormat, NEW S, NEW a \in Seq(S), Unsuffixed(a),
           NEW vault, GivesTexts(vault, S), NEW b, NEW o, Drained(a, b, o, vault)
    PROVE  o \in Seq(S) /\ IsPrefix(o, Restore(a, vault))
<1>1. o \in Seq(S) /\ Restore(b, vault) \in Seq(S) /\ Restore(a, vault) = o \o Restore(b, vault)
    BY DrainedWhole
<1>2. IsPrefix(o, o \o Restore(b, vault))
    <2> DEFINE t == Restore(b, vault)
    <2>1. o \in Seq(S) /\ t \in Seq(S)
        BY <1>1
    <2> HIDE DEF t
    <2>2. IsPrefix(o, o \o t)
        BY <2>1, PrefixOfConcat
    <2> QED
        BY <2>2 DEF t
<1> QED
    BY <1>1, <1>2

(* A chunk is text that comes in and text that goes out.                   *)
LEMMA ChunkPasses ==
    ASSUME PlainMessages, BufferInv, NEW n \in 1..MaxChunk, Chunk(n)
    PROVE  Stream!Next
<1> DEFINE S == MessageChars
           t == SubSeq(rest, 1, n)
<1>1. /\ BufferInv' /\ ~done
      /\ Arrived' = Arrived \o t
      /\ Arrived \in Seq(S) /\ t \in Seq(S)
      /\ \E emitted \in Seq(S) : out' = out \o emitted
    BY BufferChunk
<1>2. message' = message /\ done' = done /\ partial' = partial
    BY DEF Chunk
<1>3. /\ message \in Seq(S) /\ UnambiguousFormat /\ Unsuffixed(message)
      /\ Drained(Arrived, held, out, Vault) /\ Drained(Arrived', held', out', Vault)
    BY <1>1, <1>2, MessagesAreTexts DEF BufferInv, PlainMessages
<1>4. Unsuffixed(Arrived) /\ Unsuffixed(Arrived')
    <2>1. /\ Len(message) - Len(rest) \in 0..Len(message)
          /\ Len(message) - Len(rest') \in 0..Len(message)
        BY <1>1, <1>2, <1>3 DEF BufferInv
    <2>2. Arrived' = SubSeq(message, 1, Len(message) - Len(rest'))
        BY <1>2 DEF Arrived
    <2> QED
        BY <1>3, <2>1, <2>2, UnsuffixedFront DEF Arrived
<1> HIDE DEF t
<1>5. Arrived' \in Seq(S)
    BY <1>1, ConcatProperties
<1>6. out \in Seq(S) /\ IsPrefix(out', Restore(Arrived', Vault))
    BY <1>1, <1>3, <1>4, <1>5, MessagesGiven, DrainedGives
<1>7. IsPrefix(out, out') /\ IsPrefix(Arrived, Arrived')
    <2>1. PICK emitted \in Seq(S) : out' = out \o emitted
        BY <1>1
    <2>2. IsPrefix(out, out \o emitted)
        BY <1>6, PrefixOfConcat
    <2>3. IsPrefix(Arrived, Arrived \o t)
        BY <1>1, PrefixOfConcat
    <2> QED
        BY <1>1, <2>1, <2>2, <2>3
<1>8. Stream!Pass(1)
    <2>1. /\ OneChannel(Arrived)[1] = Arrived
          /\ OneChannel(Arrived')[1] = Arrived'
          /\ OneChannel(out)[1] = out
          /\ OneChannel(out')[1] = out'
          /\ OneChannel(Arrived') = [OneChannel(Arrived) EXCEPT ![1] = Arrived']
          /\ OneChannel(out') = [OneChannel(out) EXCEPT ![1] = out']
        BY DEF OneChannel
    <2>2. RestoredText(Arrived') = Restore(Arrived', Vault)
        BY DEF RestoredText
    <2>3. /\ Stream!IsPrefix(out, out')
          /\ Stream!IsPrefix(Arrived, Arrived')
          /\ Stream!IsPrefix(out', RestoredText(Arrived'))
        BY <1>6, <1>7, <2>2, StreamPrefix
    <2> QED
        BY <1>1, <1>2, <2>1, <2>3
        DEF Stream!Pass, Stream!GivesMore, Arrived
<1> QED
    BY <1>8 DEF Stream!Next

(* The flush is the end of the source.                                     *)
LEMMA FlushEnds ==
    ASSUME PlainMessages, BufferInv, Flush
    PROVE  Stream!Next
<1> DEFINE S == MessageChars
           tail == Restore(held, Vault)
           whole == Restore(message, Vault)
<1>1. /\ ~done /\ message' = message /\ rest' = rest /\ done' = TRUE
      /\ partial' = HasUnclosedOpener(message)
      /\ Arrived = message
      /\ out \in Seq(S) /\ tail \in Seq(S) /\ whole = out \o tail
      /\ out' = IF HasUnclosedOpener(message) THEN out ELSE whole
    BY BufferFlush
<1> HIDE DEF tail, whole
<1>2. ~partial
    BY <1>1 DEF BufferInv
<1>3. IsPrefix(out, out') /\ IsPrefix(out', whole)
    <2>1. IsPrefix(out, whole) /\ whole \in Seq(S)
        BY <1>1, PrefixOfConcat, ConcatProperties
    <2>2. IsPrefix(out, out) /\ IsPrefix(whole, whole)
        BY <1>1, <2>1, SameIsPrefix
    <2> QED
        BY <1>1, <2>1, <2>2
<1>4. Arrived' = message
    BY <1>1 DEF Arrived
<1>5. /\ RestoredText(message) = whole
      /\ HasUnclosedOpener(message) <=> HasUnclosedOpener(message)
    BY DEF RestoredText, whole
<1>6. /\ Stream!IsPrefix(out, out')
      /\ Stream!IsPrefix(out', RestoredText(message))
    BY <1>3, <1>5, StreamPrefix
<1>7. /\ OneChannel(Arrived)[1] = message
      /\ OneChannel(Arrived')[1] = message
      /\ OneChannel(out)[1] = out
      /\ OneChannel(out')[1] = out'
      /\ OneChannel(Arrived') = OneChannel(Arrived)
    BY <1>1, <1>4 DEF OneChannel
<1>8. Stream!GivesRest(1)
    BY <1>1, <1>5, <1>6, <1>7
    DEF Stream!GivesRest, Stream!GivesMore, Arrived
<1>9. partial' = HasUnclosedOpener(message)
    <2>1. HasUnclosedOpener(message) \in BOOLEAN /\ HasUnclosedOpener(message) \in BOOLEAN
        BY DEF HasUnclosedOpener, HasUnclosedOpener
    <2> QED
        BY <1>1, <1>5, <2>1
<1>10. Stream!End
    <2> DEFINE open == IF done THEN {} ELSE {1}
               open2 == IF done' THEN {} ELSE {1}
    <2>1. open = {1} /\ open2 = {}
        BY <1>1
    <2> HIDE DEF open, open2
    <2>2. partial' = \E c \in open : HasUnclosedOpener(OneChannel(Arrived)[c])
        <3>1. HasUnclosedOpener(message) \in BOOLEAN
            BY DEF HasUnclosedOpener
        <3> QED
            BY <1>7, <1>9, <2>1, <3>1
    <2>3. \A c \in {1} : IF c \in open THEN Stream!GivesRest(c)
                        ELSE OneChannel(out')[c] = OneChannel(out)[c]
        BY <1>8, <2>1
    <2> QED
        BY <1>2, <1>7, <2>1, <2>2, <2>3, Zenon DEF Stream!End, Arrived, open, open2
<1> QED
    BY <1>10 DEF Stream!Next

(* The buffer restores a stream: whatever the chunks are, what has gone out*)
(* begins what restoring the message gives, all of it comes out at the end *)
(* unless the message ends inside a placeholder, and the flag says which   *)
(* (buffer.py:58-107).                                                     *)
THEOREM BufferRestoresStream ==
    ASSUME PlainMessages
    PROVE  BufferSpec => Implements
<1>1. BufferInit => Stream!Init
    <2> SUFFICES ASSUME BufferInit PROVE Stream!Init
        OBVIOUS
    <2>1. rest = message /\ out = <<>> /\ done = FALSE /\ partial = FALSE
          /\ message \in Seq(MessageChars)
        BY MessagesAreTexts DEF BufferInit, PlainMessages
    <2>2. SubSeq(message, 1, Len(message) - Len(rest)) = <<>>
        <3>1. Len(message) - Len(rest) = 0
            BY <2>1
        <3>2. SubSeq(message, 1, 0) = <<>>
            BY <2>1, SubSeqEmpty
        <3> QED
            BY <3>1, <3>2
    <2> QED
        BY <2>1, <2>2 DEF Stream!Init, OneChannel
<1>2. BufferInv /\ [BufferNext]_(bufferVars) => [Stream!Next]_(Stream!vars)
    <2> SUFFICES ASSUME BufferInv, [BufferNext]_(bufferVars)
                 PROVE  [Stream!Next]_(Stream!vars)
        OBVIOUS
    <2>1. ASSUME NEW n \in 1..MaxChunk, Chunk(n) PROVE Stream!Next
        BY <2>1, ChunkPasses
    <2>2. ASSUME Flush PROVE Stream!Next
        BY <2>2, FlushEnds
    <2>3. ASSUME UNCHANGED bufferVars PROVE UNCHANGED Stream!vars
        BY <2>3 DEF bufferVars, Stream!vars, OneChannel
    <2> QED
        BY <2>1, <2>2, <2>3 DEF BufferNext
<1> QED
    BY <1>1, <1>2, BufferHoldsTheRest, PTL DEF BufferSpec, Implements, Stream!Spec

-----------------------------------------------------------------------------

(* The two regimes compute with the same rule too.                         *)
LEMMA BytesCut ==
    ASSUME NEW text
    PROVE  Bytes!Cut(text) = Cut(text)
<1>1. ASSUME NEW t
      PROVE  Bytes!HoldBackPoint(t) = HoldBackPoint(t)
    <2>1. Bytes!LastUnclosedOpener(t) = LastUnclosedOpener(t)
        BY DEF LastUnclosedOpener, LastOpener, LiteralAt, Max,
               Bytes!LastUnclosedOpener, Bytes!LastOpener, Bytes!LiteralAt, Bytes!Max
    <2>2. Bytes!TrailingOpenerPrefix(t) = TrailingOpenerPrefix(t)
        BY DEF TrailingOpenerPrefix, LiteralAt, Max,
               Bytes!TrailingOpenerPrefix, Bytes!LiteralAt, Bytes!Max
    <2> QED
        BY <2>1, <2>2 DEF HoldBackPoint, Min, Bytes!HoldBackPoint, Bytes!Min
<1>2. Bytes!Window = Window
    BY DEF Window, Bytes!Window
<1> QED
    BY <1>1, <1>2 DEF Cut, Bytes!Cut

LEMMA BytesUnclosed ==
    ASSUME NEW text
    PROVE  Bytes!HasUnclosedOpener(text) <=> HasUnclosedOpener(text)
BY DEF HasUnclosedOpener, LastUnclosedOpener, LastOpener, TrailingOpenerPrefix, LiteralAt, Max,
       Bytes!HasUnclosedOpener, Bytes!LastUnclosedOpener, Bytes!LastOpener,
       Bytes!TrailingOpenerPrefix, Bytes!LiteralAt, Bytes!Max

LEMMA BytesRestore ==
    ASSUME NEW text
    PROVE  Bytes!Restore(text, Vault) = Restore(text, Vault)
BY DEF Restore, MatchesAt, MatchEnd, BodyEnds, LiteralAt, Max,
       Bytes!Restore, Bytes!MatchesAt, Bytes!MatchEnd, Bytes!BodyEnds, Bytes!LiteralAt, Bytes!Max

LEMMA ObjectsCut ==
    ASSUME NEW text
    PROVE  Objects!Cut(text) = Cut(text)
<1>1. ASSUME NEW t
      PROVE  Objects!HoldBackPoint(t) = HoldBackPoint(t)
    <2>1. Objects!LastUnclosedOpener(t) = LastUnclosedOpener(t)
        BY DEF LastUnclosedOpener, LastOpener, LiteralAt, Max,
               Objects!LastUnclosedOpener, Objects!LastOpener, Objects!LiteralAt, Objects!Max
    <2>2. Objects!TrailingOpenerPrefix(t) = TrailingOpenerPrefix(t)
        BY DEF TrailingOpenerPrefix, LiteralAt, Max,
               Objects!TrailingOpenerPrefix, Objects!LiteralAt, Objects!Max
    <2> QED
        BY <2>1, <2>2 DEF HoldBackPoint, Min, Objects!HoldBackPoint, Objects!Min
<1>2. Objects!Window = Window
    BY DEF Window, Objects!Window
<1> QED
    BY <1>1, <1>2 DEF Cut, Objects!Cut

LEMMA ObjectsUnclosed ==
    ASSUME NEW text
    PROVE  Objects!HasUnclosedOpener(text) <=> HasUnclosedOpener(text)
BY DEF HasUnclosedOpener, LastUnclosedOpener, LastOpener, TrailingOpenerPrefix, LiteralAt, Max,
       Objects!HasUnclosedOpener, Objects!LastUnclosedOpener, Objects!LastOpener,
       Objects!TrailingOpenerPrefix, Objects!LiteralAt, Objects!Max

LEMMA ObjectsRestore ==
    ASSUME NEW text
    PROVE  Objects!Restore(text, Vault) = Restore(text, Vault)
BY DEF Restore, MatchesAt, MatchEnd, BodyEnds, LiteralAt, Max,
       Objects!Restore, Objects!MatchesAt, Objects!MatchEnd, Objects!BodyEnds,
       Objects!LiteralAt, Objects!Max

FrameChars == UNION {Range(text) : text \in Fragments \cup StartTexts}

TextChars == FrameChars \cup VaultChars

LEMMA TextsGiven ==
    /\ GivesTexts(Vault, TextChars)
    /\ Fragments \subseteq Seq(TextChars)
    /\ StartTexts \subseteq Seq(TextChars)
<1>1. GivesTexts(Vault, TextChars)
    <2>1. VaultChars \subseteq TextChars
        BY DEF TextChars
    <2> QED
        BY <2>1, VaultGives
<1>2. ASSUME NEW text \in Fragments \cup StartTexts PROVE text \in Seq(TextChars)
    <2>1. text \in Seq(Range(text))
        BY TextsAssumption
    <2>2. Range(text) \subseteq TextChars
        BY DEF TextChars, FrameChars
    <2> QED
        BY <2>1, <2>2
<1> QED
    BY <1>1, <1>2

(* A buffer that is fed and drained: what it holds then cannot be drained  *)
(* further, and what it gives is a text.                                   *)
LEMMA FedAndDrained ==
    ASSUME NEW b \in Seq(TextChars), NEW t \in Seq(TextChars)
    PROVE  LET text == b \o t
               cut  == Cut(text)
               left == SubSeq(text, cut + 1, Len(text))
           IN  /\ left \in Seq(TextChars) /\ Cut(left) = 0
               /\ Restore(SubSeq(text, 1, cut), Vault) \in Seq(TextChars)
<1> DEFINE text == b \o t
           cut  == Cut(text)
           left == SubSeq(text, cut + 1, Len(text))
           front == SubSeq(text, 1, cut)
<1>1. text \in Seq(TextChars)
    BY ConcatProperties
<1> HIDE DEF text
<1>2. cut \in 0..Len(text) /\ Len(text) \in Nat
    BY <1>1, CutIs
<1>3. Cut(left) = 0
    BY <1>1, CutIdempotent
<1>4. left \in Seq(TextChars) /\ front \in Seq(TextChars)
    <2> HIDE DEF cut
    <2>1. cut + 1 \in 1..Len(text)+1
        BY <1>2
    <2> QED
        BY <1>1, <1>2, <2>1
<1> HIDE DEF front
<1>5. Restore(front, Vault) \in Seq(TextChars)
    BY <1>4, TextsGiven, RestoreType
<1> HIDE DEF left
<1> QED
    BY <1>3, <1>4, <1>5 DEF text, left, front

(* A buffer that cannot be drained gives nothing.                          *)
LEMMA NothingToDrain ==
    ASSUME NEW b \in Seq(TextChars), Cut(b) = 0
    PROVE  /\ Restore(SubSeq(b, 1, Cut(b)), Vault) = <<>>
           /\ SubSeq(b, Cut(b) + 1, Len(b)) = b
<1>1. SubSeq(b, 1, 0) = <<>> /\ SubSeq(b, 0 + 1, Len(b)) = b
    BY SubSeqEmpty, SubSeqFull
<1> QED
    BY <1>1, RestoreNothing

-----------------------------------------------------------------------------

(* A chunk of objects is a text too.                                       *)
LEMMA ChunkTextType ==
    ASSUME NEW text \in Objects!Texts
    PROVE  /\ Objects!ChunkText(text) \in Seq(TextChars)
           /\ DOMAIN text \in SUBSET ChoiceIds /\ DOMAIN text # {}
           /\ \A c \in DOMAIN text : text[c] \in Fragments
           /\ ChoiceIds = {0} => Objects!ChunkText(text) = text[0] /\ DOMAIN text = {0}
<1> DEFINE n == Max(ChoiceIds) + 1
           slots == [k \in 1..n |-> IF k - 1 \in DOMAIN text THEN text[k-1] ELSE <<>>]
<1>1. PICK C \in (SUBSET ChoiceIds) \ {{}} : text \in [C -> Fragments]
    BY DEF Objects!Texts
<1>2. n \in Nat /\ ChoiceIds = 0..n-1 /\ 0 \in ChoiceIds
    BY ChoicesAssumption
<1>3. Objects!ChunkText(text) = FlattenSeq(slots)
    BY DEF Objects!ChunkText, FlattenSeq, Objects!FlattenSeq, Max, Objects!Max
<1>4. slots \in Seq(Seq(TextChars)) /\ Len(slots) = n
    <2>1. <<>> \in Seq(TextChars)
        BY EmptySeq
    <2>2. \A k \in 1..n : slots[k] \in Seq(TextChars)
        BY <1>1, <2>1, TextsGiven
    <2>3. slots \in [1..n -> Seq(TextChars)]
        BY <2>2
    <2> HIDE DEF slots, n
    <2> QED
        BY <1>2, <2>3
<1>5. FlattenSeq(slots) \in Seq(TextChars)
    BY <1>4, FlattenSeqType
<1>6. ASSUME ChoiceIds = {0} PROVE FlattenSeq(slots) = text[0] /\ DOMAIN text = {0}
    <2>1. C = {0} /\ n = 1
        <3>1. C = {0}
            BY <1>6
        <3>2. n - 1 \in {0}
            <4> HIDE DEF n
            <4>1. 0 \in 0..n-1 /\ 0..n-1 = {0}
                BY <1>2, <1>6
            <4>2. n - 1 \in 0..n-1
                BY <1>2, <4>1
            <4> QED
                BY <4>1, <4>2
        <3> HIDE DEF n
        <3> QED
            BY <1>2, <3>1, <3>2
    <2>2. slots[1] = text[0] /\ Len(slots) = 1
        <3>1. 0 \in DOMAIN text
            BY <1>1, <2>1
        <3>2. slots[1] = text[0]
            BY <2>1, <3>1
        <3> QED
            BY <1>4, <2>1, <3>2
    <2> HIDE DEF slots
    <2>3. FlattenSeq(slots) = Flatten(slots)[1]
        <3>1. Len(slots) # 0
            BY <2>2
        <3>2. FlattenSeq(slots) = IF Len(slots) = 0 THEN <<>> ELSE Flatten(slots)[Len(slots)]
            BY <1>4, FlattenSeqIs
        <3> QED
            BY <2>2, <3>1, <3>2
    <2>4. Flatten(slots)[1] = slots[1]
        <3>1. 1 \in 1..Len(slots)
            BY <2>2
        <3> QED
            BY <1>4, <3>1, FlattenStep
    <2> QED
        BY <1>1, <2>1, <2>2, <2>3, <2>4
<1>7. DOMAIN text \in SUBSET ChoiceIds /\ DOMAIN text # {} /\ \A c \in DOMAIN text : text[c] \in Fragments
    BY <1>1
<1> HIDE DEF slots
<1> QED
    BY <1>3, <1>5, <1>6, <1>7

(* The buffer of the objects regime cannot be drained between two chunks,  *)
(* so a chunk without text gives nothing to carry over.                    *)
ObjectsInv ==
    /\ buf \in Seq(TextChars)
    /\ Cut(buf) = 0
    /\ pending = <<>>

LEMMA EmptyBuffer == <<>> \in Seq(TextChars) /\ Cut(<<>>) = 0 /\ <<>> \o <<>> = <<>>
<1>1. <<>> \in Seq(TextChars) /\ Len(<<>>) <= Window
    BY LiteralLengths, EmptySeq
<1>2. Cut(<<>>) = 0
    BY <1>1, CutIs
<1> QED
    BY <1>1, <1>2, ConcatEmptySeq

LEMMA ObjectsNext ==
    ASSUME ObjectsInv, Objects!Next
    PROVE  ObjectsInv'
<1>1. ASSUME NEW text \in Objects!Texts, Objects!ContentChunk(text) PROVE ObjectsInv'
    <2> DEFINE t == Objects!ChunkText(text)
               held2 == buf \o t
               cut == Cut(held2)
    <2>1. t \in Seq(TextChars) /\ buf \in Seq(TextChars)
        BY ChunkTextType DEF ObjectsInv
    <2>2. buf' = SubSeq(held2, cut + 1, Len(held2)) /\ pending' = <<>>
        BY <1>1, ObjectsCut DEF Objects!ContentChunk
    <2> HIDE DEF t
    <2>3. /\ SubSeq(held2, cut + 1, Len(held2)) \in Seq(TextChars)
          /\ Cut(SubSeq(held2, cut + 1, Len(held2))) = 0
        BY <2>1, FedAndDrained
    <2> QED
        BY <2>2, <2>3 DEF ObjectsInv
<1>2. ASSUME NEW finish \in BOOLEAN, Objects!OtherChunk(finish) PROVE ObjectsInv'
    <2>1. /\ pending' = pending \o Restore(SubSeq(buf, 1, Cut(buf)), Vault)
          /\ buf' = SubSeq(buf, Cut(buf) + 1, Len(buf))
        BY <1>2, ObjectsCut, ObjectsRestore DEF Objects!OtherChunk
    <2>2. pending' = <<>> \o <<>> /\ buf' = buf
        BY <2>1, NothingToDrain DEF ObjectsInv
    <2> QED
        BY <2>2, EmptyBuffer DEF ObjectsInv
<1>3. ASSUME Objects!End PROVE ObjectsInv'
    BY <1>3, EmptyBuffer DEF Objects!End, ObjectsInv
<1>4. ASSUME UNCHANGED <<buf, pending>> PROVE ObjectsInv'
    BY <1>4 DEF ObjectsInv
<1> QED
    BY <1>1, <1>2, <1>3, <1>4
    DEF Objects!Next, Objects!RestoreFails, Objects!UpstreamFails, Objects!EndFails

-----------------------------------------------------------------------------

(* The buffers of a block exist while the block is open.                   *)
BytesInv ==
    /\ phase \in [Blocks -> {"ahead", "open", "stopped"}]
    /\ bufs \in [Blocks -> [Bytes!Pointers -> Seq(TextChars)]]
    /\ blockSent \in [Blocks -> Seq(TextChars)]
    /\ blockGot \in [Blocks -> Seq(TextChars)]
    /\ \A b \in Blocks : phase[b] # "open" => bufs[b] = Bytes!NoBuffers
    /\ frames \in 0..MaxFrames
    /\ bytesStatus \in {"running", "ended", "error"}

(* What a buffer with text gives when it is drained, and what it keeps.    *)
Given(text) == Restore(SubSeq(text, 1, Cut(text)), Vault)

Left(text) == SubSeq(text, Cut(text) + 1, Len(text))

(* A frame with text changes one buffer of one block.                      *)
LEMMA SlotFed ==
    ASSUME BytesInv, NEW b \in Blocks, NEW p \in Bytes!Pointers, NEW text \in Seq(TextChars),
           Bytes!RestoreSlot(b, p, text)
    PROVE  /\ bufs' \in [Blocks -> [Bytes!Pointers -> Seq(TextChars)]]
           /\ blockSent' \in [Blocks -> Seq(TextChars)]
           /\ blockGot' \in [Blocks -> Seq(TextChars)]
           /\ blockSent' = [blockSent EXCEPT ![b] = blockSent[b] \o text]
           /\ blockGot' = [blockGot EXCEPT ![b] = blockGot[b] \o Given(bufs[b][p] \o text)]
           /\ bufs' = [bufs EXCEPT ![b] = [bufs[b] EXCEPT ![p] = Left(bufs[b][p] \o text)]]
<1> DEFINE S == TextChars
           held2 == bufs[b][p] \o text
           cut == Cut(held2)
           left == SubSeq(held2, cut + 1, Len(held2))
           given == Restore(SubSeq(held2, 1, cut), Vault)
<1>1. /\ blockSent' = [blockSent EXCEPT ![b] = @ \o text]
      /\ blockGot'  = [blockGot EXCEPT ![b] = @ \o given]
      /\ bufs' = [bufs EXCEPT ![b][p] = left]
    BY BytesCut, BytesRestore DEF Bytes!RestoreSlot
<1>2. /\ bufs \in [Blocks -> [Bytes!Pointers -> Seq(S)]]
      /\ blockSent \in [Blocks -> Seq(S)] /\ blockGot \in [Blocks -> Seq(S)]
    BY DEF BytesInv
<1>3. bufs[b][p] \in Seq(S) /\ blockSent[b] \in Seq(S) /\ blockGot[b] \in Seq(S)
    BY <1>2
<1>4. left \in Seq(S) /\ given \in Seq(S)
    BY <1>3, FedAndDrained
<1> HIDE DEF left, given
<1>5. blockSent[b] \o text \in Seq(S) /\ blockGot[b] \o given \in Seq(S)
    BY <1>3, <1>4, ConcatProperties
<1>6. blockSent' \in [Blocks -> Seq(S)] /\ blockGot' \in [Blocks -> Seq(S)]
    BY <1>1, <1>2, <1>5
<1>7. bufs' \in [Blocks -> [Bytes!Pointers -> Seq(S)]]
    BY <1>1, <1>2, <1>4
<1>8. left = Left(bufs[b][p] \o text) /\ given = Given(bufs[b][p] \o text)
    BY DEF left, given, Left, Given
<1>9. bufs' = [bufs EXCEPT ![b] = [bufs[b] EXCEPT ![p] = left]]
    BY <1>1
<1> QED
    BY <1>1, <1>6, <1>7, <1>8, <1>9

(* The tails of a block are texts, and empty when it is not open.          *)
LEMMA BlockTailType ==
    ASSUME BytesInv, NEW b \in Blocks
    PROVE  /\ Bytes!BlockTail(b) \in Seq(TextChars)
           /\ phase[b] # "open" => Bytes!BlockTail(b) = <<>>
           /\ Bytes!RestoredTail(<<>>) = <<>>
<1>1. \A p \in Bytes!Pointers : bufs[b][p] \in Seq(TextChars)
    BY DEF BytesInv
<1>2. ASSUME NEW text \in Seq(TextChars) PROVE Bytes!RestoredTail(text) \in Seq(TextChars)
    BY BytesRestore, RestoreType, TextsGiven, EmptyBuffer DEF Bytes!RestoredTail
<1>3. Bytes!RestoredTail(<<>>) = <<>>
    BY BytesRestore, RestoreNothing DEF Bytes!RestoredTail
<1>4. Bytes!RestoredTail(bufs[b]["start"]) \in Seq(TextChars)
      /\ Bytes!RestoredTail(bufs[b]["delta"]) \in Seq(TextChars)
    BY <1>1, <1>2 DEF Bytes!Pointers
<1>5. Bytes!BlockTail(b) \in Seq(TextChars)
    BY <1>4, ConcatProperties DEF Bytes!BlockTail
<1>6. ASSUME phase[b] # "open" PROVE Bytes!BlockTail(b) = <<>>
    <2>1. bufs[b] = Bytes!NoBuffers
        BY <1>6 DEF BytesInv
    <2>2. bufs[b]["start"] = <<>> /\ bufs[b]["delta"] = <<>>
        BY <2>1 DEF Bytes!NoBuffers, Bytes!Pointers
    <2> QED
        BY <1>3, <2>2, EmptyBuffer DEF Bytes!BlockTail
<1> QED
    BY <1>3, <1>5, <1>6

LEMMA NoBuffersType == Bytes!NoBuffers \in [Bytes!Pointers -> Seq(TextChars)]
BY EmptyBuffer DEF Bytes!NoBuffers

LEMMA BytesNext ==
    ASSUME BytesInv, Bytes!Next
    PROVE  /\ BytesInv'
           /\ \A b \in Blocks : phase[b] = "stopped" => blockGot'[b] = blockGot[b]
<1> USE FramesAssumption
<1>1. ASSUME NEW b \in Blocks, NEW text \in StartTexts, Bytes!BlockStart(b, text)
      PROVE  BytesInv' /\ \A x \in Blocks : phase[x] = "stopped" => blockGot'[x] = blockGot[x]
    <2>1. text \in Seq(TextChars) /\ "start" \in Bytes!Pointers
        BY TextsGiven DEF Bytes!Pointers
    <2>2. /\ phase[b] = "ahead" /\ frames < MaxFrames /\ frames' = frames + 1
          /\ phase' = [phase EXCEPT ![b] = "open"] /\ bytesStatus' = bytesStatus
          /\ Bytes!RestoreSlot(b, "start", text)
        BY <1>1 DEF Bytes!BlockStart
    <2>3. /\ bufs' \in [Blocks -> [Bytes!Pointers -> Seq(TextChars)]]
          /\ blockSent' \in [Blocks -> Seq(TextChars)]
          /\ blockGot' \in [Blocks -> Seq(TextChars)]
          /\ \A x \in Blocks \ {b} : bufs'[x] = bufs[x] /\ blockGot'[x] = blockGot[x]
        BY <2>1, <2>2, SlotFed DEF BytesInv
    <2>4. \A x \in Blocks : phase'[x] # "open" => bufs'[x] = Bytes!NoBuffers
        BY <2>2, <2>3 DEF BytesInv
    <2>5. phase' \in [Blocks -> {"ahead", "open", "stopped"}]
        BY <2>2 DEF BytesInv
    <2>6. frames' \in 0..MaxFrames /\ bytesStatus' \in {"running", "ended", "error"}
        BY <2>2 DEF BytesInv
    <2>7. \A x \in Blocks : phase[x] = "stopped" => blockGot'[x] = blockGot[x]
        BY <2>2, <2>3
    <2> QED
        BY <2>3, <2>4, <2>5, <2>6, <2>7 DEF BytesInv
<1>2. ASSUME NEW b \in Blocks, NEW text \in Fragments, Bytes!Delta(b, text)
      PROVE  BytesInv' /\ \A x \in Blocks : phase[x] = "stopped" => blockGot'[x] = blockGot[x]
    <2>1. text \in Seq(TextChars) /\ "delta" \in Bytes!Pointers
        BY TextsGiven DEF Bytes!Pointers
    <2>2. /\ phase[b] = "open" /\ frames < MaxFrames /\ frames' = frames + 1
          /\ phase' = phase /\ bytesStatus' = bytesStatus
          /\ Bytes!RestoreSlot(b, "delta", text)
        BY <1>2 DEF Bytes!Delta
    <2>3. /\ bufs' \in [Blocks -> [Bytes!Pointers -> Seq(TextChars)]]
          /\ blockSent' \in [Blocks -> Seq(TextChars)]
          /\ blockGot' \in [Blocks -> Seq(TextChars)]
          /\ \A x \in Blocks \ {b} : bufs'[x] = bufs[x] /\ blockGot'[x] = blockGot[x]
        BY <2>1, <2>2, SlotFed DEF BytesInv
    <2>4. \A x \in Blocks : phase'[x] # "open" => bufs'[x] = Bytes!NoBuffers
        BY <2>2, <2>3 DEF BytesInv
    <2> QED
        BY <2>2, <2>3, <2>4 DEF BytesInv
<1>3. ASSUME NEW b \in Blocks, Bytes!BlockStop(b)
      PROVE  BytesInv' /\ \A x \in Blocks : phase[x] = "stopped" => blockGot'[x] = blockGot[x]
    <2> DEFINE tail == Bytes!BlockTail(b)
    <2>1. /\ phase[b] = "open" /\ phase' = [phase EXCEPT ![b] = "stopped"]
          /\ blockGot' = [blockGot EXCEPT ![b] = @ \o tail]
          /\ bufs' = [bufs EXCEPT ![b] = Bytes!NoBuffers]
          /\ blockSent' = blockSent /\ frames' = frames /\ bytesStatus' = bytesStatus
        BY <1>3 DEF Bytes!BlockStop
    <2>2. tail \in Seq(TextChars) /\ blockGot[b] \in Seq(TextChars)
        BY BlockTailType DEF BytesInv
    <2> HIDE DEF tail
    <2>3. blockGot[b] \o tail \in Seq(TextChars)
        BY <2>2, ConcatProperties
    <2>4. /\ blockGot' \in [Blocks -> Seq(TextChars)]
          /\ bufs' \in [Blocks -> [Bytes!Pointers -> Seq(TextChars)]]
          /\ phase' \in [Blocks -> {"ahead", "open", "stopped"}]
        BY <2>1, <2>3, NoBuffersType DEF BytesInv
    <2>5. \A x \in Blocks : phase'[x] # "open" => bufs'[x] = Bytes!NoBuffers
        BY <2>1 DEF BytesInv
    <2> QED
        BY <2>1, <2>4, <2>5 DEF BytesInv
<1>4. ASSUME Bytes!End
      PROVE  BytesInv' /\ \A x \in Blocks : phase[x] = "stopped" => blockGot'[x] = blockGot[x]
    <2>1. /\ blockGot' = [b \in Blocks |-> blockGot[b] \o Bytes!BlockTail(b)]
          /\ bufs' = [b \in Blocks |-> Bytes!NoBuffers]
          /\ bytesStatus' \in {"ended", "error"}
          /\ blockSent' = blockSent /\ frames' = frames /\ phase' = phase
        BY <1>4 DEF Bytes!End
    <2>2. \A b \in Blocks : blockGot[b] \o Bytes!BlockTail(b) \in Seq(TextChars)
        BY BlockTailType, ConcatProperties DEF BytesInv
    <2>3. \A b \in Blocks : phase[b] # "open" => blockGot[b] \o Bytes!BlockTail(b) = blockGot[b]
        BY BlockTailType, ConcatEmptySeq DEF BytesInv
    <2>4. /\ blockGot' \in [Blocks -> Seq(TextChars)]
          /\ bufs' \in [Blocks -> [Bytes!Pointers -> Seq(TextChars)]]
        BY <2>1, <2>2, NoBuffersType
    <2>5. \A x \in Blocks : phase[x] = "stopped" => blockGot'[x] = blockGot[x]
        BY <2>1, <2>3
    <2> QED
        BY <2>1, <2>4, <2>5 DEF BytesInv
<1>5. ASSUME NEW flushed \in SUBSET Blocks, Bytes!EndFails(flushed)
      PROVE  BytesInv' /\ \A x \in Blocks : phase[x] = "stopped" => blockGot'[x] = blockGot[x]
    <2>1. /\ blockGot' = [b \in Blocks |-> IF b \in flushed THEN blockGot[b] \o Bytes!BlockTail(b)
                                                           ELSE blockGot[b]]
          /\ bufs' = bufs /\ bytesStatus' = "error"
          /\ blockSent' = blockSent /\ frames' = frames /\ phase' = phase
        BY <1>5 DEF Bytes!EndFails
    <2>2. \A b \in Blocks : blockGot[b] \o Bytes!BlockTail(b) \in Seq(TextChars)
        BY BlockTailType, ConcatProperties DEF BytesInv
    <2>3. \A b \in Blocks : phase[b] # "open" => blockGot[b] \o Bytes!BlockTail(b) = blockGot[b]
        BY BlockTailType, ConcatEmptySeq DEF BytesInv
    <2>4. blockGot' \in [Blocks -> Seq(TextChars)]
        BY <2>1, <2>2 DEF BytesInv
    <2>5. \A x \in Blocks : phase[x] = "stopped" => blockGot'[x] = blockGot[x]
        BY <2>1, <2>3
    <2> QED
        BY <2>1, <2>4, <2>5 DEF BytesInv
<1>6. ASSUME UNCHANGED <<phase, bufs, blockSent, blockGot>>, bytesStatus' = "error",
             frames' = frames \/ (frames < MaxFrames /\ frames' = frames + 1)
      PROVE  BytesInv' /\ \A x \in Blocks : phase[x] = "stopped" => blockGot'[x] = blockGot[x]
    BY <1>6 DEF BytesInv
<1> QED
    BY <1>1, <1>2, <1>3, <1>4, <1>5, <1>6
    DEF Bytes!Next, Bytes!RestoreFails, Bytes!UpstreamFails, Bytes!BlockStopFails

(* Both regimes start with empty buffers, and only the one that was        *)
(* selected moves.                                                         *)
LEMMA RegimesInv == Spec => [](BytesInv /\ ObjectsInv)
<1>1. Init => BytesInv /\ ObjectsInv
    <2> SUFFICES ASSUME Init PROVE BytesInv /\ ObjectsInv
        OBVIOUS
    <2>1. ObjectsInv
        BY EmptyBuffer DEF Init, Objects!Init, ObjectsInv
    <2>2. bufs = [b \in Blocks |-> Bytes!NoBuffers]
        BY DEF Init, Bytes!Init, Bytes!NoBuffers
    <2>3. BytesInv
        BY <2>2, EmptyBuffer, NoBuffersType, FramesAssumption DEF Init, Bytes!Init, BytesInv
    <2> QED
        BY <2>1, <2>3
<1>2. BytesInv /\ ObjectsInv /\ [Next]_vars => BytesInv' /\ ObjectsInv'
    <2> SUFFICES ASSUME BytesInv, ObjectsInv, [Next]_vars PROVE BytesInv' /\ ObjectsInv'
        OBVIOUS
    <2>1. ASSUME ObjectsStep PROVE ObjectsInv' /\ UNCHANGED bytesVars
        BY <2>1, ObjectsNext DEF ObjectsStep
    <2>2. ASSUME BytesStep PROVE BytesInv' /\ UNCHANGED objectsVars
        BY <2>2, BytesNext DEF BytesStep
    <2>3. ASSUME UNCHANGED objectsVars PROVE ObjectsInv'
        BY <2>3 DEF objectsVars, ObjectsInv
    <2>4. ASSUME UNCHANGED bytesVars PROVE BytesInv'
        BY <2>4 DEF bytesVars, BytesInv
    <2> QED
        BY <2>1, <2>2, <2>3, <2>4 DEF Next, FirstChunk, ErrorFrame, vars
<1> QED
    BY <1>1, <1>2, PTL DEF Spec

(* Each chunk is counted, and the buffer is empty when the stream ended.   *)
ObjectsTypes ==
    /\ regime \in {"none", "empty", "bytes", "objects"}
    /\ errorFrame \in {"none", "anthropic", "openai"}
    /\ Objects!TypeOK

LEMMA RegimeTypes == Spec => []ObjectsTypes
<1>1. Init => ObjectsTypes
    <2> SUFFICES ASSUME Init PROVE ObjectsTypes
        OBVIOUS
    <2>1. /\ choiceSent = [c \in ChoiceIds |-> <<>>] /\ choiceGot = [c \in ChoiceIds |-> <<>>]
          /\ chunks = 0 /\ finished = FALSE /\ objectsStatus = "running"
          /\ regime = "none" /\ errorFrame = "none"
        BY DEF Init, Objects!Init
    <2>2. 0 \in 0..MaxChunks
        BY ChunksAssumption
    <2>3. DOMAIN choiceSent = ChoiceIds /\ DOMAIN choiceGot = ChoiceIds
        BY <2>1
    <2> QED
        BY <2>1, <2>2, <2>3 DEF ObjectsTypes, Objects!TypeOK
<1>2. ObjectsTypes /\ [Next]_vars => ObjectsTypes'
    <2> SUFFICES ASSUME ObjectsTypes, [Next]_vars PROVE ObjectsTypes'
        OBVIOUS
    <2>1. ASSUME Objects!Next PROVE Objects!TypeOK'
        <3> USE ChunksAssumption DEF ObjectsTypes, Objects!TypeOK
        <3>1. ASSUME NEW text \in Objects!Texts, Objects!ContentChunk(text) PROVE Objects!TypeOK'
            BY <3>1 DEF Objects!ContentChunk, Objects!WriteObjectSlots
        <3>2. ASSUME NEW finish \in BOOLEAN, Objects!OtherChunk(finish) PROVE Objects!TypeOK'
            BY <3>2 DEF Objects!OtherChunk
        <3>3. ASSUME NEW text \in Objects!Texts, Objects!RestoreFails(text) PROVE Objects!TypeOK'
            BY <3>3 DEF Objects!RestoreFails
        <3>4. ASSUME Objects!UpstreamFails PROVE Objects!TypeOK'
            BY <3>4 DEF Objects!UpstreamFails
        <3>5. ASSUME Objects!End PROVE Objects!TypeOK'
            BY <3>5 DEF Objects!End
        <3>6. ASSUME Objects!EndFails PROVE Objects!TypeOK'
            BY <3>6 DEF Objects!EndFails
        <3> QED
            BY <2>1, <3>1, <3>2, <3>3, <3>4, <3>5, <3>6 DEF Objects!Next
    <2>2. ASSUME UNCHANGED objectsVars PROVE Objects!TypeOK'
        BY <2>2 DEF objectsVars, ObjectsTypes, Objects!TypeOK
    <2>3. regime' \in {"none", "empty", "bytes", "objects"}
        BY DEF Next, FirstChunk, BytesStep, ObjectsStep, ErrorFrame, vars, ObjectsTypes
    <2>4. errorFrame' \in {"none", "anthropic", "openai"}
        BY DEF Next, FirstChunk, BytesStep, ObjectsStep, ErrorFrame, vars, ObjectsTypes
    <2>5. Objects!TypeOK'
        BY <2>1, <2>2 DEF Next, FirstChunk, BytesStep, ObjectsStep, ErrorFrame, vars
    <2> QED
        BY <2>3, <2>4, <2>5 DEF ObjectsTypes
<1> QED
    BY <1>1, <1>2, PTL DEF Spec

(* A block that is not open has no buffers, and an ended stream of objects *)
(* holds nothing (restore.py:139-159, 320-337).                            *)
THEOREM StreamTypes == Spec => []TypeOK
<1>1. BytesInv => Bytes!TypeOK
    <2> SUFFICES ASSUME BytesInv PROVE Bytes!TypeOK
        OBVIOUS
    <2>1. DOMAIN bufs = Blocks /\ \A b \in Blocks : DOMAIN bufs[b] = Bytes!Pointers
        BY DEF BytesInv
    <2>2. \A b \in Blocks : phase[b] # "open" => bufs[b] = [p \in Bytes!Pointers |-> <<>>]
        BY DEF BytesInv, Bytes!NoBuffers
    <2> QED
        BY <2>1, <2>2 DEF BytesInv, Bytes!TypeOK
<1>2. BytesInv /\ ObjectsTypes => TypeOK
    BY <1>1 DEF ObjectsTypes, TypeOK
<1> QED
    BY <1>2, RegimesInv, RegimeTypes, PTL

(* Restored text never waits in pending for a later chunk: a chunk without *)
(* text finds nothing it could drain, whatever was fed before (restore.py: *)
(* 304-307, "preserving ordering").                                        *)
THEOREM PendingStaysEmpty == Spec => []NothingPending
<1>1. ObjectsInv => NothingPending
    BY DEF ObjectsInv, NothingPending, Objects!NothingPending
<1> QED
    BY <1>1, RegimesInv, PTL

(* Nothing of a block follows its stop frame: the flush before it leaves no*)
(* buffer behind (restore.py:132-135, "held text never emits after         *)
(* content_block_stop").                                                   *)
THEOREM StopIsLast == Spec => NothingAfterStop
<1>1. BytesInv /\ [Next]_vars =>
          [\A b \in Blocks : phase[b] = "stopped" => blockGot'[b] = blockGot[b]]_(Bytes!vars)
    <2> SUFFICES ASSUME BytesInv, [Next]_vars
                 PROVE  [\A b \in Blocks : phase[b] = "stopped" => blockGot'[b] = blockGot[b]]_(Bytes!vars)
        OBVIOUS
    <2>1. ASSUME BytesStep PROVE \A b \in Blocks : phase[b] = "stopped" => blockGot'[b] = blockGot[b]
        BY <2>1, BytesNext DEF BytesStep
    <2>2. ASSUME UNCHANGED bytesVars PROVE UNCHANGED Bytes!vars
        BY <2>2 DEF bytesVars, Bytes!vars
    <2> QED
        BY <2>1, <2>2 DEF Next, FirstChunk, ObjectsStep, ErrorFrame, vars
<1> QED
    BY <1>1, RegimesInv, PTL DEF Spec, NothingAfterStop, Bytes!NothingAfterStop

-----------------------------------------------------------------------------

(* While the stream of objects runs, its buffer has drained what arrived   *)
(* for its one choice.                                                     *)
OneChoiceDrained ==
    /\ choiceSent \in [ChoiceIds -> Seq(TextChars)]
    /\ choiceGot \in [ChoiceIds -> Seq(TextChars)]
    /\ objectsStatus = "running" => Drained(choiceSent[0], buf, choiceGot[0], Vault)

PlainChoice == Unsuffixed(choiceSent[0])

LEMMA OneChoiceFed ==
    ASSUME UnambiguousFormat, ChoiceIds = {0}, ObjectsInv, OneChoiceDrained, PlainChoice',
           NEW text \in Objects!Texts, Objects!ContentChunk(text)
    PROVE  /\ OneChoiceDrained'
           /\ Drained(choiceSent'[0], buf', choiceGot'[0], Vault)
           /\ objectsStatus = "running" /\ objectsStatus' = objectsStatus
           /\ \E t \in Seq(TextChars) : choiceSent' = [choiceSent EXCEPT ![0] = choiceSent[0] \o t]
           /\ \E t \in Seq(TextChars) : choiceGot' = [choiceGot EXCEPT ![0] = choiceGot[0] \o t]
<1> DEFINE S == TextChars
           t == text[0]
           held2 == buf \o t
           cut == Cut(held2)
           left == SubSeq(held2, cut + 1, Len(held2))
           given == Restore(SubSeq(held2, 1, cut), Vault)
<1>1. t \in Seq(S) /\ DOMAIN text = {0} /\ Objects!ChunkText(text) = t
    BY ChunkTextType
<1>2. /\ buf \in Seq(S) /\ pending = <<>>
      /\ choiceSent \in [{0} -> Seq(S)] /\ choiceGot \in [{0} -> Seq(S)]
    BY DEF ObjectsInv, OneChoiceDrained
<1>3. left \in Seq(S) /\ given \in Seq(S)
    BY <1>1, <1>2, FedAndDrained
<1>4. pending \o given = given
    BY <1>2, <1>3, ConcatEmptySeq
<1>5. Objects!First(DOMAIN text) = 0
    <2>1. Objects!Min({0}) = 0
        BY DEF Objects!Min
    <2> QED
        BY <1>1, <2>1 DEF Objects!First
<1>6. /\ objectsStatus = "running" /\ objectsStatus' = objectsStatus
      /\ buf' = left
      /\ choiceGot' = [choiceGot EXCEPT ![0] = choiceGot[0] \o given]
      /\ choiceSent' = [c \in ChoiceIds |-> IF c \in DOMAIN text THEN choiceSent[c] \o text[c] ELSE choiceSent[c]]
    BY <1>1, <1>4, <1>5, ObjectsCut, ObjectsRestore
    DEF Objects!ContentChunk, Objects!WriteObjectSlots
<1> HIDE DEF left, given, t
<1>7. choiceSent' = [choiceSent EXCEPT ![0] = choiceSent[0] \o t]
    BY <1>1, <1>2, <1>6 DEF t
<1>8. choiceSent[0] \in Seq(S) /\ choiceGot[0] \in Seq(S)
    BY <1>2
<1>9. choiceSent[0] \o t \in Seq(S) /\ choiceGot[0] \o given \in Seq(S)
    BY <1>1, <1>3, <1>8, ConcatProperties
<1>10. /\ choiceSent' \in [{0} -> Seq(S)] /\ choiceSent'[0] = choiceSent[0] \o t
       /\ choiceGot' \in [{0} -> Seq(S)] /\ choiceGot'[0] = choiceGot[0] \o given
    BY <1>2, <1>6, <1>7, <1>9
<1>11. Drained(choiceSent[0] \o t, left, choiceGot[0] \o given, Vault)
    <2>1. Drained(choiceSent[0], buf, choiceGot[0], Vault)
        BY <1>6 DEF OneChoiceDrained
    <2>2. Unsuffixed(choiceSent[0] \o t)
        BY <1>10 DEF PlainChoice
    <2> DEFINE a == choiceSent[0]
               o == choiceGot[0]
    <2> HIDE DEF a, o
    <2>3. a \in Seq(S) /\ t \in Seq(S) /\ Unsuffixed(a \o t) /\ Drained(a, buf, o, Vault)
        BY <1>1, <1>8, <2>1, <2>2 DEF a, o
    <2>4. Drained(a \o t, left, o \o given, Vault)
        BY <2>3, TextsGiven, DrainedFeed DEF left, given
    <2> QED
        BY <2>4 DEF a, o
<1> QED
    BY <1>1, <1>3, <1>6, <1>7, <1>10, <1>11 DEF OneChoiceDrained

LEMMA ObjectsPrefix ==
    ASSUME NEW s, NEW t
    PROVE  Objects!Stream!IsPrefix(s, t) <=> IsPrefix(s, t)
BY DEF IsPrefix, Objects!Stream!IsPrefix

LEMMA GrownIsPrefix ==
    ASSUME NEW S, NEW s \in Seq(S), NEW u, \E t \in Seq(S) : u = s \o t
    PROVE  IsPrefix(s, u)
<1>1. PICK t \in Seq(S) : u = s \o t
    OBVIOUS
<1>2. IsPrefix(s, s \o t)
    BY PrefixOfConcat
<1> QED
    BY <1>1, <1>2

(* Every step of the regime is a step of the stream of its choice.         *)
LEMMA ObjectsStreamStep ==
    ASSUME UnambiguousFormat, ChoiceIds = {0}, ObjectsInv, OneChoiceDrained,
           PlainChoice, PlainChoice', Objects!Next
    PROVE  OneChoiceDrained' /\ [Objects!Stream!Next]_(Objects!Stream!vars)
<1> DEFINE S == TextChars
           a == choiceSent[0]
           o == choiceGot[0]
<1>1. a \in Seq(S) /\ o \in Seq(S) /\ DOMAIN choiceSent = {0} /\ DOMAIN choiceGot = {0}
    BY DEF OneChoiceDrained
<1>2. ASSUME objectsStatus = "running"
      PROVE  /\ IsPrefix(o, o) /\ IsPrefix(o, Restore(a, Vault))
             /\ Restore(buf, Vault) \in Seq(S)
             /\ Restore(a, Vault) = o \o Restore(buf, Vault)
             /\ HasUnclosedOpener(buf) <=> HasUnclosedOpener(a)
    <2>1. Drained(a, buf, o, Vault) /\ Unsuffixed(a)
        BY <1>2 DEF OneChoiceDrained, PlainChoice
    <2> HIDE DEF a, o
    <2> QED
        BY <1>1, <2>1, TextsGiven, DrainedGives, DrainedWhole, SameIsPrefix
<1>3. ASSUME NEW text \in Objects!Texts, Objects!ContentChunk(text)
      PROVE  OneChoiceDrained' /\ Objects!Stream!Next
    <2>1. /\ OneChoiceDrained'
          /\ Drained(choiceSent'[0], buf', choiceGot'[0], Vault)
          /\ objectsStatus = "running" /\ objectsStatus' = objectsStatus
          /\ \E t \in Seq(S) : choiceSent' = [choiceSent EXCEPT ![0] = a \o t]
          /\ \E t \in Seq(S) : choiceGot' = [choiceGot EXCEPT ![0] = o \o t]
        BY <1>3, OneChoiceFed
    <2>2. choiceSent'[0] \in Seq(S) /\ Unsuffixed(choiceSent'[0])
        BY <2>1 DEF OneChoiceDrained, PlainChoice
    <2>3. IsPrefix(choiceGot'[0], Restore(choiceSent'[0], Vault))
        <3> DEFINE a2 == choiceSent'[0]
                   o2 == choiceGot'[0]
        <3> HIDE DEF a2, o2
        <3>1. a2 \in Seq(S) /\ Unsuffixed(a2) /\ Drained(a2, buf', o2, Vault)
            BY <2>1, <2>2 DEF a2, o2
        <3>2. IsPrefix(o2, Restore(a2, Vault))
            BY <3>1, TextsGiven, DrainedGives
        <3> QED
            BY <3>2 DEF a2, o2
    <2>4. /\ \E t \in Seq(S) : choiceSent'[0] = a \o t
          /\ \E t \in Seq(S) : choiceGot'[0] = o \o t
          /\ choiceSent' = [choiceSent EXCEPT ![0] = choiceSent'[0]]
          /\ choiceGot' = [choiceGot EXCEPT ![0] = choiceGot'[0]]
        BY <1>1, <2>1
    <2>5. IsPrefix(a, choiceSent'[0]) /\ IsPrefix(o, choiceGot'[0])
        <3> HIDE DEF a, o
        <3> QED
            BY <1>1, <2>4, GrownIsPrefix
    <2>6. /\ Objects!Stream!IsPrefix(choiceSent[0], choiceSent'[0])
          /\ Objects!Stream!IsPrefix(choiceGot[0], choiceGot'[0])
          /\ Objects!Stream!IsPrefix(choiceGot'[0], Objects!RestoredText(choiceSent'[0]))
        BY <2>3, <2>5, ObjectsPrefix, ObjectsRestore DEF Objects!RestoredText
    <2>7. Objects!Stream!Pass(0)
        BY <2>1, <2>4, <2>6 DEF Objects!Stream!Pass, Objects!Stream!GivesMore
    <2> QED
        BY <2>1, <2>7 DEF Objects!Stream!Next
<1>4. ASSUME NEW finish \in BOOLEAN, Objects!OtherChunk(finish)
      PROVE  OneChoiceDrained' /\ UNCHANGED Objects!Stream!vars
    <2>1. /\ choiceSent' = choiceSent /\ choiceGot' = choiceGot /\ objectsStatus' = objectsStatus
          /\ buf' = SubSeq(buf, Cut(buf) + 1, Len(buf))
        BY <1>4, ObjectsCut DEF Objects!OtherChunk
    <2>2. buf' = buf
        BY <2>1, NothingToDrain DEF ObjectsInv
    <2> QED
        BY <2>1, <2>2 DEF OneChoiceDrained, Objects!Stream!vars
<1>5. ASSUME objectsStatus = "running", objectsStatus' = "error",
             UNCHANGED <<choiceSent, choiceGot>>
      PROVE  OneChoiceDrained' /\ Objects!Stream!Next
    <2>1. OneChoiceDrained'
        BY <1>5 DEF OneChoiceDrained
    <2>2. /\ Objects!Stream!IsPrefix(choiceGot[0], choiceGot'[0])
          /\ Objects!Stream!IsPrefix(choiceGot'[0], Objects!RestoredText(choiceSent'[0]))
        BY <1>2, <1>5, ObjectsPrefix, ObjectsRestore DEF Objects!RestoredText
    <2>3. Objects!Stream!GivesMore(0)
        BY <2>2 DEF Objects!Stream!GivesMore
    <2>4. Objects!Stream!Fail
        BY <1>5, <2>3 DEF Objects!Stream!Fail
    <2> QED
        BY <2>1, <2>4 DEF Objects!Stream!Next
<1>6. ASSUME Objects!End
      PROVE  OneChoiceDrained' /\ Objects!Stream!Next
    <2> DEFINE tail == IF HasUnclosedOpener(buf) THEN <<>> ELSE Restore(buf, Vault)
    <2>1. Objects!First(ChoiceIds) = 0
        <3>1. Objects!Min({0}) = 0
            BY DEF Objects!Min
        <3> QED
            BY <3>1 DEF Objects!First
    <2>2. /\ objectsStatus = "running"
          /\ choiceGot' = [choiceGot EXCEPT ![0] = o \o pending \o tail]
          /\ objectsStatus' = IF HasUnclosedOpener(buf) THEN "error" ELSE "ended"
          /\ choiceSent' = choiceSent
        BY <1>6, <2>1, ObjectsUnclosed, ObjectsRestore DEF Objects!End
    <2>3. /\ tail \in Seq(S) /\ Restore(a, Vault) \in Seq(S)
          /\ IsPrefix(o, o) /\ IsPrefix(o, Restore(a, Vault))
        <3>1. Restore(buf, Vault) \in Seq(S) /\ Restore(a, Vault) = o \o Restore(buf, Vault)
              /\ IsPrefix(o, o) /\ IsPrefix(o, Restore(a, Vault))
            BY <1>2, <2>2
        <3> HIDE DEF a, o
        <3>2. Restore(a, Vault) \in Seq(S)
            BY <1>1, <3>1, ConcatProperties
        <3> QED
            BY <3>1, <3>2, EmptyBuffer
    <2>4. o \o pending = o
        BY <1>1, ConcatEmptySeq DEF ObjectsInv
    <2> HIDE DEF tail
    <2>5. choiceGot'[0] = o \o tail /\ o \o tail \in Seq(S)
          /\ choiceGot' \in [ChoiceIds -> Seq(S)]
        <3>1. o \o tail \in Seq(S)
            BY <1>1, <2>3, ConcatProperties
        <3> QED
            BY <2>2, <2>4, <3>1 DEF OneChoiceDrained
    <2>6. OneChoiceDrained'
        BY <2>2, <2>5 DEF OneChoiceDrained
    <2>7. choiceGot'[0] = IF HasUnclosedOpener(a) THEN o ELSE Restore(a, Vault)
        <3>1. o \o <<>> = o
            BY <1>1, ConcatEmptySeq
        <3> QED
            BY <1>2, <2>2, <2>5, <3>1 DEF tail
    <2>8. /\ IsPrefix(o, choiceGot'[0]) /\ IsPrefix(choiceGot'[0], Restore(a, Vault))
        BY <2>3, <2>7, SameIsPrefix
    <2>9. /\ Objects!Stream!IsPrefix(choiceGot[0], choiceGot'[0])
          /\ Objects!Stream!IsPrefix(choiceGot'[0], Objects!RestoredText(choiceSent'[0]))
        BY <2>2, <2>8, ObjectsPrefix, ObjectsRestore DEF Objects!RestoredText
    <2>10. ~Objects!HasUnclosedOpener(choiceSent[0]) => choiceGot'[0] = Objects!RestoredText(choiceSent[0])
        BY <2>7, ObjectsRestore, ObjectsUnclosed DEF Objects!RestoredText
    <2>11. Objects!Stream!GivesRest(0)
        BY <2>9, <2>10 DEF Objects!Stream!GivesRest, Objects!Stream!GivesMore
    <2>12. (objectsStatus' = "error") <=> Objects!HasUnclosedOpener(choiceSent[0])
        BY <1>2, <2>2, ObjectsUnclosed
    <2>13. Objects!Stream!End
        BY <2>2, <2>11, <2>12 DEF Objects!Stream!End
    <2> QED
        BY <2>6, <2>13 DEF Objects!Stream!Next
<1> QED
    BY <1>3, <1>4, <1>5, <1>6
    DEF Objects!Next, Objects!RestoreFails, Objects!UpstreamFails, Objects!EndFails

(* With one choice, and a format and texts in which a placeholder cannot be*)
(* mistaken, the client has a restored stream: what it has begins what     *)
(* restoring all the text would give, all of it comes out at the end, and a*)
(* stream cut short in a placeholder ends in an error (restore.py:276-281, *)
(* 320-337).                                                               *)
THEOREM ObjectsRestoreStream ==
    ASSUME UnambiguousFormat, ChoiceIds = {0}
    PROVE  Spec /\ []PlainChoice => ObjectsImplement
<1>1. Init => OneChoiceDrained /\ Objects!Stream!Init
    <2> SUFFICES ASSUME Init PROVE OneChoiceDrained /\ Objects!Stream!Init
        OBVIOUS
    <2>1. /\ choiceSent = [c \in ChoiceIds |-> <<>>] /\ choiceGot = [c \in ChoiceIds |-> <<>>]
          /\ buf = <<>> /\ objectsStatus = "running"
        BY DEF Init, Objects!Init
    <2>2. choiceSent[0] = <<>> /\ choiceGot[0] = <<>>
        BY <2>1
    <2> QED
        BY <2>1, <2>2, DrainedStart, EmptyBuffer DEF OneChoiceDrained, Objects!Stream!Init
<1>2. ObjectsInv /\ OneChoiceDrained /\ PlainChoice /\ PlainChoice' /\ [Next]_vars
          => OneChoiceDrained' /\ [Objects!Stream!Next]_(Objects!Stream!vars)
    <2> SUFFICES ASSUME ObjectsInv, OneChoiceDrained, PlainChoice, PlainChoice', [Next]_vars
                 PROVE  OneChoiceDrained' /\ [Objects!Stream!Next]_(Objects!Stream!vars)
        OBVIOUS
    <2>1. ASSUME ObjectsStep
          PROVE  OneChoiceDrained' /\ [Objects!Stream!Next]_(Objects!Stream!vars)
        BY <2>1, ObjectsStreamStep DEF ObjectsStep
    <2>2. ASSUME UNCHANGED objectsVars
          PROVE  OneChoiceDrained' /\ UNCHANGED Objects!Stream!vars
        BY <2>2 DEF objectsVars, OneChoiceDrained, Objects!Stream!vars
    <2> QED
        BY <2>1, <2>2 DEF Next, FirstChunk, BytesStep, ErrorFrame, vars
<1> QED
    BY <1>1, <1>2, RegimesInv, PTL DEF Spec, ObjectsImplement, Objects!Implements, Objects!Stream!Spec

-----------------------------------------------------------------------------

(* The texts of the blocks, in which no placeholder is followed by a hyphen*)
(* and a digit.                                                            *)
PlainBlocks == \A b \in Blocks : Unsuffixed(blockSent[b])

(* While the stream of bytes runs, a block that is not stopped has a delta *)
(* buffer that drained what arrived for it, and a start buffer that is     *)
(* empty, as the text of its start frame was.                              *)
BlocksDrained ==
    bytesStatus = "running" =>
        \A b \in Blocks : phase[b] # "stopped" =>
            /\ bufs[b]["start"] = <<>>
            /\ Drained(blockSent[b], bufs[b]["delta"], blockGot[b], Vault)

LEMMA BytesPrefix ==
    ASSUME NEW s, NEW t
    PROVE  Bytes!Stream!IsPrefix(s, t) <=> IsPrefix(s, t)
BY DEF IsPrefix, Bytes!Stream!IsPrefix

LEMMA NothingUnclosed == ~HasUnclosedOpener(<<>>)
<1>1. <<>> \in Seq(TextChars) /\ Len(<<>>) = 0
    BY EmptySeq
<1>2. LastUnclosedOpener(<<>>) \in 0..Len(<<>>) /\ TrailingOpenerPrefix(<<>>) \in 0..Len(<<>>)
    BY <1>1, LastUnclosedOpenerIs, TrailingPrefixIs
<1>3. \A i \in 0..Len(<<>>) : i = 0
    BY <1>1
<1>4. LastUnclosedOpener(<<>>) = 0 /\ TrailingOpenerPrefix(<<>>) = 0
    BY <1>2, <1>3
<1> QED
    BY <1>4 DEF HasUnclosedOpener

(* What a running block still holds, and what its flush gives.             *)
LEMMA BlockHolds ==
    ASSUME UnambiguousFormat, BytesInv, BlocksDrained, PlainBlocks, bytesStatus = "running",
           NEW b \in Blocks, phase[b] # "stopped"
    PROVE  LET a == blockSent[b]
               o == blockGot[b]
               all == o \o Bytes!BlockTail(b)
           IN  /\ Bytes!Stream!IsPrefix(o, o)
               /\ Bytes!Stream!IsPrefix(o, Bytes!RestoredText(a))
               /\ Bytes!Stream!IsPrefix(o, all)
               /\ Bytes!Stream!IsPrefix(all, Bytes!RestoredText(a))
               /\ ~Bytes!HasUnclosedOpener(a) => all = Bytes!RestoredText(a)
               /\ (\E p \in Bytes!Pointers : Bytes!HasUnclosedOpener(bufs[b][p]))
                      <=> Bytes!HasUnclosedOpener(a)
<1> DEFINE S == TextChars
           a == blockSent[b]
           o == blockGot[b]
           d == bufs[b]["delta"]
           rest2 == Restore(d, Vault)
           whole == Restore(a, Vault)
           tail == Bytes!BlockTail(b)
<1>1. a \in Seq(S) /\ o \in Seq(S) /\ d \in Seq(S) /\ Unsuffixed(a)
    BY DEF BytesInv, PlainBlocks, Bytes!Pointers
<1>2. bufs[b]["start"] = <<>> /\ Drained(a, d, o, Vault)
    BY DEF BlocksDrained
<1> HIDE DEF a, o, d
<1>3. /\ rest2 \in Seq(S) /\ whole = o \o rest2
      /\ HasUnclosedOpener(d) <=> HasUnclosedOpener(a)
      /\ IsPrefix(o, whole)
    BY <1>1, <1>2, TextsGiven, DrainedWhole, DrainedGives
<1> HIDE DEF rest2, whole
<1>4. whole \in Seq(S) /\ IsPrefix(o, o) /\ IsPrefix(whole, whole)
    <2>1. whole \in Seq(S)
        BY <1>1, <1>3, ConcatProperties
    <2> QED
        BY <1>1, <2>1, SameIsPrefix
<1>5. tail = IF HasUnclosedOpener(a) THEN <<>> ELSE rest2
    <2>1. tail = <<>> \o Bytes!RestoredTail(d)
        BY <1>2, BlockTailType DEF Bytes!BlockTail, d
    <2>2. Bytes!RestoredTail(d) = IF HasUnclosedOpener(a) THEN <<>> ELSE rest2
        BY <1>3, BytesUnclosed, BytesRestore DEF Bytes!RestoredTail, rest2
    <2>3. <<>> \o <<>> = <<>> /\ <<>> \o rest2 = rest2
        BY <1>3, EmptyBuffer, ConcatEmptySeq
    <2> HIDE DEF tail
    <2> QED
        BY <2>1, <2>2, <2>3
<1> HIDE DEF tail
<1>6. o \o tail = IF HasUnclosedOpener(a) THEN o ELSE whole
    <2>1. o \o <<>> = o
        BY <1>1, ConcatEmptySeq
    <2> QED
        BY <1>3, <1>5, <2>1
<1>7. IsPrefix(o, o \o tail) /\ IsPrefix(o \o tail, whole)
    BY <1>3, <1>4, <1>6
<1>8. Bytes!RestoredText(a) = whole
    BY BytesRestore DEF Bytes!RestoredText, whole
<1>9. ~Bytes!HasUnclosedOpener(a) => o \o tail = whole
    BY <1>6, BytesUnclosed
<1>10. (\E p \in Bytes!Pointers : Bytes!HasUnclosedOpener(bufs[b][p])) <=> Bytes!HasUnclosedOpener(a)
    <2>1. ~HasUnclosedOpener(<<>>)
        BY NothingUnclosed
    <2>2. (\E p \in Bytes!Pointers : Bytes!HasUnclosedOpener(bufs[b][p]))
              <=> Bytes!HasUnclosedOpener(bufs[b]["start"]) \/ Bytes!HasUnclosedOpener(d)
        BY DEF Bytes!Pointers, d
    <2> QED
        BY <1>2, <1>3, <2>1, <2>2, BytesUnclosed
<1>11. /\ Bytes!Stream!IsPrefix(o, o) /\ Bytes!Stream!IsPrefix(o, whole)
       /\ Bytes!Stream!IsPrefix(o, o \o tail) /\ Bytes!Stream!IsPrefix(o \o tail, whole)
    BY <1>3, <1>4, <1>7, BytesPrefix
<1> QED
    BY <1>8, <1>9, <1>10, <1>11 DEF a, o, tail

(* The frames that carry text.                                             *)
LEMMA DeltaPasses ==
    ASSUME UnambiguousFormat, BytesInv, BlocksDrained, PlainBlocks',
           NEW b \in Blocks, NEW text \in Fragments, Bytes!Delta(b, text)
    PROVE  BlocksDrained' /\ Bytes!Stream!Pass(b)
<1> DEFINE S == TextChars
           a == blockSent[b]
           o == blockGot[b]
           d == bufs[b]["delta"]
           held2 == d \o text
           cut == Cut(held2)
           left == SubSeq(held2, cut + 1, Len(held2))
           given == Restore(SubSeq(held2, 1, cut), Vault)
<1>1. text \in Seq(S) /\ "delta" \in Bytes!Pointers /\ "start" \in Bytes!Pointers
    BY TextsGiven DEF Bytes!Pointers
<1>2. /\ bytesStatus = "running" /\ bytesStatus' = bytesStatus
      /\ phase[b] = "open" /\ phase' = phase
      /\ Bytes!RestoreSlot(b, "delta", text)
    BY DEF Bytes!Delta
<1>3. /\ blockSent' = [blockSent EXCEPT ![b] = a \o text]
      /\ blockGot' = [blockGot EXCEPT ![b] = o \o given]
      /\ bufs' = [bufs EXCEPT ![b] = [bufs[b] EXCEPT !["delta"] = left]]
      /\ blockSent' \in [Blocks -> Seq(S)] /\ blockGot' \in [Blocks -> Seq(S)]
    <2>1. given = Given(d \o text) /\ left = Left(d \o text)
        BY DEF Given, Left
    <2> HIDE DEF given, left, d, held2, cut, a, o
    <2>2. blockSent' \in [Blocks -> Seq(S)] /\ blockGot' \in [Blocks -> Seq(S)]
        BY <1>1, <1>2, SlotFed
    <2>3. /\ blockSent' = [blockSent EXCEPT ![b] = blockSent[b] \o text]
          /\ blockGot' = [blockGot EXCEPT ![b] = blockGot[b] \o Given(bufs[b]["delta"] \o text)]
          /\ bufs' = [bufs EXCEPT ![b] = [bufs[b] EXCEPT !["delta"] = Left(bufs[b]["delta"] \o text)]]
        BY <1>2, BytesCut, BytesRestore DEF Bytes!RestoreSlot, Given, Left
    <2> QED
        BY <2>1, <2>2, <2>3 DEF a, o, d
<1>4. a \in Seq(S) /\ o \in Seq(S) /\ d \in Seq(S) /\ Drained(a, d, o, Vault)
    BY <1>1, <1>2 DEF BytesInv, BlocksDrained
<1>5. given \in Seq(S)
    <2> HIDE DEF d
    <2> QED
        BY <1>1, <1>4, FedAndDrained
<1> HIDE DEF given, left
<1>6. /\ blockSent'[b] = a \o text /\ blockGot'[b] = o \o given
      /\ bufs'[b]["delta"] = left /\ bufs'[b]["start"] = bufs[b]["start"]
      /\ \A x \in Blocks \ {b} : /\ blockSent'[x] = blockSent[x] /\ blockGot'[x] = blockGot[x]
                                 /\ bufs'[x] = bufs[x]
    BY <1>1, <1>3 DEF BytesInv
<1>7. Unsuffixed(a \o text)
    BY <1>6 DEF PlainBlocks
<1> HIDE DEF a, o, d
<1>8. Drained(a \o text, left, o \o given, Vault) /\ a \o text \in Seq(S)
    BY <1>1, <1>4, <1>7, TextsGiven, DrainedFeed, ConcatProperties DEF left, given
<1>9. /\ IsPrefix(a, a \o text) /\ IsPrefix(o, o \o given)
      /\ IsPrefix(o \o given, Restore(a \o text, Vault))
    BY <1>1, <1>4, <1>5, <1>7, <1>8, TextsGiven, PrefixOfConcat, DrainedGives
<1>10. BlocksDrained'
    <2>1. ASSUME NEW x \in Blocks, phase'[x] # "stopped"
          PROVE  /\ bufs'[x]["start"] = <<>>
                 /\ Drained(blockSent'[x], bufs'[x]["delta"], blockGot'[x], Vault)
        <3>1. CASE x = b
            BY <1>2, <1>6, <1>8, <2>1, <3>1 DEF BlocksDrained
        <3>2. CASE x # b
            BY <1>2, <1>6, <2>1, <3>2 DEF BlocksDrained
        <3> QED
            BY <3>1, <3>2
    <2> QED
        BY <2>1 DEF BlocksDrained
<1>11. Bytes!Stream!Pass(b)
    <2>1. /\ blockSent' = [blockSent EXCEPT ![b] = blockSent'[b]]
          /\ blockGot' = [blockGot EXCEPT ![b] = blockGot'[b]]
        BY <1>3, <1>6
    <2>2. /\ Bytes!Stream!IsPrefix(blockSent[b], blockSent'[b])
          /\ Bytes!Stream!IsPrefix(blockGot[b], blockGot'[b])
          /\ Bytes!Stream!IsPrefix(blockGot'[b], Bytes!RestoredText(blockSent'[b]))
        BY <1>6, <1>9, BytesPrefix, BytesRestore DEF Bytes!RestoredText, a, o
    <2> QED
        BY <1>2, <2>1, <2>2 DEF Bytes!Stream!Pass, Bytes!Stream!GivesMore
<1> QED
    BY <1>10, <1>11

LEMMA StartStutters ==
    ASSUME StartTexts = {<<>>}, BytesInv, BlocksDrained,
           NEW b \in Blocks, NEW text \in StartTexts, Bytes!BlockStart(b, text)
    PROVE  BlocksDrained' /\ UNCHANGED Bytes!Stream!vars
<1>1. /\ bytesStatus = "running" /\ bytesStatus' = bytesStatus
      /\ phase[b] = "ahead" /\ phase' = [phase EXCEPT ![b] = "open"]
      /\ text = <<>> /\ Bytes!RestoreSlot(b, "start", <<>>)
    BY DEF Bytes!BlockStart
<1>2. /\ bufs \in [Blocks -> [Bytes!Pointers -> Seq(TextChars)]]
      /\ blockSent \in [Blocks -> Seq(TextChars)] /\ blockGot \in [Blocks -> Seq(TextChars)]
      /\ phase \in [Blocks -> {"ahead", "open", "stopped"}]
      /\ "start" \in Bytes!Pointers
    BY DEF BytesInv, Bytes!Pointers
<1>3. bufs[b]["start"] = <<>> /\ bufs[b]["start"] \o <<>> = <<>>
    BY <1>1, EmptyBuffer DEF BlocksDrained
<1>4. Given(<<>>) = <<>> /\ Left(<<>>) = <<>>
    BY EmptyBuffer, NothingToDrain DEF Given, Left
<1>5. blockSent[b] \o <<>> = blockSent[b] /\ blockGot[b] \o <<>> = blockGot[b]
    BY <1>2, ConcatEmptySeq
<1>6. /\ blockSent' = [blockSent EXCEPT ![b] = blockSent[b] \o <<>>]
      /\ blockGot' = [blockGot EXCEPT ![b] = blockGot[b] \o Given(bufs[b]["start"] \o <<>>)]
      /\ bufs' = [bufs EXCEPT ![b] = [bufs[b] EXCEPT !["start"] = Left(bufs[b]["start"] \o <<>>)]]
    BY <1>1, BytesCut, BytesRestore DEF Bytes!RestoreSlot, Given, Left
<1>7. blockSent' = blockSent /\ blockGot' = blockGot
    BY <1>2, <1>3, <1>4, <1>5, <1>6
<1>8. bufs' = bufs
    <2>1. [bufs[b] EXCEPT !["start"] = <<>>] = bufs[b]
        BY <1>2, <1>3
    <2> QED
        BY <1>2, <1>3, <1>4, <1>6, <2>1
<1>9. \A x \in Blocks : phase'[x] # "stopped" <=> phase[x] # "stopped"
    BY <1>1, <1>2
<1>10. BlocksDrained'
    BY <1>1, <1>7, <1>8, <1>9 DEF BlocksDrained
<1>11. UNCHANGED Bytes!Stream!vars
    BY <1>1, <1>7, <1>9 DEF Bytes!Stream!vars
<1> QED
    BY <1>10, <1>11

(* The stop of a block closes its channel.                                 *)
LEMMA StopCloses ==
    ASSUME UnambiguousFormat, BytesInv, BlocksDrained, PlainBlocks,
           NEW b \in Blocks, Bytes!BlockStop(b)
    PROVE  BlocksDrained' /\ Bytes!Stream!Close(b)
<1> DEFINE all == blockGot[b] \o Bytes!BlockTail(b)
<1>1. /\ bytesStatus = "running" /\ bytesStatus' = bytesStatus
      /\ phase[b] = "open" /\ phase' = [phase EXCEPT ![b] = "stopped"]
      /\ blockGot' = [blockGot EXCEPT ![b] = all]
      /\ bufs' = [bufs EXCEPT ![b] = Bytes!NoBuffers]
      /\ blockSent' = blockSent
    BY DEF Bytes!BlockStop
<1>2. /\ Bytes!Stream!IsPrefix(blockGot[b], all)
      /\ Bytes!Stream!IsPrefix(all, Bytes!RestoredText(blockSent[b]))
      /\ ~Bytes!HasUnclosedOpener(blockSent[b]) => all = Bytes!RestoredText(blockSent[b])
    BY <1>1, BlockHolds
<1> HIDE DEF all
<1>3. /\ bufs \in [Blocks -> [Bytes!Pointers -> Seq(TextChars)]]
      /\ blockGot \in [Blocks -> Seq(TextChars)]
      /\ phase \in [Blocks -> {"ahead", "open", "stopped"}]
    BY DEF BytesInv
<1>4. blockGot'[b] = all /\ blockGot' = [blockGot EXCEPT ![b] = blockGot'[b]]
    BY <1>1, <1>3
<1>5. BlocksDrained'
    BY <1>1, <1>3 DEF BlocksDrained
<1>6. Bytes!Stream!GivesRest(b)
    BY <1>1, <1>2, <1>4 DEF Bytes!Stream!GivesRest, Bytes!Stream!GivesMore
<1>7. {x \in Blocks : bytesStatus' = "running" /\ phase'[x] # "stopped"}
          = {x \in Blocks : bytesStatus = "running" /\ phase[x] # "stopped"} \ {b}
    BY <1>1, <1>3
<1>8. Bytes!Stream!Close(b)
    BY <1>1, <1>4, <1>6, <1>7 DEF Bytes!Stream!Close
<1> QED
    BY <1>5, <1>8

(* The upstream ends, and the flush of the open blocks with it.            *)
LEMMA EndEnds ==
    ASSUME UnambiguousFormat, BytesInv, BlocksDrained, PlainBlocks, Bytes!End
    PROVE  BlocksDrained' /\ Bytes!Stream!End
<1>1. /\ bytesStatus = "running"
      /\ bytesStatus' = IF Bytes!HeldPartial THEN "error" ELSE "ended"
      /\ blockGot' = [b \in Blocks |-> blockGot[b] \o Bytes!BlockTail(b)]
      /\ blockSent' = blockSent /\ phase' = phase
    BY DEF Bytes!End
<1>2. BlocksDrained'
    BY <1>1 DEF BlocksDrained
<1>3. ASSUME NEW b \in Blocks, phase[b] # "stopped" PROVE Bytes!Stream!GivesRest(b)
    <2> DEFINE all == blockGot[b] \o Bytes!BlockTail(b)
    <2>1. /\ Bytes!Stream!IsPrefix(blockGot[b], all)
          /\ Bytes!Stream!IsPrefix(all, Bytes!RestoredText(blockSent[b]))
          /\ ~Bytes!HasUnclosedOpener(blockSent[b]) => all = Bytes!RestoredText(blockSent[b])
        BY <1>1, <1>3, BlockHolds
    <2>2. blockGot'[b] = all
        BY <1>1
    <2> HIDE DEF all
    <2> QED
        BY <1>1, <2>1, <2>2 DEF Bytes!Stream!GivesRest, Bytes!Stream!GivesMore
<1>4. ASSUME NEW b \in Blocks, phase[b] = "stopped" PROVE blockGot'[b] = blockGot[b]
    <2>1. Bytes!BlockTail(b) = <<>> /\ blockGot[b] \in Seq(TextChars)
        BY <1>4, BlockTailType DEF BytesInv
    <2> QED
        BY <1>1, <2>1, ConcatEmptySeq
<1>5. Bytes!HeldPartial <=>
          \E b \in Blocks : phase[b] # "stopped" /\ Bytes!HasUnclosedOpener(blockSent[b])
    <2>1. ASSUME NEW b \in Blocks, phase[b] # "stopped"
          PROVE  (\E p \in Bytes!Pointers : Bytes!HasUnclosedOpener(bufs[b][p]))
                     <=> Bytes!HasUnclosedOpener(blockSent[b])
        BY <1>1, <2>1, BlockHolds
    <2>2. ASSUME NEW b \in Blocks, phase[b] = "stopped", NEW p \in Bytes!Pointers
          PROVE  ~Bytes!HasUnclosedOpener(bufs[b][p])
        <3>1. bufs[b][p] = <<>>
            BY <2>2 DEF BytesInv, Bytes!NoBuffers
        <3> QED
            BY <3>1, NothingUnclosed, BytesUnclosed
    <2> QED
        BY <2>1, <2>2 DEF Bytes!HeldPartial
<1>6. Bytes!Stream!End
    <2> DEFINE open == {b \in Blocks : bytesStatus = "running" /\ phase[b] # "stopped"}
    <2>1. {b \in Blocks : bytesStatus' = "running" /\ phase'[b] # "stopped"} = {}
        BY <1>1
    <2>2. (bytesStatus' = "error") <=> \E b \in open : Bytes!HasUnclosedOpener(blockSent[b])
        BY <1>1, <1>5
    <2>3. \A b \in Blocks : IF b \in open THEN Bytes!Stream!GivesRest(b) ELSE blockGot'[b] = blockGot[b]
        BY <1>1, <1>3, <1>4
    <2> QED
        BY <1>1, <2>1, <2>2, <2>3 DEF Bytes!Stream!End
<1> QED
    BY <1>2, <1>6

(* A failure ends all channels; some may have been flushed before it.      *)
LEMMA FailureFails ==
    ASSUME UnambiguousFormat, BytesInv, BlocksDrained, PlainBlocks,
           bytesStatus = "running", bytesStatus' = "error", blockSent' = blockSent,
           NEW flushed \in SUBSET Blocks,
           blockGot' = [b \in Blocks |-> IF b \in flushed THEN blockGot[b] \o Bytes!BlockTail(b)
                                                          ELSE blockGot[b]]
    PROVE  BlocksDrained' /\ Bytes!Stream!Fail
<1>1. BlocksDrained'
    BY DEF BlocksDrained
<1>2. ASSUME NEW b \in Blocks, phase[b] # "stopped" PROVE Bytes!Stream!GivesMore(b)
    <2> DEFINE all == blockGot[b] \o Bytes!BlockTail(b)
    <2>1. /\ Bytes!Stream!IsPrefix(blockGot[b], all)
          /\ Bytes!Stream!IsPrefix(all, Bytes!RestoredText(blockSent[b]))
          /\ Bytes!Stream!IsPrefix(blockGot[b], blockGot[b])
          /\ Bytes!Stream!IsPrefix(blockGot[b], Bytes!RestoredText(blockSent[b]))
        BY <1>2, BlockHolds
    <2>2. blockGot'[b] \in {all, blockGot[b]}
        OBVIOUS
    <2> HIDE DEF all
    <2> QED
        BY <2>1, <2>2 DEF Bytes!Stream!GivesMore
<1>3. ASSUME NEW b \in Blocks, phase[b] = "stopped" PROVE blockGot'[b] = blockGot[b]
    <2>1. Bytes!BlockTail(b) = <<>> /\ blockGot[b] \in Seq(TextChars)
        BY <1>3, BlockTailType DEF BytesInv
    <2> QED
        BY <2>1, ConcatEmptySeq
<1>4. Bytes!Stream!Fail
    BY <1>2, <1>3 DEF Bytes!Stream!Fail
<1> QED
    BY <1>1, <1>4

LEMMA BytesStreamStep ==
    ASSUME UnambiguousFormat, StartTexts = {<<>>}, BytesInv, BlocksDrained,
           PlainBlocks, PlainBlocks', Bytes!Next
    PROVE  BlocksDrained' /\ [Bytes!Stream!Next]_(Bytes!Stream!vars)
<1>1. ASSUME NEW b \in Blocks, NEW text \in StartTexts, Bytes!BlockStart(b, text)
      PROVE  BlocksDrained' /\ UNCHANGED Bytes!Stream!vars
    BY <1>1, StartStutters
<1>2. ASSUME NEW b \in Blocks, NEW text \in Fragments, Bytes!Delta(b, text)
      PROVE  BlocksDrained' /\ Bytes!Stream!Next
    BY <1>2, DeltaPasses DEF Bytes!Stream!Next
<1>3. ASSUME NEW b \in Blocks, Bytes!BlockStop(b)
      PROVE  BlocksDrained' /\ Bytes!Stream!Next
    BY <1>3, StopCloses DEF Bytes!Stream!Next
<1>4. ASSUME Bytes!End
      PROVE  BlocksDrained' /\ Bytes!Stream!Next
    BY <1>4, EndEnds DEF Bytes!Stream!Next
<1>5. ASSUME NEW flushed \in SUBSET Blocks, Bytes!EndFails(flushed)
      PROVE  BlocksDrained' /\ Bytes!Stream!Next
    BY <1>5, FailureFails DEF Bytes!Stream!Next, Bytes!EndFails
<1>6. ASSUME bytesStatus = "running", bytesStatus' = "error", UNCHANGED <<blockSent, blockGot>>
      PROVE  BlocksDrained' /\ Bytes!Stream!Next
    <2>1. blockGot' = [b \in Blocks |-> IF b \in {} THEN blockGot[b] \o Bytes!BlockTail(b)
                                                    ELSE blockGot[b]]
        <3>1. blockGot = [b \in Blocks |-> blockGot[b]]
            BY DEF BytesInv
        <3> QED
            BY <1>6, <3>1
    <2>2. {} \in SUBSET Blocks
        OBVIOUS
    <2> QED
        BY <1>6, <2>1, <2>2, FailureFails DEF Bytes!Stream!Next
<1> QED
    BY <1>1, <1>2, <1>3, <1>4, <1>5, <1>6
    DEF Bytes!Next, Bytes!RestoreFails, Bytes!UpstreamFails, Bytes!BlockStopFails

(* With start frames that carry no text, and a format and texts in which a *)
(* placeholder cannot be mistaken, the client has a restored stream of     *)
(* blocks, however they interleave and wherever frames cut them: nothing is*)
(* reordered, moved to another block or half restored, all text of a block *)
(* passes before its stop frame, and a stream that breaks off inside a     *)
(* placeholder of an open block ends in an error (restore.py:52-53,        *)
(* 108-114, 132-135).                                                      *)
THEOREM BytesRestoreStream ==
    ASSUME UnambiguousFormat, StartTexts = {<<>>}
    PROVE  Spec /\ []PlainBlocks => BytesImplement
<1>1. Init => BlocksDrained /\ Bytes!Stream!Init
    <2> SUFFICES ASSUME Init PROVE BlocksDrained /\ Bytes!Stream!Init
        OBVIOUS
    <2>1. /\ blockSent = [b \in Blocks |-> <<>>] /\ blockGot = [b \in Blocks |-> <<>>]
          /\ bufs = [b \in Blocks |-> [p \in Bytes!Pointers |-> <<>>]]
          /\ bytesStatus = "running" /\ phase = [b \in Blocks |-> "ahead"]
        BY DEF Init, Bytes!Init
    <2>2. ASSUME NEW b \in Blocks
          PROVE  /\ bufs[b]["start"] = <<>> /\ bufs[b]["delta"] = <<>>
                 /\ blockSent[b] = <<>> /\ blockGot[b] = <<>>
        BY <2>1 DEF Bytes!Pointers
    <2>3. BlocksDrained
        BY <2>2, DrainedStart DEF BlocksDrained
    <2>4. {b \in Blocks : bytesStatus = "running" /\ phase[b] # "stopped"} = Blocks
        BY <2>1
    <2> QED
        BY <2>1, <2>3, <2>4 DEF Bytes!Stream!Init
<1>2. BytesInv /\ BlocksDrained /\ PlainBlocks /\ PlainBlocks' /\ [Next]_vars
          => BlocksDrained' /\ [Bytes!Stream!Next]_(Bytes!Stream!vars)
    <2> SUFFICES ASSUME BytesInv, BlocksDrained, PlainBlocks, PlainBlocks', [Next]_vars
                 PROVE  BlocksDrained' /\ [Bytes!Stream!Next]_(Bytes!Stream!vars)
        OBVIOUS
    <2>1. ASSUME BytesStep
          PROVE  BlocksDrained' /\ [Bytes!Stream!Next]_(Bytes!Stream!vars)
        BY <2>1, BytesStreamStep DEF BytesStep
    <2>2. ASSUME UNCHANGED bytesVars
          PROVE  BlocksDrained' /\ UNCHANGED Bytes!Stream!vars
        BY <2>2 DEF bytesVars, BlocksDrained, Bytes!Stream!vars
    <2> QED
        BY <2>1, <2>2 DEF Next, FirstChunk, ObjectsStep, ErrorFrame, vars
<1> QED
    BY <1>1, <1>2, RegimesInv, PTL DEF Spec, BytesImplement, Bytes!Implements, Bytes!Stream!Spec
=============================================================================
