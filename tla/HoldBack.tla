------------------------------ MODULE HoldBack ------------------------------
(***************************************************************************)
(* What lexvault.streaming.buffer.PlaceholderBuffer holds back of a text   *)
(* that has arrived in part: a window as long as the longest placeholder   *)
(* and, before the window, an opener or part of an opener whose            *)
(* placeholder may end inside the window.  Positions count from 1, and 0   *)
(* stands for Python's -1.                                                 *)
(***************************************************************************)
EXTENDS PlaceholderText, SequencesExt

CONSTANTS Bracket,     \* the character "]" that _last_unclosed_opener looks for
          CodeLen,     \* characters of a code (8 in the code)
          SuffixLen,   \* room for the disambiguator (5 in the code)
          Vault        \* placeholders the vault knows, with their originals

ASSUME RoomAssumption == CodeLen \in Nat \ {0} /\ SuffixLen \in Nat
ASSUME VaultAssumption == \A p \in DOMAIN Vault : Vault[p] \in Seq(Range(Vault[p]))

(* _compute_max_placeholder_len.                                           *)
Window == Len(Opener) + Len(Closer) + CodeLen + SuffixLen

(* What a placeholder_format must keep apart, as the default "[LEX-{code}]"*)
(* does: the first character of the opener begins nothing else, and the    *)
(* bracket ends a placeholder and stands nowhere else in it.  The code does*)
(* not ask for it.                                                         *)
UnambiguousFormat ==
    /\ Opener # <<>> /\ Closer # <<>>
    /\ Opener[1] \notin CodeChars \cup Range(Closer)
    /\ \A k \in 2..Len(Opener) : Opener[k] # Opener[1]
    /\ Bracket \notin CodeChars \cup Range(Opener)
    /\ \A k \in 1..Len(Closer) : Closer[k] = Bracket <=> k = Len(Closer)

(* rfind of the opener; 0 stands for Python's -1.                          *)
LastOpener(text) ==
    Max({0} \cup {i \in 1..Len(text) : Opener # <<>> /\ LiteralAt(text, i, Opener)})

(* Variant: the closing bracket is not looked for.                         *)
LastOpenerEvenClosed(text) == LastOpener(text)

LastUnclosedOpener(text) ==
    LET i == LastOpener(text)
    IN  IF i # 0 /\ \A k \in i..Len(text) : text[k] # Bracket THEN i ELSE 0

(* _trailing_opener_prefix_len: where the longest proper prefix of the     *)
(* opener that ends the text begins, or 0.                                 *)
TrailingOpenerPrefix(text) ==
    LET n == Max({0} \cup {m \in 1..Len(Opener)-1 :
                              m <= Len(text) /\
                              LiteralAt(text, Len(text) - m + 1, SubSeq(Opener, 1, m))})
    IN  IF n = 0 THEN 0 ELSE Len(text) - n + 1

HoldBackPoint(text) ==
    LET points == {LastUnclosedOpener(text), TrailingOpenerPrefix(text)} \ {0}
    IN  IF points = {} THEN 0 ELSE Min(points)

HasUnclosedOpener(text) ==
    LastUnclosedOpener(text) # 0 \/ TrailingOpenerPrefix(text) # 0

(* Variant: hold from the start of the buffer as soon as anything is held. *)
CutNothing(text) ==
    LET ready == SubSeq(text, 1, Len(text) - Window)
    IN  IF \E k \in 1..Len(ready) : ready[k] = Opener[1] THEN 0 ELSE Len(ready)

(* How many characters of the buffer drain emits.                          *)
Cut(text) ==
    IF Len(text) <= Window THEN 0
    ELSE LET ready == SubSeq(text, 1, Len(text) - Window)
         IN  IF HoldBackPoint(ready) # 0 THEN HoldBackPoint(ready) - 1
             ELSE Len(ready)
=============================================================================
