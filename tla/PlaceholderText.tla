--------------------------- MODULE PlaceholderText ---------------------------
(***************************************************************************)
(* Placeholders in a text.  A text is a sequence of characters; a          *)
(* placeholder is Opener, one or more code characters, Closer and, when    *)
(* the vault disambiguated it, a hyphen and digits: the regex of           *)
(* config.placeholder_namespace_regex.  Opener and Closer are what         *)
(* placeholder_format puts before and after {code}.                        *)
(*                                                                         *)
(* Digits may be code characters too, as 2..7 are in base32; this is why   *)
(* the sets are parameters.                                                *)
(***************************************************************************)
EXTENDS Integers, Sequences, FiniteSetsExt, Functions

CONSTANTS Opener, Closer, CodeChars, Digits, Hyphen

ASSUME LiteralsAssumption == Opener \in Seq(Range(Opener)) /\ Closer \in Seq(Range(Closer))
ASSUME HyphenAssumption == Hyphen \notin CodeChars

(* The characters of lit stand at position i of text.                      *)
LiteralAt(text, i, lit) ==
    /\ i + Len(lit) - 1 <= Len(text)
    /\ \A k \in 1..Len(lit) : text[i + k - 1] = lit[k]

(* Where Opener [A-Z2-7]+ Closer may end when it begins at i.              *)
BodyEnds(text, i) ==
    {e \in i..Len(text) :
        LET first == i + Len(Opener)
            last  == e - Len(Closer)
        IN  /\ LiteralAt(text, i, Opener)
            /\ first <= last
            /\ \A k \in first..last : text[k] \in CodeChars
            /\ LiteralAt(text, last + 1, Closer)}

(* The end of the match that begins at i: + and ? are greedy.              *)
MatchEnd(text, i) ==
    LET e == Max(BodyEnds(text, i))
        suffix == {k \in e+2..Len(text) :
                      /\ text[e+1] = Hyphen
                      /\ \A d \in e+2..k : text[d] \in Digits}
    IN  Max({e} \cup suffix)

MatchesAt(text, i) == BodyEnds(text, i) # {}

(* finditer: the matches from left to right, none overlapping the one      *)
(* before it.                                                              *)
NamespaceSpans(text) ==
    LET from[i \in 1..Len(text)+1] ==
            IF i > Len(text) THEN {}
            ELSE IF MatchesAt(text, i)
                 THEN {<<i, MatchEnd(text, i)>>} \cup from[MatchEnd(text, i) + 1]
                 ELSE from[i + 1]
    IN  from[1]

(* engine.unmask and buffer._restore_inplace: each match that the vault    *)
(* knows is replaced by its original, the rest of the text is copied.      *)
(* vault maps the placeholders it knows to their originals.                *)
Restore(text, vault) ==
    LET from[i \in 1..Len(text)+1] ==
            IF i > Len(text) THEN <<>>
            ELSE IF MatchesAt(text, i)
                 THEN LET e == MatchEnd(text, i)
                          p == SubSeq(text, i, e)
                      IN  (IF p \in DOMAIN vault THEN vault[p] ELSE p) \o from[e + 1]
                 ELSE <<text[i]>> \o from[i + 1]
    IN  from[1]
=============================================================================
