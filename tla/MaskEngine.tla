----------------------------- MODULE MaskEngine -----------------------------
(***************************************************************************)
(* lexvault.engine: mask() of several requests over one vault, and unmask()*)
(* as the reading of a masked text.  Detection is composed from SpanOrder  *)
(* (what Detector's loop computes) and the occurrences of the terms;       *)
(* vault.assign is one atomic step, which MappingVault refines.            *)
(*                                                                         *)
(* mask() awaits one assign per match, so requests of other workers are    *)
(* served between two matches of one text.                                 *)
(***************************************************************************)
EXTENDS PlaceholderText, SpanOrder, SequencesExt

CONSTANTS Requests,    \* mask() calls
          Scopes,      \* scopes requests are made in
          Texts,       \* texts to be masked
          Words,       \* dictionary: set of [word, cs]
          Patterns,    \* regex terms: sequence of [name, language]
          Fold(_),     \* str.lower on a character
          Code(_, _),  \* derive_placeholder's code for a scope and a term
          Disambiguators     \* disambiguators, in the order the vault tries them

IsText(s) == s \in Seq(Range(s))

FoldText(text) == [i \in 1..Len(text) |-> Fold(text[i])]

(* What _build_automata knows a word by; the first of a key is taken.      *)
KeyOf(w) == IF w.cs THEN w.word ELSE FoldText(w.word)

ASSUME TextsAssumption == \A text \in Texts : IsText(text)
ASSUME WordsAssumption ==
    /\ \A w \in Words : IsText(w.word) /\ w.word # <<>> /\ w.cs \in BOOLEAN
    /\ \A w, x \in Words : (w.cs = x.cs /\ KeyOf(w) = KeyOf(x)) => w = x
ASSUME PatternAssumption ==
    /\ IsText(Patterns)
    /\ \A i \in DOMAIN Patterns : \A word \in Patterns[i].language : IsText(word) /\ word # <<>>
ASSUME CodeAssumption ==
    \A s \in Scopes : \A term \in {w.word : w \in Words} \cup {p.name : p \in Range(Patterns)} :
        Code(s, term) \in Seq(CodeChars) \ {<<>>}
ASSUME DisambiguatorsAssumption ==
    /\ IsText(Disambiguators)
    /\ \A d \in Range(Disambiguators) :
          IsText(d) /\ Len(d) > 1 /\ d[1] = Hyphen /\ \A k \in 2..Len(d) : d[k] \in Digits

VARIABLES vault,       \* placeholder -> original
          owner,       \* placeholder -> scope column of its row
          req          \* what each request is doing

vars == <<vault, owner, req>>

Span(first, last, term, source) ==
    [start |-> first - 1, end |-> last, term |-> term, source |-> source]

(* Variant: only the first occurrence of a term.                           *)
FirstOccurrences(text) ==
    LET at(w) == {i \in 1..Len(text) : LiteralAt(FoldText(text), i, FoldText(w.word))}
    IN  {Span(Min(at(w)), Min(at(w)) + Len(w.word) - 1, w.word, 0) :
            w \in {v \in Words : at(v) # {}}}

(* _add_dictionary_spans: every occurrence of every term; a term that is   *)
(* not case sensitive is looked up in the lowered text.                    *)
DictionarySpans(text) ==
    {Span(p[1], p[1] + Len(p[2].word) - 1, p[2].word, IF p[2].cs THEN 1 ELSE 0) :
        p \in {q \in (1..Len(text)) \X Words :
                  LiteralAt(IF q[2].cs THEN text ELSE FoldText(text), q[1], KeyOf(q[2]))}}

(* finditer of one regex term: leftmost, then longest, then on from the    *)
(* end of the match.                                                       *)
PatternSpans(text, r) ==
    LET hits(i) == {Len(w) : w \in {v \in Patterns[r].language : LiteralAt(text, i, v)}}
        from[i \in 1..Len(text)+1] ==
            IF i > Len(text) THEN {}
            ELSE IF hits(i) = {} THEN from[i + 1]
            ELSE {Span(i, i + Max(hits(i)) - 1, Patterns[r].name, r + 1)}
                     \cup from[i + Max(hits(i))]
    IN  from[1]

(* _collect_candidates.                                                    *)
Candidates(text) ==
    DictionarySpans(text) \cup UNION {PatternSpans(text, r) : r \in DOMAIN Patterns}

(* _placeholder_regions as half-open ranges.                               *)
PlaceholderRegions(text) ==
    {[start |-> s[1] - 1, end |-> s[2]] : s \in NamespaceSpans(text)}

(* find_matches, by its specification (Detector's LoopResolves).           *)
FindMatches(text) ==
    LET eligible == {c \in Candidates(text) :
                        ~\E r \in PlaceholderRegions(text) : Overlaps(c, r)}
    IN  CHOOSE K \in SUBSET eligible : IsResolution(K, eligible)

(* derive_placeholder.                                                     *)
DerivePlaceholder(scope, term) == Opener \o Code(scope, term) \o Closer

SliceMatch(text, m) == SubSeq(text, m.start + 1, m.end)

(* Slot k of a base: the base, base-2, base-3, ...                         *)
Candidate(base, k) == IF k = 1 THEN base ELSE base \o Disambiguators[k - 1]

(* Variant: the first free slot, even if the original has one.             *)
FirstFree(base, original) ==
    {k \in 1..Len(Disambiguators)+1 : Candidate(base, k) \notin DOMAIN vault}

(* Variant: the undisambiguated placeholder, whoever has it.               *)
BaseAnyway(base, original) == {1}

(* The slots at which the collision loop of assign may stop: it stops at   *)
(* the first one that is free or already the original's.                   *)
Acceptable(base, original) ==
    {k \in 1..Len(Disambiguators)+1 :
        \/ Candidate(base, k) \notin DOMAIN vault
        \/ vault[Candidate(base, k)] = original}

(* INSERT OR IGNORE of one column: a row that is there stays.              *)
InsertOrIgnore(column, p, value) ==
    IF p \in DOMAIN column THEN column
    ELSE [x \in DOMAIN column \cup {p} |-> IF x = p THEN value ELSE column[x]]

Leftmost(spans) == CHOOSE m \in spans : \A n \in spans : m.start <= n.start

(* _rebuild: in the order of their starts, copy the text up to each span,  *)
(* then its replacement, moving the cursor to the end of the span.         *)
Rebuild(text, plan) ==
    LET from[todo \in SUBSET plan] ==
            [cursor \in 0..Len(text) |->
                IF todo = {} THEN SubSeq(text, cursor + 1, Len(text))
                ELSE LET p == Leftmost(todo)
                     IN  SubSeq(text, cursor + 1, p.start) \o p.new
                             \o from[todo \ {p}][p.end]]
    IN  from[plan][0]

Idle == [state |-> "idle", scope |-> CHOOSE s \in Scopes : TRUE, text |-> <<>>,
         todo |-> {}, plan |-> {}, masked |-> <<>>]

Init ==
    /\ vault = [p \in {} |-> <<>>]
    /\ owner = [p \in {} |-> <<>>]
    /\ req = [r \in Requests |-> Idle]

-----------------------------------------------------------------------------

(* A request calls mask(); find_matches has no suspension point.           *)
Start(r, s, text) ==
    /\ req[r].state = "idle"
    /\ req' = [req EXCEPT ![r] =
                  [Idle EXCEPT !.state = "masking", !.scope = s, !.text = text,
                               !.todo = FindMatches(text)]]
    /\ UNCHANGED <<vault, owner>>

NextMatch(r) == Leftmost(req[r].todo)

Base(r) == DerivePlaceholder(req[r].scope, NextMatch(r).term)

Original(r) == SliceMatch(req[r].text, NextMatch(r))

(* One turn of mask's loop: the base is derived from the term that matched,*)
(* the original recorded is the text that matched.                         *)
Assign(r) ==
    /\ req[r].state = "masking"
    /\ req[r].todo # {}
    /\ Acceptable(Base(r), Original(r)) # {}
    /\ LET m == NextMatch(r)
           p == Candidate(Base(r), Min(Acceptable(Base(r), Original(r))))
       IN  /\ vault' = InsertOrIgnore(vault, p, Original(r))
           /\ owner' = InsertOrIgnore(owner, p, req[r].scope)
           /\ req' = [req EXCEPT
                 ![r].todo = @ \ {m},
                 ![r].plan = @ \cup {[start |-> m.start, end |-> m.end,
                                      term |-> m.term, new |-> p]}]

(* VaultError propagates out of mask(): the request is blocked.            *)
Block(r) ==
    /\ req[r].state = "masking"
    /\ req[r].todo # {}
    /\ Acceptable(Base(r), Original(r)) = {}
    /\ req' = [req EXCEPT ![r].state = "blocked"]
    /\ UNCHANGED <<vault, owner>>

(* Variant: the rebuild does not wait for all matches.                     *)
FinishEarly(r) ==
    /\ req[r].state = "masking"
    /\ req' = [req EXCEPT ![r].state = "masked",
                          ![r].masked = Rebuild(req[r].text, req[r].plan)]
    /\ UNCHANGED <<vault, owner>>

(* All matches have their placeholder: one rebuild.                        *)
Finish(r) ==
    /\ req[r].state = "masking"
    /\ req[r].todo = {}
    /\ req' = [req EXCEPT ![r].state = "masked",
                          ![r].masked = Rebuild(req[r].text, req[r].plan)]
    /\ UNCHANGED <<vault, owner>>

Next == \E r \in Requests :
    \/ \E s \in Scopes, text \in Texts : Start(r, s, text)
    \/ Assign(r)
    \/ Block(r)
    \/ Finish(r)

Spec == Init /\ [][Next]_vars

-----------------------------------------------------------------------------

Masked == {r \in Requests : req[r].state = "masked"}

(* Rows are placeholders of this format with one scope each, and a request *)
(* only has work left while it is masking or blocked.                      *)
TypeOK ==
    /\ DOMAIN owner = DOMAIN vault
    /\ \A p \in DOMAIN vault :
          MatchesAt(p, 1) /\ MatchEnd(p, 1) = Len(p) /\ owner[p] \in Scopes
    /\ \A r \in Requests :
          /\ req[r].state \in {"idle", "masking", "blocked", "masked"}
          /\ req[r].todo # {} => req[r].state \in {"masking", "blocked"}

(* Restoring the masked text of a request gives its text back, at any time *)
(* after it was masked and whatever other requests store in the meantime   *)
(* ("Identity on in-dictionary text", engine.py:122).                      *)
RoundTrip == \A r \in Masked : Restore(req[r].masked, vault) = req[r].text

(* In a masked text no dictionary term is left outside a placeholder: the  *)
(* pieces that overlap resolution and the rebuild leave behind never make  *)
(* up a term again, not even across the edge of a placeholder ("zero       *)
(* originals reaching the upstream", engine.py:46-81).                     *)
NothingLeft ==
    \A r \in Masked : \A c \in DictionarySpans(req[r].masked) :
        \E p \in PlaceholderRegions(req[r].masked) : Overlaps(c, p)

(* integration.md:147-148: "re-masking is idempotent".  Masking a masked   *)
(* text finds nothing to mask.                                             *)
RemaskFindsNothing == \A r \in Masked : FindMatches(req[r].masked) = {}

(* The same text in the same scope is masked to the same text, whichever   *)
(* request came first and however their assignments interleave.            *)
SameTextSameMask ==
    \A r, q \in Masked :
        (req[r].text = req[q].text /\ req[r].scope = req[q].scope) =>
            req[r].masked = req[q].masked

(* concepts.md:43: "the same codename maps to the same placeholder across  *)
(* every turn in a conversation".                                          *)
SameTermSamePlaceholder ==
    \A r, q \in Masked : req[r].scope = req[q].scope =>
        \A a \in req[r].plan, b \in req[q].plan : a.term = b.term => a.new = b.new

(* concepts.md:55: "A scope isolates mappings": what is restored in the    *)
(* text of a request was stored by a request of its scope.                 *)
ScopeIsolated ==
    \A r \in Masked : \A s \in NamespaceSpans(req[r].masked) :
        LET p == SubSeq(req[r].masked, s[1], s[2])
        IN  p \in DOMAIN vault => owner[p] = req[r].scope
=============================================================================
