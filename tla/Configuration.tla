---------------------------- MODULE Configuration ----------------------------
(***************************************************************************)
(* lexvault.config and the construction of the guardrail up to its vault:  *)
(* references to the environment are resolved, the dictionary file is      *)
(* loaded, the settings are validated, the detector's tables are built.    *)
(*                                                                         *)
(* A string of litellm_params is one of four values: Absent, "empty",      *)
(* "given" (a usable text), or "reference" (a text os.environ/NAME).  What *)
(* an environment variable holds is "unset", "empty" or "given".           *)
(***************************************************************************)
EXTENDS SequencesExt

CONSTANTS Spellings,   \* texts a dictionary term can have, and be met in
          Lower,       \* str.lower on them
          Patterns,    \* regex patterns
          Compiles,    \* those that re.compile accepts
          Blank,       \* a text of white space only
          Absent,      \* a key that is not in litellm_params; no such file
          Malformed    \* a file that is not a mapping

ASSUME LowerAssumption ==
    /\ Lower \in [Spellings -> Spellings]
    /\ \A s \in Spellings : Lower[Lower[s]] = Lower[s]
ASSUME PatternAssumption == Compiles \subseteq Patterns
ASSUME BlankAssumption == Blank \notin Spellings \cup Patterns

(* DictionaryTerm, without the type column.                                *)
Term(text, sensitive) == [term |-> text, case_sensitive |-> sensitive]

(* What load_dictionary can read.                                          *)
DictionaryFiles ==
    [terms : Seq([term : Spellings \cup {Blank}, case_sensitive : BOOLEAN]),
     regex_terms : Seq(Patterns \cup {Blank})]

(* What a string of litellm_params can be, and what the environment holds. *)
Values == {Absent, "empty", "given", "reference"}

Held == {"unset", "empty", "given"}

(* _resolve_env: a variable that is not set leaves the reference itself.   *)
ResolveEnv(value, env) ==
    IF value = "reference" /\ env # "unset" THEN env ELSE value

Path(setup) == ResolveEnv(setup.params.dictionary_path, setup.env.dictionary_path)

OrgKey(setup) == ResolveEnv(setup.params.org_key, setup.env.org_key)

(* "if dictionary_path": neither an absent nor an empty path is opened.    *)
Opened(setup) == Path(setup) \notin {Absent, "empty"}

(* load_dictionary raises: there is no such file (an unresolved reference  *)
(* is taken for a relative path), it is not a mapping, an entry is blank.  *)
LoadRaises(setup) ==
    /\ Opened(setup)
    /\ \/ Path(setup) # "given"
       \/ setup.file \in {Absent, Malformed}
       \/ Blank \in {setup.file.terms[i].term : i \in DOMAIN setup.file.terms}
       \/ Blank \in Range(setup.file.regex_terms)

Dictionary(setup) == IF Opened(setup) THEN setup.file.terms ELSE <<>>

(* cfg_kwargs.setdefault: a list in litellm_params, even an empty one, is  *)
(* kept, and the list that includes the file's patterns is discarded.      *)
RegexTerms(setup) ==
    IF setup.params.regex_terms # Absent THEN setup.params.regex_terms
    ELSE IF Opened(setup) THEN setup.file.regex_terms ELSE <<>>

(* Variant: the key is validated before its reference is resolved.         *)
KeyAcceptedUnresolved(setup) == setup.params.org_key \notin {Absent, "empty"}

KeyAccepted(setup) == OrgKey(setup) \notin {Absent, "empty"}

(* The field validators of LexVaultConfig.  An empty path is a valid Path. *)
Accepted(setup) ==
    /\ KeyAccepted(setup)
    /\ Path(setup) # Absent
    /\ setup.params.placeholder_format = "with code"
    /\ setup.params.scope # Blank
    /\ Blank \notin Range(RegexTerms(setup))

-----------------------------------------------------------------------------

(* The first term with each key, as dict.setdefault keeps it, of those     *)
(* that are case sensitive or of those that are not: what a match of that  *)
(* key is reported as.                                                     *)
FirstOfEach(terms, sensitive, key) ==
    LET own == {i \in DOMAIN terms : terms[i].case_sensitive = sensitive}
    IN  [k \in {key[terms[i].term] : i \in own} |->
            terms[Min({i \in own : key[terms[i].term] = k})].term]

Exact == [text \in Spellings |-> text]

(* Variant: one table of seen keys for both automata.                      *)
BuildAutomataOneTable(terms) ==
    LET Fresh(i) == \A j \in 1..(i - 1) : Lower[terms[j].term] # Lower[terms[i].term]
        Kept(sensitive) ==
            {i \in DOMAIN terms : terms[i].case_sensitive = sensitive /\ Fresh(i)}
    IN  [ci |-> [k \in {Lower[terms[i].term] : i \in Kept(FALSE)} |-> k],
         cs |-> [k \in {terms[i].term : i \in Kept(TRUE)} |-> k]]

(* _build_automata: a table per automaton, keyed by the lowered text or by *)
(* the text itself.                                                        *)
BuildAutomata(terms) ==
    [ci |-> FirstOfEach(terms, FALSE, Lower),
     cs |-> FirstOfEach(terms, TRUE, Exact)]

(* _add_dictionary_spans on a text that is one spelling.                   *)
Detects(guardrail, text) ==
    \/ Lower[text] \in DOMAIN guardrail.automata.ci
    \/ text \in DOMAIN guardrail.automata.cs

-----------------------------------------------------------------------------

(* The construction does not end with an exception: not in load_dictionary,*)
(* not in the validators, and not in re.compile.                           *)
Constructible(setup) ==
    /\ ~LoadRaises(setup)
    /\ Accepted(setup)
    /\ Range(RegexTerms(setup)) \subseteq Compiles

(* What __init__ has built when it opens the vault: _build_config, then    *)
(* _build_detector.  A setup is litellm_params, the environment and the    *)
(* file on the disk.                                                       *)
BuildGuardrail(setup) ==
    [org_key         |-> OrgKey(setup),
     dictionary_path |-> Path(setup),
     automata        |-> BuildAutomata(Dictionary(setup)),
     regexes         |-> RegexTerms(setup)]
=============================================================================
