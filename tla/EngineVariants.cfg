SPECIFICATION Spec
CONSTANTS
    r1 = r1  r2 = r2  sA = sA  sB = sB
    Requests = {r1, r2}
    Scopes = {sA}
    Texts <- ShortTexts
    Words <- MCWords
    Patterns <- MCPatterns
    Fold <- MCFold
    Code <- MCCode
    Disambiguators <- MCSuffixes
    Opener <- MCOpener
    Closer <- MCCloser
    CodeChars = {"A", "T", "2"}
    Digits = {"2", "3"}
    Hyphen = "-"
INVARIANT SameTermSamePlaceholder
CHECK_DEADLOCK FALSE
