SPECIFICATION Spec
CONSTANTS
    r1 = r1  r2 = r2  sA = sA  sB = sB
    Requests = {r1, r2}
    Scopes = {sA}
    Texts <- MCTexts
    Words <- MCWords
    Patterns <- MCPatterns
    Fold <- MCFold
    Code <- MCCode
    Disambiguators <- MCSuffixes
    Opener <- MCOpener
    Closer <- MCCloser
    CodeChars = {"A", "T", "2"}
    Digits = {"2", "3"}
    Hyphen = "-"
INVARIANTS TypeOK RoundTrip NothingLeft SameTextSameMask
CHECK_DEADLOCK FALSE
