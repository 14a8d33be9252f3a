SPECIFICATION Spec
CONSTANTS
    r1 = r1  r2 = r2  sA = sA  sB = sB
    Requests = {r1, r2}
    Scopes = {sA, sB}
    Texts <- QuotedTexts
    Words <- MCWords
    Patterns <- MCPatterns
    Fold <- MCFold
    Code <- MCScopedCode
    Disambiguators <- MCSuffixes
    Opener <- MCOpener
    Closer <- MCCloser
    CodeChars = {"A", "T", "2"}
    Digits = {"2", "3"}
    Hyphen = "-"
INVARIANT ScopeIsolated
CHECK_DEADLOCK FALSE
