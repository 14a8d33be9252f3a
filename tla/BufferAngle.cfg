SPECIFICATION BufferSpec
CONSTANTS
    Opener <- AngleOpener
    Closer <- AngleCloser
    CodeChars = {"A", "2"}
    Digits = {"2"}
    Hyphen = "-"
    Bracket = "]"
    CodeLen = 1
    SuffixLen = 2
    Vault <- MCVault
    Pieces <- AnglePieces
    MaxPieces = 4
    MaxChunk = 8
INVARIANT CompleteNotFlagged
CHECK_DEADLOCK FALSE
