SPECIFICATION BufferSpec
CONSTANTS
    Opener <- MCOpener
    Closer <- MCCloser
    CodeChars = {"A", "2"}
    Digits = {"2"}
    Hyphen = "-"
    Bracket = "]"
    CodeLen = 1
    SuffixLen = 2
    Vault <- MCVault
    Pieces <- SuffixPieces
    MaxPieces = 4
    MaxChunk = 8
INVARIANT EmittedIsPrefix
CHECK_DEADLOCK FALSE
