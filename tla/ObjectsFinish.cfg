SPECIFICATION Spec
CONSTANTS
    Opener <- MCOpener
    Closer <- MCCloser
    CodeChars = {"A", "2"}
    Digits = {"2"}
    Hyphen = "-"
    Bracket = "]"
    CodeLen = 1
    SuffixLen = 0
    Vault <- MCVault
    Fragments <- MCFragments
    Blocks = {1, 2}
    StartTexts <- NoText
    MaxFrames = 5
    ChoiceIds = {0}
    MaxChunks = 3
PROPERTY NothingAfterFinish
CHECK_DEADLOCK FALSE
