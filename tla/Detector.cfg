SPECIFICATION DetectorSpec
CONSTANTS
    Length = 4
    LastSource = 2
    EmptyMatches = FALSE
    MaxCandidates = 3
INVARIANTS DetectorTypeOK LoopResolves NothingForgotten PlaceholdersUntouched PlanNonOverlapping
CHECK_DEADLOCK FALSE
