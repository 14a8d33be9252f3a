SPECIFICATION DetectorSpec
CONSTANTS
    Length = 3
    LastSource = 2
    EmptyMatches = TRUE
    MaxCandidates = 3
INVARIANT PlanNonOverlapping
CHECK_DEADLOCK FALSE
