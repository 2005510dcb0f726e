CONSTANTS
    p1 = p1
    p2 = p2
    r1 = r1
    r2 = r2
    r3 = r3
    r4 = r4
    key = key
    Kid = key
    Proc <- TwoProcs
    Rec <- ThreeRecs
    CheckpointEvery = 1
    Exclusive = FALSE
    OutsideReader = TRUE
    MaxCheckpoints = 2
SPECIFICATION Spec
SYMMETRY Symmetry
INVARIANTS RacesOnlyLeaveGaps RecordedOnce NoFalseTruncation
