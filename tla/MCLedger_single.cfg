CONSTANTS
    p1 = p1
    p2 = p2
    r1 = r1
    r2 = r2
    r3 = r3
    r4 = r4
    key = key
    Kid = key
    Proc <- TwoProcs
    Rec <- FourRecs
    CheckpointEvery = 2
    Exclusive = TRUE
    OutsideReader = FALSE
    MaxCheckpoints = 4
SPECIFICATION Spec
SYMMETRY Symmetry
INVARIANTS TypeOK ChainIntact MerkleIntact AckedIsSealed
PROPERTY ImplementsLog
