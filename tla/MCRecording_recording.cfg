CONSTANTS
    t = t
    u = u
    n1 = n1
    n2 = n2
    east = east
    near_east = near_east
    north = north
    k1 = k1
    k2 = k2
    Absent = Absent
    Empty = Empty
    Key = {k1, k2}
    Namespace = {n1, n2}
    Source <- TwoSources
    TrustedSource <- OneTrusted
    Text <- ThreeTexts
    Embed <- Directions
    Norm = 13
    WindowSeconds = 0
    MaxWrites = 1
    RandA = 1
    RandB = 2
    MaxAttempts = 3
    MaxRows = 2
    MaxClock = 1
SYMMETRY Symmetry
SPECIFICATION Spec
INVARIANTS TypeOK KeySignsLedger BurstsAreFlagged DriftDiffersByMemory
PROPERTY IdsIncrease
