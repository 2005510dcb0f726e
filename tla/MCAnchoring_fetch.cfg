CONSTANTS
    r1 = r1
    r2 = r2
    r3 = r3
    key = key
    Kid = key
    Rec <- TwoRecs
    Backends = {"rekor"}
    Cadences = {0}
    Faults = {}
    MaxWitnesses = 3
    MaxCheckpoints = 3
    MaxRestores = 1
SPECIFICATION Spec
CHECK_DEADLOCK FALSE
INVARIANT FetchFailureHidesNothing
