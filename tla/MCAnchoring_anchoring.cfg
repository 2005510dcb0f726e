CONSTANTS
    r1 = r1
    r2 = r2
    r3 = r3
    key = key
    Kid = key
    Rec <- ThreeRecs
    Backends = {"file-witness", "rekor"}
    Cadences = {0, 1}
    Faults = {"crash", "lost_response", "short_write"}
    MaxWitnesses = 2
    MaxCheckpoints = 3
    MaxRestores = 1
SYMMETRY Symmetric
SPECIFICATION Spec
CHECK_DEADLOCK FALSE
INVARIANTS TypeOK NoFalseAlarm AnchoredIsProtected LossIsDetected LiveVerifyOnlyLags
