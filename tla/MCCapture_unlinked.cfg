CONSTANTS
    client = client
    sidecar = sidecar
    m1 = m1
    m2 = m2
    None = None
    Client <- OneClient
    Sidecar = {}
    TagReader = {}
    Memory <- TwoMemories
    MaxRecords = 3
    MaxBatch = 1
SPECIFICATION Spec
CHECK_DEADLOCK FALSE
INVARIANT ReadsAreLinked
