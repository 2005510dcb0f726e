CONSTANTS
    client = client
    sidecar = sidecar
    m1 = m1
    m2 = m2
    None = None
    Client <- OneClient
    Sidecar <- OneSidecar
    TagReader <- OneSidecar
    Memory <- TwoMemories
    MaxRecords = 2
    MaxBatch = 2
SPECIFICATION Spec
SYMMETRY Symmetry
CHECK_DEADLOCK FALSE
INVARIANTS TypeOK BypassIsReported AckedIsKnown RecordedWasStored TagNamesItsWrite TaggedReadsAreLinked
