CONSTANTS
    main = main
    other = other
    evil = evil
    good = good
    None = None
    Default = main
    Namespace <- OneNamespace
    Source <- OneSource
    Operations = {"write", "retrieval", "action", "trace", "blast_radius", "rollback"}
    Concurrent = TRUE
    Interrupts = TRUE
    MaxRecords = 3
    MaxRefs = 1
SPECIFICATION Spec
CHECK_DEADLOCK FALSE
INVARIANTS EdgesGoForward LineageComplete LineageSound RollbackNeverOverreaches WalkIsBracketed
