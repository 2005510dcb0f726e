CONSTANTS
    main = main
    other = other
    evil = evil
    good = good
    None = None
    Default = main
    Namespace <- TwoNamespaces
    Source <- OneSource
    Operations = {"write", "rollback"}
    Concurrent = FALSE
    Interrupts = FALSE
    MaxRecords = 4
    MaxRefs = 1
SPECIFICATION Spec
CHECK_DEADLOCK FALSE
INVARIANTS TypeOK RollbackIsScopedInfluence
