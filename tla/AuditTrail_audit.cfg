SPECIFICATION AuditSpec
CONSTANTS
    Max = 8
    Prune = 6
    Setup = 1
    Recent = 2
    MaxWrites = 17
INVARIANTS
    CapHolds
    EscalationsKept
    BothEndsKept
    OrdinaryOnceInOrder
CHECK_DEADLOCK FALSE
