SPECIFICATION Spec
CONSTANTS
    Callers <- CallersDef
    Calls <- SharedCalls
    KeyOrder <- KeyOrderDef
    Size <- SizeDef
    ReadSize = 499
    HfpSupported = TRUE
    WriteFails = FALSE
    MaxPending = 2
    None = "none"
INVARIANTS StateFollowsMemory
