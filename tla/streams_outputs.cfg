SPECIFICATION Spec
CONSTANTS
    None = None
    Ins <- InsDef
    Outs <- TwoOutsDef
    Effects <- EffectsDef
    Aec <- AecDef
    RouteKinds <- KindsDef
    Repeats = FALSE
    MaxRetries = 2
    MaxRefs = 4
CHECK_DEADLOCK FALSE
INVARIANT OneReference
