SPECIFICATION Spec
CONSTANTS
    None = None
    Ins <- InsDef
    Outs <- OutsDef
    Effects <- EffectsDef
    Aec <- AecDef
    RouteKinds <- KindsDef
    Repeats = FALSE
    MaxRetries = 2
    MaxRefs = 3
CHECK_DEADLOCK FALSE
INVARIANT NoCircularWait
