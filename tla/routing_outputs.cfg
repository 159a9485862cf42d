SPECIFICATION Spec
CONSTANTS
    None = None
    Routes <- OutputsRoutes
    Rank <- OutputsRank
    StreamRoutes = {"Media", "Deep"}
    LpeRoutes = {}
    SspRoutes = {"Media"}
    Slaves <- OutputsSlaves
    Ports <- PortsDef
    PortsOf <- OutputsPorts
    PortGroups <- PortGroupsDef
    Devices <- DevicesDef
    DeviceChoices = {{}, {"spk"}}
    FlushDevices <- FlushDef
    DevicesOf <- OutputsDevices
    ModesOf <- OutputsModes
    MasksOf <- OutputsMasks
    AndroidModes = {"normal", "incall"}
    Masks <- MasksDef
    NoMask = "none"
    Streams <- Outputs
    DirOf <- OutputsDir
    OpenMask <- RivalsMask
    FlagsMayChange = FALSE
    Failures = {}
    ModemLess = FALSE
    MaxPending = 2
INVARIANTS NoDanglingStream RoutedAsPrepared
