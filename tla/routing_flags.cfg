SPECIFICATION Spec
CONSTANTS
    None = None
    Routes <- OutputsRoutes
    Rank <- OutputsRank
    StreamRoutes = {"Media", "Deep"}
    LpeRoutes = {}
    SspRoutes = {"Media"}
    Slaves <- OutputsSlaves
    Ports <- PortsDef
    PortsOf <- OutputsPorts
    PortGroups <- PortGroupsDef
    Devices <- DevicesDef
    DeviceChoices = {{"spk"}}
    FlushDevices <- FlushDef
    DevicesOf <- OutputsDevices
    ModesOf <- OutputsModes
    MasksOf <- OutputsMasks
    AndroidModes = {"normal"}
    Masks <- MasksDef
    NoMask = "none"
    Streams <- Outputs
    DirOf <- OutputsDir
    OpenMask <- OutputsMask
    FlagsMayChange = TRUE
    Failures = {}
    ModemLess = TRUE
    MaxPending = 2
INVARIANT RoutedAsPrepared
