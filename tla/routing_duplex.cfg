SPECIFICATION Spec
CONSTANTS
    None = None
    Routes <- DuplexRoutes
    Rank <- DuplexRank
    StreamRoutes = {"Media", "Bt"}
    LpeRoutes = {"Bt"}
    SspRoutes = {"Media"}
    Slaves <- DuplexSlaves
    Ports <- PortsDef
    PortsOf <- DuplexPorts
    PortGroups <- PortGroupsDef
    Devices <- DevicesDef
    DeviceChoices = {{"spk"}, {"sco"}, {"spk", "sco"}}
    FlushDevices <- FlushDef
    DevicesOf <- DuplexDevices
    ModesOf <- DuplexModes
    MasksOf <- DuplexMasks
    AndroidModes = {"normal"}
    Masks <- MasksDef
    NoMask = "none"
    Streams <- Duplex
    DirOf <- DuplexDir
    OpenMask <- DuplexMask
    FlagsMayChange = FALSE
    Failures = {"open"}
    ModemLess = TRUE
    MaxPending = 2
INVARIANTS TypeOK NoFatal ExclusivePorts RoutedStreamOwnsDevice StoppedStreamIsDetached
PROPERTIES DetachedWhenMuted DevicesWellUsed
