SPECIFICATION Spec
CONSTANTS
    Devices <- DevicesDef
    InputDevices <- InputDevicesDef
    Sources <- SourcesDef
    NoSource = "none"
    Voip = "voip"
    Params = {"bt"}
    MaxDirects = 2
    MaxQueue = 3
    KeysMayFail = FALSE
PROPERTY BandChangeProcessed
