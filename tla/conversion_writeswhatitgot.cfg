SPECIFICATION Spec
CONSTANTS
    Clients <- MCClients
    OutSpecs <- MCOutSpecs
    InSpecs <- MCInSpecs
    Supported <- MCSupported
    Requests = {1, 2, 5}
    MaxHwFrames = 4
    MaxFrames = 14
    MaxAttached = 2
    Samples <- MCSamples
    Words <- MCWords
INVARIANT WritesWhatItGot
CHECK_DEADLOCK FALSE
