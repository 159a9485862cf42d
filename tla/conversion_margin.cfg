SPECIFICATION Spec
CONSTANTS
    Clients <- MCClients
    OutSpecs <- MCOutSpecs
    InSpecs <- MCInSpecs
    Supported <- MCSupported
    Requests = {1, 2, 22}
    MaxHwFrames = 8
    MaxFrames = 32
    MaxAttached = 1
    Samples <- MCSamples
    Words <- MCWords
INVARIANT WithinMargin
CHECK_DEADLOCK FALSE
