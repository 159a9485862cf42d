SPECIFICATION Spec
CONSTANTS
    OutputChoices <- OutputsDef
    InputChoices <- InputsDef
    StreamChoices <- StreamsDef
    Requests = {"output", "input", "streams", "modem", "parameters"}
    Toggled <- ToggledDef
    MaxOdd = 1
    MaxChanges = 1
INVARIANTS ExclusivePorts OneRoutePerStream BackEndServes CallIsDuplex CodecFollowsDevices CallTuned
