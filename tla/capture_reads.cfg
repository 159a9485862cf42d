SPECIFICATION Spec
CONSTANTS
    Settings <- SettingsDef
    MaxFrames = 8
CHECK_DEADLOCK FALSE
INVARIANTS SessionInOrder FramesInOrder FitsMemory
PROPERTIES NoFrameLost ReadReturns
