SPECIFICATION Spec
CONSTANTS
    Settings <- UnevenBlocks
    MaxFrames = 12
CHECK_DEADLOCK FALSE
INVARIANT AlwaysInOrder
