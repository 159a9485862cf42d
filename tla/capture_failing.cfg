SPECIFICATION Spec
CONSTANTS
    Settings <- FailingEffect
    MaxFrames = 12
CHECK_DEADLOCK FALSE
INVARIANT NeverTooMany
