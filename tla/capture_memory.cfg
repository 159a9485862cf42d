SPECIFICATION Spec
CONSTANTS
    Settings <- NoMemory
    MaxFrames = 12
CHECK_DEADLOCK FALSE
INVARIANT SizeIsMemory
