SPECIFICATION TrySpec
CONSTANTS
    EhMax = 3
    MaxEntries = 6
    EarlyExit = TRUE
PROPERTY ThrowToNearest
