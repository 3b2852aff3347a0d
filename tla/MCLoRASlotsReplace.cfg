SPECIFICATION LoRASpec
CONSTANTS
    Adapter = {1, 2}
    MaxId = 2
    Slots = 1
    Capacity = 2
    Reloaded = {1, 2}
    MaxRows = 1
    MaxWrites = 1
INVARIANTS FailedReplacementKeepsOld
CHECK_DEADLOCK FALSE
