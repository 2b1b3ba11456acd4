\* Three requests on the memory of one agent, every fault and a crash.
SPECIFICATION Spec
CONSTANTS
    r1 = r1
    r2 = r2
    r3 = r3
    o1 = o1
    Request <- MCRequest
    Old <- MCOld
    MaxShortTerm = 1
    MinRecent = 1
    Faults = {"load", "save", "reorder", "cancel", "expire"}
    MaxCrashes = 1
SYMMETRY Symmetry
\* Every request ends.
CHECK_DEADLOCK FALSE
INVARIANTS
    IInv
    RedisWithinMemory
    AcknowledgedDurable
PROPERTIES
    SaveKeepsStored
