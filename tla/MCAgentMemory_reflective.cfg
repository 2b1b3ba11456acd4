\* A restart without any fault.
SPECIFICATION Spec
CONSTANTS
    r1 = r1
    r2 = r2
    r3 = r3
    o1 = o1
    Request <- MCRequest
    Old <- MCOld
    MaxShortTerm = 1
    MinRecent = 1
    Faults = {}
    MaxCrashes = 1
SYMMETRY Symmetry
CHECK_DEADLOCK FALSE
INVARIANTS
    ReflectiveRestored
