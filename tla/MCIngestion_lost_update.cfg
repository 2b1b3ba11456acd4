\* A rebuild without any fault.
SPECIFICATION Spec
CONSTANTS
    d1 = d1
    Doc = {d1}
    Content <- OwnContent
    Chunk = {"c1", "c2"}
    Rebuild = {"r1"}
    Deletable = {}
    ForeignKeys = TRUE
    Faults = {}
    MaxCrashes = 0
\* Nothing is left to do once every request is over.
CHECK_DEADLOCK FALSE
INVARIANTS
    PendingIsServed
