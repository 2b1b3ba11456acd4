\* A delete without any fault, foreign keys enforced.
SPECIFICATION Spec
CONSTANTS
    d1 = d1
    Doc = {d1}
    Content <- OwnContent
    Chunk = {"c1", "c2"}
    Rebuild = {}
    Deletable = {d1}
    ForeignKeys = TRUE
    Faults = {}
    MaxCrashes = 0
\* Nothing is left to do once every request is over.
CHECK_DEADLOCK FALSE
INVARIANTS
    IndexedIsSearchable
