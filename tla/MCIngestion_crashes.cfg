\* Every fault.
SPECIFICATION Spec
CONSTANTS
    d1 = d1
    Doc = {d1}
    Content <- OwnContent
    Chunk = {"c1", "c2"}
    Rebuild = {"r1"}
    Deletable = {d1}
    ForeignKeys = TRUE
    Faults = {"kafka_down", "kafka_error", "parse", "index", "es_delete", "file_delete", "database", "worker_crash", "api_crash"}
    MaxCrashes = 2
\* Nothing is left to do once every request is over.
CHECK_DEADLOCK FALSE
INVARIANTS
    IInv
    IndexHasRows
    ParsingHasTask
    CrashLosesOneTask
