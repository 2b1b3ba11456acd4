\* Uploads, rebuilds and a delete around the worker; parsing, indexing and ES
\* deletes may fail, processes and Kafka do not.
SPECIFICATION FairSpec
CONSTANTS
    d1 = d1
    Doc = {d1}
    Content <- OwnContent
    Chunk = {"c1"}
    Rebuild = {"r1", "r2"}
    Deletable = {d1}
    ForeignKeys = FALSE
    Faults = {"parse", "index", "es_delete"}
    MaxCrashes = 0
\* Nothing is left to do once every request is over.
CHECK_DEADLOCK FALSE
INVARIANTS
    IndexedIsSearchable
PROPERTIES
    UploadsSettle
    RebuildServed
