\* Every dependency graph on four steps, plans reaching the executor through the
\* loop (so every step is retried automatically and has no fallback tool).
SPECIFICATION Spec
CONSTANTS
    NumSteps = 4
    RawPlans <- EveryGraph
    ViaLoop = TRUE
    ExecutionMode = "dag"
    MaxRetriesPerStep = 0
    MaxConsecutiveFailures = 2
    MaxLowGainSteps = 2
    Fingerprint = {"f1", "f2"}
\* A run stops for good once it has ended.
CHECK_DEADLOCK FALSE
INVARIANTS
    IInv
    OnlyCyclesLoseDeps
    DependencyOrder
    CountersAgree
    DependentsSeeResults
    SkipJustified
PROPERTIES
    ImplementsPlanExecution
