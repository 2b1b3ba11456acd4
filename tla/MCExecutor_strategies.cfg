\* Every retry strategy and fallback choice on three steps, the plan handed to
\* the executor as the planner made it.
SPECIFICATION FairSpec
CONSTANTS
    NumSteps = 3
    RawPlans <- EveryStrategy
    ViaLoop = FALSE
    ExecutionMode = "dag"
    MaxRetriesPerStep = 1
    MaxConsecutiveFailures = 3
    MaxLowGainSteps = 2
    Fingerprint = {"f1"}
CHECK_DEADLOCK FALSE
INVARIANTS
    RetryStrategyHonoured
PROPERTIES
    Termination
    AttemptsEnd
