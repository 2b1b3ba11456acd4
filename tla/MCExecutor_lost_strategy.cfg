\* Every retry strategy, the plan handed to the executor by the loop.
SPECIFICATION Spec
CONSTANTS
    NumSteps = 2
    RawPlans <- EveryStrategy
    ViaLoop = TRUE
    ExecutionMode = "dag"
    MaxRetriesPerStep = 1
    MaxConsecutiveFailures = 3
    MaxLowGainSteps = 2
    Fingerprint = {"f1"}
CHECK_DEADLOCK FALSE
INVARIANTS
    RetryStrategyHonoured
