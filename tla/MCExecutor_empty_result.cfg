\* A dependency that completes with no text, on the four-step shapes.
SPECIFICATION Spec
CONSTANTS
    NumSteps = 4
    RawPlans <- Shapes
    ViaLoop = TRUE
    ExecutionMode = "dag"
    MaxRetriesPerStep = 0
    MaxConsecutiveFailures = 3
    MaxLowGainSteps = 2
    Fingerprint = {"f1"}
CHECK_DEADLOCK FALSE
INVARIANTS
    EmptyResultIsReadable
