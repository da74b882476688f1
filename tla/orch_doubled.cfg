CONSTANTS
    a = a
    b = b
    Retries = 2
    Tasks = {a}
    NoTask = NoTask
    Workers = {w1}
    NoWorker = NoWorker
    Execs = {e1, e2}
    Deps <- ChainDeps
    Refs <- ChainRefs
    MaxRetries <- SameRetries
    Outcomes = {"output", "failure", "timeout"}
    UnderscoreIds = TRUE
    MaxCrashes = 0
    MaxFaults = 0
SPECIFICATION Spec
INVARIANTS RetryBound
SYMMETRY ThreadSymmetry
