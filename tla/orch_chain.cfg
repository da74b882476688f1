CONSTANTS
    a = a
    b = b
    Retries = 1
    Tasks = {a, b}
    NoTask = NoTask
    Workers = {w1}
    NoWorker = NoWorker
    Execs = {e1, e2}
    Deps <- ChainDeps
    Refs <- ChainRefs
    MaxRetries <- SameRetries
    Outcomes = {"output", "empty", "oversized", "failure", "timeout"}
    UnderscoreIds = FALSE
    MaxCrashes = 0
    MaxFaults = 0
SPECIFICATION Spec
INVARIANTS TypeOK UpstreamReady RetryBound OneThreadPerTask
SYMMETRY ThreadSymmetry
PROPERTIES InOrder
