CONSTANTS
    a = a
    b = b
    Retries = 1
    Tasks = {a, b}
    NoTask = NoTask
    Workers = {w1}
    NoWorker = NoWorker
    Execs = {e1}
    Deps <- ChainDeps
    Refs <- ChainRefs
    MaxRetries <- SameRetries
    Outcomes = {"output", "empty"}
    UnderscoreIds = FALSE
    MaxCrashes = 0
    MaxFaults = 1
SPECIFICATION Spec
INVARIANTS UpstreamReady RetryBound
PROPERTIES InOrder
