CONSTANTS
    a = a
    b = b
    Retries = 2
    Tasks = {a}
    NoTask = NoTask
    Workers = {w1, w2}
    NoWorker = NoWorker
    Execs = {e1}
    Deps <- ChainDeps
    Refs <- ChainRefs
    MaxRetries <- SameRetries
    Outcomes = {"output"}
    UnderscoreIds = FALSE
    MaxCrashes = 1
    MaxFaults = 0
SPECIFICATION FairSpec
INVARIANTS SuccessHasResult
PROPERTIES RecoveryCompletes
