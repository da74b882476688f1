CONSTANTS
    a = a
    b = b
    Retries = 3
    Tasks = {a}
    NoTask = NoTask
    Workers = {w1}
    NoWorker = NoWorker
    Execs = {e1, e2}
    Deps <- ChainDeps
    Refs <- ChainRefs
    MaxRetries <- SameRetries
    Outcomes = {"output", "failure"}
    UnderscoreIds = FALSE
    MaxCrashes = 0
    MaxFaults = 0
SPECIFICATION FairSpec
PROPERTIES SuccessIsFinal
