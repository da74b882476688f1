SPECIFICATION ProgramsSpec
CONSTANTS
    MaxBackups = 1
    MaxWrites = 2
    MaxBackupFaults = 1
    Dsts = {d1}
    NoRule = NoRule
    Rates = {1, 3}
    Types = {"http_flood", "udp_amplification"}
    MaxRules = 2
    MaxDiversionTasks = 1
    UpgradeThreshold = 2
    NasFiles = {f1, f2}
    MaxChanges = 2
    MaxNotifiers = 2
    MaxOutages = 2
    ScanWorkers = {w1}
    Api = api
    MaxContents = 2
    MaxSlots = 2
    MaxSmbErrors = 2
    Floods = {s1}
    FloodTypes = {"udp", "syn"}
    MaxBlocks = 2
    MaxSwitchFaults = 1
    ThresholdTypes = {"udp"}
    Trainers = {t1, t2}
    MaxLevel = 2
    MaxTrainings = 2
    MaxSettings = 1
INVARIANTS
    ProgramsTypeOK
    ManifestHasArchive
    PositionNotBeyondDump
    NothingLeftBehind
    RestoredIsBackedUp
    NoOrphanRoute
    EntriesAreActive
    StoredIsReported
    
    SwitchFollowsMonitor
    BlockedHasEntry
    OnlyApprovedInUse
    WithinBounds
PROPERTIES
    OnlyStricter
    CatalogueKept
    OnlyWantedWrites
CHECK_DEADLOCK FALSE
