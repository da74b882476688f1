SPECIFICATION BackupSpec
CONSTANTS
    MaxBackups = 1
    MaxWrites = 1
    MaxBackupFaults = 1
INVARIANTS
    IntactBackupRestores
CHECK_DEADLOCK FALSE
