---------------------------- MODULE ProgramsProofs ----------------------------
(***************************************************************************)
(* Proofs about MCPrograms, which checks six programs in one run by        *)
(* letting one of them move: the run is as good as six.  Every behaviour   *)
(* it explores is, seen from each program, one of that program's own       *)
(* specification, so what is proved of the programs holds of the run; and  *)
(* every behaviour of a program is one of the run's, so that the run       *)
(* leaves out nothing of any program.                                      *)
(***************************************************************************)
EXTENDS MCPrograms, MySqlBackupProofs, DiversionRulesProofs, NasAuditProofs,
        P4GatewayProofs, AdaptiveThresholdsProofs

\* One step of the run is, for each program, one of its steps or none.
LEMMA ProgramsStep ==
    [ProgramsNext]_programVars =>
        /\ [BackupNext]_backupVars /\ [DiversionNext]_diversionVars
        /\ [NasMonitorNext]_nasMonitorVars /\ [NasQuarantineNext]_nasQuarantineVars
        /\ [GatewayNext]_gatewayVars /\ [AdaptiveNext]_adaptiveVars
BY DEF ProgramsNext, programVars

\* Each program of the run behaves as its own specification says.
THEOREM EachProgramIsItself ==
    ProgramsSpec => /\ BackupSpec /\ DiversionSpec /\ NasMonitorSpec
                    /\ NasQuarantineSpec /\ GatewaySpec /\ AdaptiveSpec
<1>1. ProgramsInit => /\ BackupInit /\ DiversionInit /\ NasMonitorInit
                      /\ NasQuarantineInit /\ GatewayInit /\ AdaptiveInit
  BY DEF ProgramsInit
<1> QED
  BY <1>1, ProgramsStep, PTL
     DEF ProgramsSpec, BackupSpec, DiversionSpec, NasMonitorSpec, NasQuarantineSpec,
         GatewaySpec, AdaptiveSpec

\* The variables of all six programs keep their types.
THEOREM ProgramsTypeCorrect == ProgramsSpec => []ProgramsTypeOK
<1>1. /\ BackupTypeOK /\ DiversionTypeOK /\ NasMonitorTypeOK /\ NasQuarantineTypeOK
      /\ GatewayTypeOK /\ AdaptiveTypeOK
      => ProgramsTypeOK
  BY DEF ProgramsTypeOK
<1> QED
  BY <1>1, EachProgramIsItself, BackupTypeCorrect, DiversionTypeCorrect,
     NasMonitorTypeCorrect, NasQuarantineTypeCorrect, GatewayTypeCorrect,
     AdaptiveTypeCorrect, PTL

\* Everything else the run checks holds of its specification for every value of
\* the constants.
THEOREM ProgramsAreSafe ==
    ProgramsSpec =>
        /\ []ManifestHasArchive /\ []PositionNotBeyondDump /\ []NothingLeftBehind
        /\ []RestoredIsBackedUp /\ CatalogueKept
        /\ []NoOrphanRoute /\ []EntriesAreActive /\ OnlyStricter
        /\ []StoredIsReported /\ []ContentKept
        /\ []SwitchFollowsMonitor /\ []BlockedHasEntry /\ OnlyWantedWrites
        /\ []OnlyApprovedInUse /\ []WithinBounds
BY EachProgramIsItself, PublishedIsStored, PositionIsSafe, CleanedUp, RestoreIsSound,
   ProgramImplementsCatalogue, RoutesAreOwned, EntriesStayActive, StricterOnly,
   StoredReported, NothingLost, SwitchFollows, BlockedListed, CallbacksInTime,
   ApprovedBeforeUse, ThresholdsWithinBounds, PTL

-----------------------------------------------------------------------------
\* The program that moves, and the variables of the others.
BackupMoves == program = "backup"
DiversionMoves == program = "diversion"
MonitorMoves == program = "monitor"
QuarantineMoves == program = "quarantine"
GatewayMoves == program = "gateway"
AdaptiveMoves == program = "adaptive"

BesideBackup == <<program, diversionVars, nasMonitorVars, nasQuarantineVars,
                  gatewayVars, adaptiveVars>>
BesideDiversion == <<program, backupVars, nasMonitorVars, nasQuarantineVars,
                     gatewayVars, adaptiveVars>>
BesideMonitor == <<program, backupVars, diversionVars, nasQuarantineVars,
                   gatewayVars, adaptiveVars>>
BesideQuarantine == <<program, backupVars, diversionVars, nasMonitorVars,
                      gatewayVars, adaptiveVars>>
BesideGateway == <<program, backupVars, diversionVars, nasMonitorVars,
                   nasQuarantineVars, adaptiveVars>>
BesideAdaptive == <<program, backupVars, diversionVars, nasMonitorVars,
                    nasQuarantineVars, gatewayVars>>

LEMMA BackupIsExplored ==
    ProgramsInit /\ BackupMoves /\ BackupSpec /\ [][FALSE]_BesideBackup => ProgramsSpec
<1>1. BackupMoves /\ [BackupNext]_backupVars /\ [FALSE]_BesideBackup
      => [ProgramsNext]_programVars /\ BackupMoves'
  BY DEF BackupMoves, BesideBackup, ProgramsNext, programVars
<1> QED
  BY <1>1, PTL DEF ProgramsSpec, BackupSpec

LEMMA DiversionIsExplored ==
    ProgramsInit /\ DiversionMoves /\ DiversionSpec /\ [][FALSE]_BesideDiversion => ProgramsSpec
<1>1. DiversionMoves /\ [DiversionNext]_diversionVars /\ [FALSE]_BesideDiversion
      => [ProgramsNext]_programVars /\ DiversionMoves'
  BY DEF DiversionMoves, BesideDiversion, ProgramsNext, programVars
<1> QED
  BY <1>1, PTL DEF ProgramsSpec, DiversionSpec

LEMMA MonitorIsExplored ==
    ProgramsInit /\ MonitorMoves /\ NasMonitorSpec /\ [][FALSE]_BesideMonitor => ProgramsSpec
<1>1. MonitorMoves /\ [NasMonitorNext]_nasMonitorVars /\ [FALSE]_BesideMonitor
      => [ProgramsNext]_programVars /\ MonitorMoves'
  BY DEF MonitorMoves, BesideMonitor, ProgramsNext, programVars
<1> QED
  BY <1>1, PTL DEF ProgramsSpec, NasMonitorSpec

LEMMA QuarantineIsExplored ==
    ProgramsInit /\ QuarantineMoves /\ NasQuarantineSpec /\ [][FALSE]_BesideQuarantine => ProgramsSpec
<1>1. QuarantineMoves /\ [NasQuarantineNext]_nasQuarantineVars /\ [FALSE]_BesideQuarantine
      => [ProgramsNext]_programVars /\ QuarantineMoves'
  BY DEF QuarantineMoves, BesideQuarantine, ProgramsNext, programVars
<1> QED
  BY <1>1, PTL DEF ProgramsSpec, NasQuarantineSpec

LEMMA GatewayIsExplored ==
    ProgramsInit /\ GatewayMoves /\ GatewaySpec /\ [][FALSE]_BesideGateway => ProgramsSpec
<1>1. GatewayMoves /\ [GatewayNext]_gatewayVars /\ [FALSE]_BesideGateway
      => [ProgramsNext]_programVars /\ GatewayMoves'
  BY DEF GatewayMoves, BesideGateway, ProgramsNext, programVars
<1> QED
  BY <1>1, PTL DEF ProgramsSpec, GatewaySpec

LEMMA AdaptiveIsExplored ==
    ProgramsInit /\ AdaptiveMoves /\ AdaptiveSpec /\ [][FALSE]_BesideAdaptive => ProgramsSpec
<1>1. AdaptiveMoves /\ [AdaptiveNext]_adaptiveVars /\ [FALSE]_BesideAdaptive
      => [ProgramsNext]_programVars /\ AdaptiveMoves'
  BY DEF AdaptiveMoves, BesideAdaptive, ProgramsNext, programVars
<1> QED
  BY <1>1, PTL DEF ProgramsSpec, AdaptiveSpec

\* The converse: a program that moves while the others stay where ProgramsInit
\* puts them, whatever it does, is a behaviour of the run.
THEOREM NoBehaviourLost ==
    ProgramsInit =>
        /\ BackupMoves /\ BackupSpec /\ [][FALSE]_BesideBackup => ProgramsSpec
        /\ DiversionMoves /\ DiversionSpec /\ [][FALSE]_BesideDiversion => ProgramsSpec
        /\ MonitorMoves /\ NasMonitorSpec /\ [][FALSE]_BesideMonitor => ProgramsSpec
        /\ QuarantineMoves /\ NasQuarantineSpec /\ [][FALSE]_BesideQuarantine => ProgramsSpec
        /\ GatewayMoves /\ GatewaySpec /\ [][FALSE]_BesideGateway => ProgramsSpec
        /\ AdaptiveMoves /\ AdaptiveSpec /\ [][FALSE]_BesideAdaptive => ProgramsSpec
BY BackupIsExplored, DiversionIsExplored, MonitorIsExplored,
   QuarantineIsExplored, GatewayIsExplored, AdaptiveIsExplored, PTL
=============================================================================
