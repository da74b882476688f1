------------------------------ MODULE MCPrograms ------------------------------
(***************************************************************************)
(* The programs of the repository that stand alone, checked in one run:    *)
(* `program` names the one that moves, the others stay where they start.   *)
(***************************************************************************)
EXTENDS MySqlBackup, DiversionRules, NasMonitor, NasQuarantine, P4Gateway,
        AdaptiveThresholds

VARIABLE program

programVars == <<backupVars, diversionVars, nasMonitorVars, nasQuarantineVars,
                 gatewayVars, adaptiveVars, program>>

ProgramsInit ==
    /\ program \in {"backup", "diversion", "monitor", "quarantine", "gateway", "adaptive"}
    /\ BackupInit /\ DiversionInit /\ NasMonitorInit /\ NasQuarantineInit
    /\ GatewayInit /\ AdaptiveInit
    \* a program that does not move starts in one of its initial states only
    /\ program # "backup" => ~gpg
    /\ program # "gateway" => gw.type = CHOOSE t \in FloodTypes : TRUE
    /\ program # "adaptive" => sklearn /\ mode = "auto"

ProgramsNext ==
    /\ UNCHANGED program
    /\ \/ program = "backup" /\ BackupNext
       \/ program # "backup" /\ UNCHANGED backupVars
    /\ \/ program = "diversion" /\ DiversionNext
       \/ program # "diversion" /\ UNCHANGED diversionVars
    /\ \/ program = "monitor" /\ NasMonitorNext
       \/ program # "monitor" /\ UNCHANGED nasMonitorVars
    /\ \/ program = "quarantine" /\ NasQuarantineNext
       \/ program # "quarantine" /\ UNCHANGED nasQuarantineVars
    /\ \/ program = "gateway" /\ GatewayNext
       \/ program # "gateway" /\ UNCHANGED gatewayVars
    /\ \/ program = "adaptive" /\ AdaptiveNext
       \/ program # "adaptive" /\ UNCHANGED adaptiveVars

ProgramsSpec == ProgramsInit /\ [][ProgramsNext]_programVars

\* The variables of every program have their types.
ProgramsTypeOK ==
    /\ BackupTypeOK /\ DiversionTypeOK /\ NasMonitorTypeOK /\ NasQuarantineTypeOK
    /\ GatewayTypeOK /\ AdaptiveTypeOK
=============================================================================
