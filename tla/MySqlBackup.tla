----------------------------- MODULE MySqlBackup -----------------------------
(***************************************************************************)
(* mylvmbackup (src/57): one run of the backup workflow after another on a *)
(* MySQL host, and restores of what they stored, by backup id, with S3     *)
(* enabled, full backups, and a compressor that notices a truncated file.  *)
(* Any command may fail and either process may die between two steps;      *)
(* both are counted by backupFaults.                                       *)
(*                                                                         *)
(* Backup 0 is one an earlier version of the program stored: its manifest  *)
(* has no per-file checksums, which the code still accepts.                *)
(***************************************************************************)
EXTENDS Integers, FiniteSets, Sequences

CONSTANTS MaxBackups,       \* bound: backup runs
          MaxWrites,        \* bound: transactions committed
          MaxBackupFaults   \* bound: failed commands, crashes, damaged objects

ASSUME BackupAssumption ==
    MaxBackups \in Nat /\ MaxWrites \in Nat /\ MaxBackupFaults \in Nat

VARIABLES
    gpg,                \* cfg.gpg.enabled
    writes,             \* transactions the server has committed
    readLocked,         \* the backup's session holds the global read lock
    snapshots,          \* runs whose snapshot volume exists
    mounts,             \* runs whose snapshot is mounted
    job,                \* the backup process
    manifestOf,         \* manifestOf[b]: what b's manifest says
    localManifests, bucketManifests,
    cut,                \* local manifests truncated and not (wholly) written again
    plain, cipher,      \* b's archive and encrypted archive on the host
    bucketArchive,      \* b's archive in the bucket
    restore,            \* the restore process
    stray,              \* runs killed or whose cleanup failed (history)
    strayVolume,        \* a restore was killed or its cleanup failed (history)
    backupFaults

dbVars == <<writes, readLocked>>
lvmVars == <<snapshots, mounts>>
manifestVars == <<manifestOf, localManifests, bucketManifests, cut>>
fileVars == <<plain, cipher, bucketArchive>>
backupVars == <<gpg, dbVars, lvmVars, job, manifestVars, fileVars, restore,
                stray, strayVolume, backupFaults>>

Backups == 0..MaxBackups
NoPosition == -1
FileState == {"none", "partial", "corrupt", "whole"}

\* mydumper's files as _sha256_dir names them: relative to the dump directory.
DumpFiles == {<<"table">>}
\* tar -C <parent> dump: every member's path starts with "dump".
Extracted(files) == {<<"dump">> \o f : f \in files}

Job == [pc : {"idle", "snapshot", "lock", "position", "unlock", "mount", "dump",
              "pack", "encrypt", "manifest", "fill", "archive", "publish", "rewrite", "refill",
              "unmount", "remove"},
        run : Backups, position : Int, dump : Nat, failed : BOOLEAN]
Manifest == [position : Int, dump : Nat, encrypted : BOOLEAN, files : SUBSET DumpFiles]
Restore == [pc : {"idle", "fetch", "verify", "decrypt", "unpack", "files",
                  "volume", "mount", "apply", "unmount", "cleanup"},
            of : Backups, mode : {"verify", "create", "apply"},
            unpacked : FileState, failed : BOOLEAN,
            volume : {"none", "created", "mounted"}, filled : BOOLEAN,
            result : {"none", "ok", "verified", "failed"}]

BackupTypeOK ==
    /\ gpg \in BOOLEAN /\ writes \in Nat /\ readLocked \in BOOLEAN
    /\ snapshots \subseteq Backups /\ mounts \subseteq Backups
    /\ job \in Job
    /\ manifestOf \in [Backups -> Manifest]
    /\ localManifests \subseteq Backups /\ bucketManifests \subseteq Backups
    /\ cut \subseteq localManifests
    /\ plain \in [Backups -> FileState] /\ cipher \in [Backups -> FileState]
    /\ bucketArchive \in [Backups -> FileState]
    /\ restore \in Restore
    /\ stray \subseteq Backups /\ strayVolume \in BOOLEAN
    /\ backupFaults \in Nat

IdleJob == [pc |-> "idle", run |-> 0, position |-> NoPosition, dump |-> 0,
            failed |-> FALSE]
IdleRestore == [pc |-> "idle", of |-> 0, mode |-> "verify", unpacked |-> "none",
                failed |-> FALSE, volume |-> "none", filled |-> FALSE, result |-> "none"]
EmptyManifest == [position |-> NoPosition, dump |-> 0, encrypted |-> FALSE, files |-> {}]
OnlyLegacy == [b \in Backups |-> IF b = 0 THEN "whole" ELSE "none"]
NoFiles == [b \in Backups |-> "none"]

BackupInit ==
    /\ gpg \in BOOLEAN
    /\ writes = 0 /\ readLocked = FALSE
    /\ snapshots = {} /\ mounts = {}
    /\ job = IdleJob
    /\ manifestOf = [b \in Backups |-> [EmptyManifest EXCEPT !.encrypted = gpg]]
    /\ localManifests = {} /\ bucketManifests = {0} /\ cut = {}
    /\ plain = NoFiles /\ cipher = NoFiles
    /\ bucketArchive = OnlyLegacy
    /\ restore = IdleRestore
    /\ stray = {} /\ strayVolume = FALSE
    /\ backupFaults = 0

BackupFault ==
    /\ backupFaults < MaxBackupFaults
    /\ backupFaults' = backupFaults + 1
NoBackupFault == UNCHANGED backupFaults

(***************************************************************************)
(* BackupWorkflow.run.  gpg, restore and strayVolume are left alone: see   *)
(* RunBackup.                                                              *)
(***************************************************************************)
JobGoes(pc) == job' = [job EXCEPT !.pc = pc]
JobFails(pc) == BackupFault /\ job' = [job EXCEPT !.pc = pc, !.failed = TRUE]

\* Mutant of StartBackup: the id is the one of the run before.
StartBackupSameId ==
    /\ job.pc = "idle" /\ job.run < MaxBackups
    /\ job' = [IdleJob EXCEPT !.pc = "snapshot", !.run = job.run]
    /\ UNCHANGED <<dbVars, lvmVars, manifestVars, fileVars, stray, backupFaults>>

\* Connected.  Ids carry the time: every run has a directory of its own.
StartBackup ==
    /\ job.pc = "idle" /\ job.run < MaxBackups
    /\ job' = [IdleJob EXCEPT !.pc = "snapshot", !.run = job.run + 1]
    /\ UNCHANGED <<dbVars, lvmVars, manifestVars, fileVars, stray, backupFaults>>

\* The snapshot is taken before the lock; nothing is cleaned up if it fails.
CreateSnapshot ==
    /\ job.pc = "snapshot"
    /\ \/ snapshots' = snapshots \cup {job.run} /\ JobGoes("lock") /\ NoBackupFault
       \/ JobFails("idle") /\ UNCHANGED snapshots
    /\ UNCHANGED <<dbVars, mounts, manifestVars, fileVars, stray>>

LockTables ==
    /\ job.pc = "lock"
    /\ \/ readLocked' = TRUE /\ JobGoes("position") /\ NoBackupFault
       \/ JobFails("unlock") /\ UNCHANGED readLocked
    /\ UNCHANGED <<writes, lvmVars, manifestVars, fileVars, stray>>

\* binary_log_info returns None when SHOW MASTER STATUS fails.
ReadPosition ==
    /\ job.pc = "position"
    /\ \/ job' = [job EXCEPT !.pc = "unlock", !.position = writes] /\ NoBackupFault
       \/ JobGoes("unlock") /\ BackupFault
    /\ UNCHANGED <<dbVars, lvmVars, manifestVars, fileVars, stray>>

\* UNLOCK TABLES in the finally, then close(), which ends the session.
UnlockTables ==
    /\ job.pc = "unlock"
    /\ readLocked' = FALSE
    /\ JobGoes(IF job.failed THEN "remove" ELSE "mount")
    /\ UNCHANGED <<writes, lvmVars, manifestVars, fileVars, stray, backupFaults>>

\* mount_snapshot, both its attempts.
MountSnapshot ==
    /\ job.pc = "mount"
    /\ \/ mounts' = mounts \cup {job.run} /\ JobGoes("dump") /\ NoBackupFault
       \/ JobFails("remove") /\ UNCHANGED mounts
    /\ UNCHANGED <<dbVars, snapshots, manifestVars, fileVars, stray>>

\* Mutant of RunMydumper: dumps what the snapshot of before the lock holds.
RunMydumperOnSnapshot ==
    /\ job.pc = "dump"
    /\ \E old \in 0..writes : job' = [job EXCEPT !.pc = "pack", !.dump = old]
    /\ UNCHANGED <<dbVars, lvmVars, manifestVars, fileVars, stray, backupFaults>>

\* run_mydumper connects to the server: the mounted snapshot is not read.
RunMydumper ==
    /\ job.pc = "dump"
    /\ \/ job' = [job EXCEPT !.pc = "pack", !.dump = writes] /\ NoBackupFault
       \/ JobFails("unmount")
    /\ UNCHANGED <<dbVars, lvmVars, manifestVars, fileVars, stray>>

PackDump ==
    /\ job.pc = "pack"
    /\ \/ /\ plain' = [plain EXCEPT ![job.run] = "whole"]
          /\ JobGoes(IF gpg THEN "encrypt" ELSE "manifest") /\ NoBackupFault
       \/ plain' = [plain EXCEPT ![job.run] = "partial"] /\ JobFails("unmount")
    /\ UNCHANGED <<dbVars, lvmVars, manifestVars, cipher, bucketArchive, stray>>

\* The plain archive goes once encrypted; failing to remove it is ignored.
EncryptArchive ==
    /\ job.pc = "encrypt"
    /\ \/ /\ cipher' = [cipher EXCEPT ![job.run] = "whole"] /\ JobGoes("manifest")
          /\ \/ plain' = [plain EXCEPT ![job.run] = "none"] /\ NoBackupFault
             \/ UNCHANGED plain /\ BackupFault
       \/ /\ cipher' = [cipher EXCEPT ![job.run] = "partial"] /\ JobFails("unmount")
          /\ UNCHANGED plain
    /\ UNCHANGED <<dbVars, lvmVars, manifestVars, bucketArchive, stray>>

\* write_manifest opens the file for writing, which truncates it, before it writes:
\* the first time, and again after the uploads to add the bucket and the key.
OpenManifest ==
    /\ job.pc \in {"manifest", "rewrite"}
    /\ \/ /\ localManifests' = localManifests \cup {job.run} /\ cut' = cut \cup {job.run}
          /\ JobGoes(IF job.pc = "manifest" THEN "fill" ELSE "refill") /\ NoBackupFault
       \/ JobFails("unmount") /\ UNCHANGED <<localManifests, cut>>
    /\ UNCHANGED <<dbVars, lvmVars, manifestOf, bucketManifests, fileVars, stray>>

MakeManifest ==
    manifestOf' = [manifestOf EXCEPT ![job.run] =
        [position |-> job.position, dump |-> job.dump, encrypted |-> gpg,
         files |-> DumpFiles]]

\* Mutant of WriteManifest: the manifest is uploaded as soon as it is written.
WriteManifestPublished ==
    /\ job.pc = "fill"
    /\ MakeManifest
    /\ cut' = cut \ {job.run}
    /\ bucketManifests' = bucketManifests \cup {job.run}
    /\ JobGoes("archive")
    /\ UNCHANGED <<dbVars, lvmVars, localManifests, fileVars, stray, backupFaults>>

WriteManifest ==
    /\ job.pc = "fill"
    /\ \/ MakeManifest /\ cut' = cut \ {job.run} /\ JobGoes("archive") /\ NoBackupFault
       \/ JobFails("unmount") /\ UNCHANGED <<manifestOf, cut>>
    /\ UNCHANGED <<dbVars, lvmVars, localManifests, bucketManifests, fileVars, stray>>

\* The second time; nothing reads what it adds.
RewriteManifest ==
    /\ job.pc = "refill"
    /\ \/ cut' = cut \ {job.run} /\ JobGoes("unmount") /\ NoBackupFault
       \/ JobFails("unmount") /\ UNCHANGED cut
    /\ UNCHANGED <<dbVars, lvmVars, manifestOf, localManifests, bucketManifests, fileVars, stray>>

\* The archive a manifest names, on the host.
ArchiveFile(b) == IF manifestOf[b].encrypted THEN cipher[b] ELSE plain[b]

UploadArchive ==
    /\ job.pc = "archive"
    /\ \/ /\ bucketArchive' = [bucketArchive EXCEPT ![job.run] = ArchiveFile(job.run)]
          /\ JobGoes("publish") /\ NoBackupFault
       \/ JobFails("unmount") /\ UNCHANGED bucketArchive
    /\ UNCHANGED <<dbVars, lvmVars, manifestVars, plain, cipher, stray>>

UploadManifest ==
    /\ job.pc = "publish"
    /\ \/ /\ bucketManifests' = bucketManifests \cup {job.run}
          /\ JobGoes("rewrite") /\ NoBackupFault
       \/ JobFails("unmount") /\ UNCHANGED bucketManifests
    /\ UNCHANGED <<dbVars, lvmVars, manifestOf, localManifests, cut, fileVars, stray>>

\* Three lazy attempts; a failure is only warned about.
UmountSnapshot ==
    /\ job.pc = "unmount"
    /\ \/ mounts' = mounts \ {job.run} /\ NoBackupFault /\ UNCHANGED stray
       \/ BackupFault /\ stray' = stray \cup {job.run} /\ UNCHANGED mounts
    /\ JobGoes("remove")
    /\ UNCHANGED <<dbVars, snapshots, manifestVars, fileVars>>

\* Mutant of RemoveSnapshot: a failed run keeps its snapshot.
RemoveSnapshotOnSuccess ==
    /\ job.pc = "remove"
    /\ snapshots' = IF job.failed THEN snapshots ELSE snapshots \ {job.run}
    /\ JobGoes("idle")
    /\ UNCHANGED <<dbVars, mounts, manifestVars, fileVars, stray, backupFaults>>

\* lvremove -f refuses a mounted volume.
RemoveSnapshot ==
    /\ job.pc = "remove"
    /\ \/ /\ job.run \notin mounts /\ snapshots' = snapshots \ {job.run}
          /\ NoBackupFault /\ UNCHANGED stray
       \/ job.run \in mounts /\ NoBackupFault /\ UNCHANGED <<snapshots, stray>>
       \/ BackupFault /\ stray' = stray \cup {job.run} /\ UNCHANGED snapshots
    /\ JobGoes("idle")
    /\ UNCHANGED <<dbVars, mounts, manifestVars, fileVars>>

\* The process is killed: the server drops its session, the rest stays.
KillBackup ==
    /\ job.pc # "idle" /\ BackupFault
    /\ JobGoes("idle")
    /\ readLocked' = FALSE
    /\ stray' = stray \cup {job.run}
    /\ plain' = [plain EXCEPT ![job.run] = IF job.pc = "pack" THEN "partial" ELSE @]
    /\ cipher' = [cipher EXCEPT ![job.run] = IF job.pc = "encrypt" THEN "partial" ELSE @]
    /\ UNCHANGED <<writes, lvmVars, manifestVars, bucketArchive>>

RunBackup ==
    /\ \/ StartBackup \/ CreateSnapshot \/ LockTables \/ ReadPosition \/ UnlockTables
       \/ MountSnapshot \/ RunMydumper \/ PackDump \/ EncryptArchive \/ OpenManifest
       \/ WriteManifest \/ UploadArchive \/ UploadManifest \/ RewriteManifest
       \/ UmountSnapshot \/ RemoveSnapshot \/ KillBackup
    /\ UNCHANGED <<gpg, restore, strayVolume>>

(***************************************************************************)
(* RestoreWorkflow.run, for a backup id.  It changes neither the database, *)
(* the snapshots, the bucket nor any manifest: see RunRestore.             *)
(***************************************************************************)
RestoreGoes(pc) == restore' = [restore EXCEPT !.pc = pc]
RestoreEnds(result) == restore' = [restore EXCEPT !.pc = "idle", !.result = result]

\* _resolve_manifest: the local copy if there is one, cut or not.
StartRestore(b, mode) ==
    /\ restore.pc = "idle"
    /\ b \in localManifests \cup bucketManifests
    /\ \/ /\ b \notin cut
          /\ restore' = [IdleRestore EXCEPT !.pc = "fetch", !.of = b, !.mode = mode]
          /\ localManifests' = localManifests \cup {b} /\ NoBackupFault
       \/ /\ IF b \in cut THEN NoBackupFault ELSE b \notin localManifests /\ BackupFault
          /\ restore' = [IdleRestore EXCEPT !.of = b, !.mode = mode, !.result = "failed"]
          /\ UNCHANGED localManifests
    /\ UNCHANGED <<plain, cipher, strayVolume>>

\* _download_archive: a file that is there already is taken as it is.
DownloadArchive ==
    LET b == restore.of IN
    /\ restore.pc = "fetch"
    /\ \/ /\ ArchiveFile(b) # "none"
          /\ RestoreGoes("verify") /\ NoBackupFault /\ UNCHANGED <<plain, cipher>>
       \/ /\ ArchiveFile(b) = "none" /\ bucketArchive[b] # "none"
          /\ IF manifestOf[b].encrypted
             THEN cipher' = [cipher EXCEPT ![b] = bucketArchive[b]] /\ UNCHANGED plain
             ELSE plain' = [plain EXCEPT ![b] = bucketArchive[b]] /\ UNCHANGED cipher
          /\ RestoreGoes("verify") /\ NoBackupFault
       \/ /\ ArchiveFile(b) = "none" /\ bucketArchive[b] = "none"
          /\ RestoreEnds("failed") /\ NoBackupFault /\ UNCHANGED <<plain, cipher>>
       \/ /\ ArchiveFile(b) = "none"
          /\ RestoreEnds("failed") /\ BackupFault /\ UNCHANGED <<plain, cipher>>
    /\ UNCHANGED <<localManifests, strayVolume>>

\* Mutant of VerifyArchive: the checksum is not compared.
VerifyArchiveSkipped ==
    /\ restore.pc = "verify"
    /\ RestoreGoes("decrypt")
    /\ UNCHANGED <<localManifests, plain, cipher, strayVolume, backupFaults>>

VerifyArchive ==
    /\ restore.pc = "verify"
    /\ IF ArchiveFile(restore.of) = "whole" THEN RestoreGoes("decrypt")
                                            ELSE RestoreEnds("failed")
    /\ UNCHANGED <<localManifests, plain, cipher, strayVolume, backupFaults>>

\* _decrypt_if_needed: a decrypted file that is there already is not verified.
DecryptArchive ==
    LET b == restore.of IN
    /\ restore.pc = "decrypt"
    /\ \/ /\ ~manifestOf[b].encrypted \/ plain[b] # "none"
          /\ RestoreGoes("unpack") /\ NoBackupFault /\ UNCHANGED plain
       \/ /\ manifestOf[b].encrypted /\ plain[b] = "none"
          /\ \/ /\ plain' = [plain EXCEPT ![b] = cipher[b]]
                /\ RestoreGoes("unpack") /\ NoBackupFault
             \/ /\ plain' = [plain EXCEPT ![b] = "partial"]
                /\ RestoreEnds("failed") /\ BackupFault
    /\ UNCHANGED <<localManifests, cipher, strayVolume>>

\* The decompressor notices what is cut short, and may miss what is damaged.
UnpackArchive ==
    LET file == plain[restore.of] IN
    /\ restore.pc = "unpack"
    /\ \/ /\ file \in {"whole", "corrupt"} /\ NoBackupFault
          /\ restore' = [restore EXCEPT !.pc = "files", !.unpacked = file]
       \/ file # "whole" /\ RestoreEnds("failed") /\ NoBackupFault
       \/ RestoreEnds("failed") /\ BackupFault
    /\ UNCHANGED <<localManifests, plain, cipher, strayVolume>>

\* _verify_dump_files: nothing to check when the manifest names no file.
VerifyFiles ==
    /\ restore.pc = "files"
    /\ IF manifestOf[restore.of].files \ Extracted(DumpFiles) # {}
       THEN RestoreEnds("failed")
       ELSE IF restore.mode = "verify" THEN RestoreEnds("verified")
                                       ELSE RestoreGoes("volume")
    /\ UNCHANGED <<localManifests, plain, cipher, strayVolume, backupFaults>>

CreateVolume ==
    /\ restore.pc = "volume"
    /\ \/ restore' = [restore EXCEPT !.pc = "mount", !.volume = "created"] /\ NoBackupFault
       \/ RestoreEnds("failed") /\ BackupFault
    /\ UNCHANGED <<localManifests, plain, cipher, strayVolume>>

FormatAndMount ==
    /\ restore.pc = "mount"
    /\ \/ restore' = [restore EXCEPT !.pc = "apply", !.volume = "mounted"] /\ NoBackupFault
       \/ restore' = [restore EXCEPT !.pc = "cleanup", !.failed = TRUE] /\ BackupFault
    /\ UNCHANGED <<localManifests, plain, cipher, strayVolume>>

\* The copy and mysqlcheck, either of which may fail.
ApplyDump ==
    /\ restore.pc = "apply"
    /\ \/ /\ restore' = [restore EXCEPT !.pc = "unmount", !.filled = (restore.mode = "apply")]
          /\ NoBackupFault
       \/ /\ restore' = [restore EXCEPT !.pc = "unmount", !.failed = TRUE]
          /\ restore.mode = "apply" /\ BackupFault
    /\ UNCHANGED <<localManifests, plain, cipher, strayVolume>>

\* The inner finally: a failing umount is only warned about.
UmountVolume ==
    /\ restore.pc = "unmount"
    /\ \E volume \in {"created", "mounted"} :
          /\ IF volume = "created" THEN NoBackupFault /\ UNCHANGED strayVolume
                                   ELSE BackupFault /\ strayVolume' = TRUE
          /\ restore' = [restore EXCEPT !.volume = volume,
                             !.pc = IF restore.failed THEN "cleanup" ELSE "idle",
                             !.result = IF restore.failed THEN "none" ELSE "ok"]
    /\ UNCHANGED <<localManifests, plain, cipher>>

\* The outer except: lvremove -f with check=False.
RemoveVolume ==
    /\ restore.pc = "cleanup"
    /\ \/ /\ restore.volume = "created" /\ NoBackupFault /\ UNCHANGED strayVolume
          /\ restore' = [restore EXCEPT !.pc = "idle", !.result = "failed", !.volume = "none"]
       \/ restore.volume = "mounted" /\ RestoreEnds("failed") /\ NoBackupFault /\ UNCHANGED strayVolume
       \/ BackupFault /\ RestoreEnds("failed") /\ strayVolume' = TRUE
    /\ UNCHANGED <<localManifests, plain, cipher>>

KillRestore ==
    /\ restore.pc # "idle" /\ BackupFault
    /\ RestoreEnds("failed")
    /\ strayVolume' = (strayVolume \/ restore.volume # "none")
    /\ plain' = IF restore.pc = "decrypt" /\ plain[restore.of] = "none" /\ gpg
                THEN [plain EXCEPT ![restore.of] = "partial"] ELSE plain
    /\ UNCHANGED <<localManifests, cipher>>

RunRestore ==
    /\ \/ \E b \in Backups, mode \in {"verify", "create", "apply"} : StartRestore(b, mode)
       \/ DownloadArchive \/ VerifyArchive \/ DecryptArchive \/ UnpackArchive \/ VerifyFiles
       \/ CreateVolume \/ FormatAndMount \/ ApplyDump \/ UmountVolume \/ RemoveVolume
       \/ KillRestore
    /\ UNCHANGED <<gpg, dbVars, lvmVars, job, manifestOf, bucketManifests, cut, bucketArchive,
                   stray>>

(***************************************************************************)
(* What happens around the program.                                        *)
(***************************************************************************)
CommitWrite ==
    /\ ~readLocked /\ writes < MaxWrites
    /\ writes' = writes + 1
    /\ UNCHANGED <<gpg, readLocked, lvmVars, job, manifestVars, fileVars, restore,
                   stray, strayVolume, backupFaults>>

DamageObject(b) ==
    /\ bucketArchive[b] = "whole" /\ BackupFault
    /\ bucketArchive' = [bucketArchive EXCEPT ![b] = "corrupt"]
    /\ UNCHANGED <<gpg, dbVars, lvmVars, job, manifestVars, plain, cipher, restore,
                   stray, strayVolume>>

\* The host is replaced while no backup or restore runs.
ReplaceHost ==
    /\ job.pc = "idle" /\ restore.pc = "idle" /\ localManifests # {}
    /\ localManifests' = {} /\ cut' = {} /\ plain' = NoFiles /\ cipher' = NoFiles
    /\ UNCHANGED <<gpg, dbVars, lvmVars, job, manifestOf, bucketManifests, bucketArchive,
                   restore, stray, strayVolume, backupFaults>>

BackupNext ==
    \/ RunBackup \/ RunRestore
    \/ CommitWrite \/ ReplaceHost
    \/ \E b \in Backups : DamageObject(b)

BackupSpec == BackupInit /\ [][BackupNext]_backupVars

-----------------------------------------------------------------------------
(***************************************************************************)
(* Properties.                                                             *)
(***************************************************************************)
\* Whatever fails or is killed, a manifest in the bucket has its archive there.
ManifestHasArchive == \A b \in bucketManifests : bucketArchive[b] # "none"

\* A stored binlog position is never beyond what the dump holds: replaying
\* the binlog from it loses no transaction.
PositionNotBeyondDump ==
    \A b \in Backups : manifestOf[b].position <= manifestOf[b].dump

\* A snapshot, a mount or a volume outlives its run only if the run was killed
\* or a command of its cleanup failed.
NothingLeftBehind ==
    /\ snapshots \cup mounts \subseteq
           stray \cup (IF job.pc = "idle" THEN {} ELSE {job.run})
    /\ (restore.result = "failed" /\ ~strayVolume) => restore.volume = "none"

\* A restore that reports success unpacked exactly the archive of the backup it
\* was asked for, whatever was left on the host or damaged in the bucket.
RestoredIsBackedUp ==
    restore.result \in {"ok", "verified"} => restore.unpacked = "whole"

\* The program implements BackupCatalog: a backup can be asked for while its
\* manifest on the host is whole, or in the bucket and not on the host, and has been
\* given once a restore reports success.
Catalogue == INSTANCE BackupCatalog WITH
    committed <- writes,
    catalog   <- (localManifests \ cut) \cup (bucketManifests \ localManifests),
    holds     <- [b \in Backups |-> [position |-> manifestOf[b].position,
                                     dump |-> manifestOf[b].dump]],
    archived  <- {b \in Backups : bucketArchive[b] # "none"},
    stored    <- bucketManifests,
    reopening <- IF job.pc = "rewrite" THEN {job.run} ELSE {},
    delivered <- IF restore.result \in {"ok", "verified"}
                 THEN {<<restore.of, restore.unpacked>>} ELSE {}

\* However runs and restores interleave, fail and are killed, each of their steps
\* is one of the catalogue's or none: no later run or restore changes what a
\* recorded backup holds, nothing stored is taken back from the bucket, and a
\* backup leaves the catalogue only with the loss of the host or while its own run
\* rewrites its manifest in place (for good, until the host is lost, if it is
\* killed or fails just then).
CatalogueKept == Catalogue!CatalogSpec

\* A restore that has unpacked an undamaged archive fails only if some command
\* failed, a process was killed or an object was damaged.
IntactBackupRestores ==
    restore.result = "failed" /\ restore.unpacked = "whole" => backupFaults > 0
=============================================================================
