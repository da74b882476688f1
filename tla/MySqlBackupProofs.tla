-------------------------- MODULE MySqlBackupProofs --------------------------
(***************************************************************************)
(* Proofs, for any number of backups, writes and faults, of the safety     *)
(* properties of MySqlBackup.  Each property has an inductive part of its  *)
(* own, which adds to it what holds while the step that could break it is  *)
(* still to come; the steps are those of the backup, those of the restore  *)
(* and those around them.                                                  *)
(***************************************************************************)
EXTENDS MySqlBackup, TLAPS

\* The position is read before the dump is taken, and writes only grow.
PositionPart ==
    /\ PositionNotBeyondDump
    /\ job.position <= writes
    /\ job.pc \in {"pack", "encrypt", "manifest", "fill"} => job.position <= job.dump

\* Until its volume is mounted and after it is unmounted, a run has no mount.
VolumePart ==
    /\ snapshots \cup mounts \subseteq
           stray \cup (IF job.pc \in {"idle", "snapshot"} THEN {} ELSE {job.run})
    /\ job.pc \in {"lock", "position", "unlock", "mount", "remove"} => mounts \subseteq stray

\* The file a manifest made now would name.
FileOf(b) == IF gpg THEN cipher[b] ELSE plain[b]
Encrypted == \A b \in Backups : manifestOf[b].encrypted = gpg

\* What is published is there to be published.
ArchivePart ==
    /\ ManifestHasArchive
    /\ Encrypted
    /\ job.pc = "encrypt" => gpg
    /\ job.pc \in {"manifest", "fill", "archive"} => FileOf(job.run) # "none"
    /\ job.pc = "publish" => bucketArchive[job.run] # "none"

\* A backup with a manifest that is whole, here or in the bucket, is not one whose
\* files are being made.
Restorable == (localManifests \ cut) \cup bucketManifests
Finished ==
    \A b \in Restorable :
        /\ b <= job.run
        /\ b = job.run => job.pc \in {"idle", "archive", "publish", "rewrite", "refill",
                                   "unmount", "remove"}

\* What was verified stays as it was, and is what is unpacked.
RestorePart ==
    /\ RestoredIsBackedUp
    /\ Finished
    /\ restore.pc # "idle" => restore.of \in Restorable /\ restore.result = "none"
    /\ restore.pc \in {"decrypt", "unpack"} => FileOf(restore.of) = "whole"
    /\ restore.pc \in {"files", "volume", "mount", "apply", "unmount", "cleanup"} =>
           restore.unpacked = "whole"
    /\ gpg => \A b \in Backups : plain[b] # "corrupt"

CleanupPart ==
    /\ (restore.result = "failed" /\ ~strayVolume) => restore.volume = "none"
    /\ restore.pc \in {"fetch", "verify", "decrypt", "unpack", "files", "volume"} =>
           restore.volume = "none"
    /\ restore.pc = "mount" => restore.volume = "created"
    /\ restore.pc = "cleanup" => restore.volume = "created" \/ strayVolume
    /\ restore.pc # "idle" => restore.result = "none"

\* What a run is about to record is committed, what it is about to store is
\* recorded, and the manifest it writes again is one that is stored.
RecordPart ==
    /\ -1 <= job.position /\ job.dump <= writes
    /\ job.pc = "fill" => job.run \in cut
    /\ job.pc \in {"archive", "publish"} => job.run \in (localManifests \ cut) \ bucketManifests
    /\ job.pc = "rewrite" => job.run \in bucketManifests
    /\ job.pc = "refill" => job.run \in bucketManifests \cap cut

BackupInv ==
    /\ BackupTypeOK
    /\ PositionPart /\ VolumePart /\ ArchivePart /\ RestorePart /\ CleanupPart
    /\ RecordPart

-----------------------------------------------------------------------------
LEMMA BackupInitInv == BackupInit => BackupInv
<1> SUFFICES ASSUME BackupInit PROVE BackupInv
  OBVIOUS
<1>1. 0 \in Backups /\ \A b \in Backups : b \in Int
  BY BackupAssumption DEF Backups
<1>2. EmptyManifest \in Manifest /\ IdleJob \in Job /\ IdleRestore \in Restore
  <2>1. EmptyManifest \in Manifest
    BY DEF EmptyManifest, Manifest, NoPosition
  <2>2. IdleJob \in Job
    BY <1>1 DEF IdleJob, Job, NoPosition
  <2>3. IdleRestore \in Restore
    BY <1>1 DEF IdleRestore, Restore, FileState
  <2> QED BY <2>1, <2>2, <2>3
<1>8. /\ \A b \in Backups : manifestOf[b].encrypted = gpg
                            /\ manifestOf[b].position = NoPosition /\ manifestOf[b].dump = 0
      /\ manifestOf \in [Backups -> Manifest]
  BY <1>2 DEF BackupInit, EmptyManifest, Manifest
<1>3. BackupTypeOK
  BY <1>1, <1>2, <1>8 DEF BackupInit, BackupTypeOK, NoFiles, OnlyLegacy, FileState
<1>4. PositionPart
  BY <1>8 DEF BackupInit, PositionPart, PositionNotBeyondDump, IdleJob, NoPosition
<1>5. VolumePart /\ CleanupPart
  BY DEF BackupInit, VolumePart, CleanupPart, IdleJob, IdleRestore
<1>6. ArchivePart
  BY <1>1, <1>8
     DEF BackupInit, ArchivePart, ManifestHasArchive, Encrypted, IdleJob, OnlyLegacy
<1>7. RestorePart
  BY <1>1 DEF BackupInit, RestorePart, RestoredIsBackedUp, Finished, Restorable, IdleJob,
              IdleRestore, NoFiles
<1>9. RecordPart
  BY DEF BackupInit, RecordPart, IdleJob, NoPosition
<1> QED BY <1>3, <1>4, <1>5, <1>6, <1>7, <1>9 DEF BackupInv

-----------------------------------------------------------------------------
\* What the steps do to the job's record.
LEMMA JobMoves ==
    ASSUME BackupTypeOK, NEW pc, JobGoes(pc) \/ JobFails(pc)
    PROVE  /\ job'.pc = pc /\ job'.run = job.run
           /\ job'.position = job.position /\ job'.dump = job.dump
           /\ JobFails(pc) => job'.failed = TRUE
           /\ JobGoes(pc) => job'.failed = job.failed
BY DEF BackupTypeOK, Job, JobGoes, JobFails

JobMovesTo(pcs) ==
    /\ job'.pc \in pcs /\ job'.run = job.run
    /\ job'.position = job.position /\ job'.dump = job.dump

LEMMA JobSteps ==
    ASSUME BackupTypeOK
    PROVE  /\ CreateSnapshot => JobMovesTo({"lock", "idle"})
           /\ LockTables => JobMovesTo({"position", "unlock"})
           /\ UnlockTables => JobMovesTo({"mount", "remove"})
           /\ MountSnapshot => JobMovesTo({"dump", "remove"})
           /\ PackDump => JobMovesTo({"encrypt", "manifest", "unmount"})
           /\ EncryptArchive => JobMovesTo({"manifest", "unmount"})
           /\ OpenManifest =>
                 \/ job.pc = "manifest" /\ JobMovesTo({"fill", "unmount"})
                 \/ job.pc = "rewrite" /\ JobMovesTo({"refill", "unmount"})
           /\ WriteManifest => JobMovesTo({"archive", "unmount"})
           /\ UploadArchive => JobMovesTo({"publish", "unmount"})
           /\ UploadManifest => JobMovesTo({"rewrite", "unmount"})
           /\ RewriteManifest => JobMovesTo({"unmount"})
           /\ UmountSnapshot => JobMovesTo({"remove"})
           /\ RemoveSnapshot => JobMovesTo({"idle"})
           /\ KillBackup => JobMovesTo({"idle"})
<1> USE DEF JobMovesTo
<1>1. CreateSnapshot => JobMovesTo({"lock", "idle"})
  BY JobMoves DEF CreateSnapshot
<1>2. LockTables => JobMovesTo({"position", "unlock"})
  BY JobMoves DEF LockTables
<1>3. UnlockTables => JobMovesTo({"mount", "remove"})
  BY JobMoves DEF UnlockTables
<1>4. MountSnapshot => JobMovesTo({"dump", "remove"})
  BY JobMoves DEF MountSnapshot
<1>5. PackDump => JobMovesTo({"encrypt", "manifest", "unmount"})
  BY JobMoves DEF PackDump
<1>6. EncryptArchive => JobMovesTo({"manifest", "unmount"})
  BY JobMoves DEF EncryptArchive
<1>7. WriteManifest => JobMovesTo({"archive", "unmount"})
  BY JobMoves DEF WriteManifest
<1>8. UploadArchive => JobMovesTo({"publish", "unmount"})
  BY JobMoves DEF UploadArchive
<1>9. UploadManifest => JobMovesTo({"rewrite", "unmount"})
  BY JobMoves DEF UploadManifest
<1>10. UmountSnapshot => JobMovesTo({"remove"})
  BY JobMoves DEF UmountSnapshot
<1>11. RemoveSnapshot => JobMovesTo({"idle"})
  BY JobMoves DEF RemoveSnapshot
<1>12. KillBackup => JobMovesTo({"idle"})
  BY JobMoves DEF KillBackup
<1>13. OpenManifest => \/ job.pc = "manifest" /\ JobMovesTo({"fill", "unmount"})
                       \/ job.pc = "rewrite" /\ JobMovesTo({"refill", "unmount"})
  <2>1. OpenManifest => \/ job.pc = "manifest" /\ (JobGoes("fill") \/ JobFails("unmount"))
                        \/ job.pc = "rewrite" /\ (JobGoes("refill") \/ JobFails("unmount"))
    BY DEF OpenManifest
  <2>2. \A pc \in {"fill", "refill", "unmount"} : JobGoes(pc) \/ JobFails(pc) => JobMovesTo({pc})
    BY JobMoves
  <2> QED BY <2>1, <2>2
<1>14. RewriteManifest => JobMovesTo({"unmount"})
  BY JobMoves DEF RewriteManifest
<1> QED
  BY <1>1, <1>2, <1>3, <1>4, <1>5, <1>6, <1>7, <1>8, <1>9, <1>10, <1>11, <1>12, <1>13, <1>14

LEMMA PositionStep ==
    ASSUME BackupInv, BackupNext
    PROVE  PositionPart'
<1> USE DEF BackupInv, PositionPart, PositionNotBeyondDump
<1>0. /\ BackupTypeOK /\ writes \in Nat /\ job.position \in Int /\ job.dump \in Nat
      /\ job.run \in Backups
  BY DEF BackupTypeOK, Job
<1>1. ASSUME RunBackup PROVE PositionPart'
  <2>1. ASSUME StartBackup PROVE PositionPart'
    BY <2>1, <1>0 DEF StartBackup, IdleJob, NoPosition, dbVars, manifestVars
  <2>2. ASSUME ReadPosition PROVE PositionPart'
    <3>1. CASE job' = [job EXCEPT !.pc = "unlock", !.position = writes]
      BY <2>2, <3>1, <1>0 DEF ReadPosition, dbVars, manifestVars, BackupTypeOK, Job
    <3>2. CASE JobGoes("unlock")
      <4>1. job'.pc = "unlock" /\ job'.position = job.position /\ job'.dump = job.dump
        BY <3>2, <1>0, JobMoves
      <4>2. writes' = writes /\ manifestOf' = manifestOf
        BY <2>2 DEF ReadPosition, dbVars, manifestVars
      <4> QED BY <1>0, <4>1, <4>2
    <3> QED BY <2>2, <3>1, <3>2 DEF ReadPosition
  <2>3. ASSUME RunMydumper PROVE PositionPart'
    <3>1. CASE job' = [job EXCEPT !.pc = "pack", !.dump = writes]
      BY <2>3, <3>1, <1>0 DEF RunMydumper, dbVars, manifestVars, BackupTypeOK, Job
    <3>2. CASE JobFails("unmount")
      <4>1. job'.pc = "unmount" /\ job'.position = job.position /\ job'.dump = job.dump
        BY <3>2, <1>0, JobMoves
      <4>2. writes' = writes /\ manifestOf' = manifestOf
        BY <2>3 DEF RunMydumper, dbVars, manifestVars
      <4> QED BY <1>0, <4>1, <4>2
    <3> QED BY <2>3, <3>1, <3>2 DEF RunMydumper
  <2>4. ASSUME PackDump \/ EncryptArchive PROVE PositionPart'
    BY <2>4, <1>0, JobSteps DEF JobMovesTo, PackDump, EncryptArchive, dbVars, manifestVars
  <2>5. ASSUME WriteManifest, MakeManifest PROVE PositionPart'
    <3>1. \A b \in Backups : b # job.run => manifestOf'[b] = manifestOf[b]
      BY <2>5 DEF WriteManifest, MakeManifest, BackupTypeOK
    <3>2. manifestOf'[job.run].position = job.position
          /\ manifestOf'[job.run].dump = job.dump
      BY <2>5, <1>0 DEF WriteManifest, MakeManifest, BackupTypeOK
    <3> QED BY <2>5, <1>0, <3>1, <3>2, JobSteps DEF JobMovesTo, WriteManifest, dbVars
  <2>6. ASSUME WriteManifest, UNCHANGED manifestOf PROVE PositionPart'
    BY <2>6, <1>0, JobSteps DEF JobMovesTo, WriteManifest, dbVars
  <2>7. ASSUME CreateSnapshot \/ LockTables \/ UnlockTables \/ MountSnapshot
               \/ UploadArchive \/ UploadManifest \/ RewriteManifest \/ UmountSnapshot
               \/ RemoveSnapshot \/ KillBackup
        PROVE  PositionPart'
    BY <2>7, <1>0, JobSteps
       DEF JobMovesTo, CreateSnapshot, LockTables, UnlockTables, MountSnapshot, UploadArchive,
           UploadManifest, RewriteManifest, UmountSnapshot, RemoveSnapshot, KillBackup, dbVars,
           manifestVars
  <2>8. ASSUME OpenManifest PROVE PositionPart'
    <3>1. job.pc = "manifest" \/ job'.pc # "fill"
      BY <2>8, <1>0, JobSteps DEF JobMovesTo
    <3> QED BY <2>8, <1>0, <3>1, JobSteps DEF JobMovesTo, OpenManifest, dbVars
  <2> QED
    BY <1>1, <2>1, <2>2, <2>3, <2>4, <2>5, <2>6, <2>7, <2>8 DEF RunBackup, WriteManifest
<1>2. ASSUME RunRestore PROVE PositionPart'
  BY <1>2 DEF RunRestore, dbVars
<1>3. ASSUME CommitWrite PROVE PositionPart'
  BY <1>0, <1>3 DEF CommitWrite, manifestVars
<1>4. ASSUME ReplaceHost \/ \E b \in Backups : DamageObject(b) PROVE PositionPart'
  BY <1>4 DEF ReplaceHost, DamageObject, dbVars, manifestVars
<1> QED BY <1>1, <1>2, <1>3, <1>4 DEF BackupNext

LEMMA VolumeStep ==
    ASSUME BackupInv, BackupNext
    PROVE  VolumePart'
<1> USE DEF BackupInv, VolumePart
<1>0. BackupTypeOK /\ job.run \in Backups
  BY DEF BackupTypeOK, Job
<1>1. ASSUME RunBackup PROVE VolumePart'
  <2>1. ASSUME StartBackup PROVE VolumePart'
    BY <2>1, <1>0 DEF StartBackup, IdleJob, lvmVars
  <2>2. ASSUME CreateSnapshot PROVE VolumePart'
    <3>1. CASE JobGoes("lock") /\ snapshots' = snapshots \cup {job.run}
      <4>1. job'.pc = "lock" /\ job'.run = job.run
        BY <3>1, <1>0, JobMoves
      <4> QED BY <2>2, <3>1, <4>1 DEF CreateSnapshot
    <3>2. CASE JobFails("idle") /\ UNCHANGED snapshots
      BY <2>2, <3>2, <1>0, JobMoves DEF CreateSnapshot
    <3> QED BY <2>2, <3>1, <3>2 DEF CreateSnapshot
  <2>3. ASSUME ReadPosition PROVE VolumePart'
    <3>1. job'.pc = "unlock" /\ job'.run = job.run
      BY <2>3, <1>0, JobMoves DEF ReadPosition, BackupTypeOK, Job
    <3> QED BY <2>3, <3>1 DEF ReadPosition, lvmVars
  <2>4. ASSUME MountSnapshot PROVE VolumePart'
    <3>1. CASE JobGoes("dump") /\ mounts' = mounts \cup {job.run}
      <4>1. job'.pc = "dump" /\ job'.run = job.run
        BY <3>1, <1>0, JobMoves
      <4> QED BY <2>4, <3>1, <4>1 DEF MountSnapshot
    <3>2. CASE JobFails("remove") /\ UNCHANGED mounts
      <4>1. job'.pc = "remove" /\ job'.run = job.run
        BY <3>2, <1>0, JobMoves
      <4> QED BY <2>4, <3>2, <4>1 DEF MountSnapshot
    <3> QED BY <2>4, <3>1, <3>2 DEF MountSnapshot
  <2>5. ASSUME RunMydumper PROVE VolumePart'
    <3>1. job'.pc \in {"pack", "unmount"} /\ job'.run = job.run
      BY <2>5, <1>0, JobMoves DEF RunMydumper, BackupTypeOK, Job
    <3> QED BY <2>5, <3>1 DEF RunMydumper, lvmVars
  <2>6. ASSUME UmountSnapshot PROVE VolumePart'
    BY <2>6, <1>0, JobSteps DEF JobMovesTo, UmountSnapshot
  <2>7. ASSUME RemoveSnapshot PROVE VolumePart'
    BY <2>7, <1>0, JobSteps DEF JobMovesTo, RemoveSnapshot
  <2>8. ASSUME LockTables \/ UnlockTables \/ PackDump \/ EncryptArchive \/ OpenManifest
               \/ WriteManifest \/ UploadArchive \/ UploadManifest \/ RewriteManifest
        PROVE  VolumePart'
    BY <2>8, <1>0, JobSteps
       DEF JobMovesTo, LockTables, UnlockTables, PackDump, EncryptArchive, OpenManifest,
           WriteManifest, UploadArchive, UploadManifest, RewriteManifest, lvmVars
  <2>9. ASSUME KillBackup PROVE VolumePart'
    BY <2>9, <1>0, JobSteps DEF JobMovesTo, KillBackup, lvmVars
  <2> QED BY <1>1, <2>1, <2>2, <2>3, <2>4, <2>5, <2>6, <2>7, <2>8, <2>9 DEF RunBackup
<1>2. ASSUME BackupNext, ~RunBackup PROVE VolumePart'
  BY <1>2 DEF BackupNext, RunRestore, CommitWrite, ReplaceHost, DamageObject, lvmVars
<1> QED BY <1>1, <1>2 DEF BackupNext

-----------------------------------------------------------------------------
\* A restore changes no archive's name and never removes a file.
LEMMA RestoreKeepsFiles ==
    ASSUME BackupInv, RunRestore
    PROVE  \A b \in Backups :
              /\ FileOf(b) # "none" => FileOf(b)' # "none"
              /\ FileOf(b) = "whole" => FileOf(b)' = "whole"
<1> USE DEF BackupInv, BackupTypeOK, ArchivePart, Encrypted, FileOf
<1>0. gpg' = gpg /\ restore.of \in Backups
  BY DEF RunRestore, Restore
<1>1. ASSUME DownloadArchive PROVE \A b \in Backups : /\ FileOf(b) # "none" => FileOf(b)' # "none"
                                                      /\ FileOf(b) = "whole" => FileOf(b)' = "whole"
  BY <1>0, <1>1 DEF DownloadArchive, ArchiveFile
<1>2. ASSUME DecryptArchive \/ KillRestore
      PROVE \A b \in Backups : /\ FileOf(b) # "none" => FileOf(b)' # "none"
                               /\ FileOf(b) = "whole" => FileOf(b)' = "whole"
  BY <1>0, <1>2 DEF DecryptArchive, KillRestore
<1>3. ASSUME UNCHANGED <<plain, cipher>>
      PROVE \A b \in Backups : /\ FileOf(b) # "none" => FileOf(b)' # "none"
                               /\ FileOf(b) = "whole" => FileOf(b)' = "whole"
  BY <1>0, <1>3
<1> QED
  BY <1>1, <1>2, <1>3
     DEF RunRestore, StartRestore, VerifyArchive, UnpackArchive, VerifyFiles, CreateVolume,
         FormatAndMount, ApplyDump, UmountVolume, RemoveVolume

LEMMA ArchiveStep ==
    ASSUME BackupInv, BackupNext
    PROVE  ArchivePart'
<1> USE DEF BackupInv, ArchivePart, ManifestHasArchive, Encrypted
<1>0. BackupTypeOK /\ job.run \in Backups /\ bucketManifests \subseteq Backups
  BY DEF BackupTypeOK, Job
<1>1. ASSUME RunBackup PROVE ArchivePart'
  <2>0. gpg' = gpg
    BY <1>1 DEF RunBackup
  <2>1. ASSUME StartBackup PROVE ArchivePart'
    BY <2>0, <2>1, <1>0 DEF StartBackup, IdleJob, fileVars, manifestVars
  <2>2. ASSUME CreateSnapshot \/ LockTables \/ UnlockTables \/ MountSnapshot \/ UmountSnapshot
               \/ RemoveSnapshot
        PROVE  ArchivePart'
    BY <2>0, <2>2, <1>0, JobSteps
       DEF JobMovesTo, CreateSnapshot, LockTables, UnlockTables, MountSnapshot,
           UmountSnapshot, RemoveSnapshot, fileVars, manifestVars
  <2>3. ASSUME ReadPosition \/ RunMydumper PROVE ArchivePart'
    <3>1. job'.pc \in {"unlock", "pack", "unmount"}
      BY <2>3, <1>0, JobMoves DEF ReadPosition, RunMydumper, BackupTypeOK, Job
    <3> QED BY <2>0, <2>3, <3>1 DEF ReadPosition, RunMydumper, fileVars, manifestVars
  <2>4. ASSUME PackDump PROVE ArchivePart'
    <3>1. CASE /\ plain' = [plain EXCEPT ![job.run] = "whole"]
               /\ JobGoes(IF gpg THEN "encrypt" ELSE "manifest")
      <4>1. job'.run = job.run /\ job'.pc = IF gpg THEN "encrypt" ELSE "manifest"
        BY <3>1, <1>0, JobMoves
      <4>2. ~gpg => FileOf(job.run)' = "whole"
        BY <2>0, <3>1, <4>1, <1>0 DEF FileOf, BackupTypeOK
      <4> QED BY <2>0, <2>4, <4>1, <4>2, <1>0 DEF PackDump, manifestVars
    <3>2. CASE JobFails("unmount")
      <4>1. job'.pc = "unmount"
        BY <3>2, <1>0, JobMoves
      <4> QED BY <2>0, <2>4, <4>1 DEF PackDump, manifestVars
    <3> QED BY <2>4, <3>1, <3>2 DEF PackDump
  <2>5. ASSUME EncryptArchive PROVE ArchivePart'
    <3>1. CASE cipher' = [cipher EXCEPT ![job.run] = "whole"] /\ JobGoes("manifest")
      <4>1. job'.run = job.run /\ job'.pc = "manifest"
        BY <3>1, <1>0, JobMoves
      <4>2. FileOf(job.run)' = "whole"
        BY <2>0, <2>5, <3>1, <4>1, <1>0 DEF EncryptArchive, FileOf, BackupTypeOK
      <4> QED BY <2>0, <2>5, <4>1, <4>2 DEF EncryptArchive, manifestVars
    <3>2. CASE JobFails("unmount")
      <4>1. job'.pc = "unmount"
        BY <3>2, <1>0, JobMoves
      <4> QED BY <2>0, <2>5, <4>1 DEF EncryptArchive, manifestVars
    <3> QED BY <2>5, <3>1, <3>2 DEF EncryptArchive
  <2>6. ASSUME WriteManifest PROVE ArchivePart'
    <3>1. Encrypted'
      BY <2>0, <2>6, <1>0 DEF WriteManifest, MakeManifest, BackupTypeOK
    <3>2. job'.pc \in {"archive", "unmount"} /\ job'.run = job.run
      BY <2>6, <1>0, JobSteps DEF JobMovesTo
    <3> QED BY <2>0, <2>6, <3>1, <3>2 DEF WriteManifest, FileOf, fileVars
  <2>7. ASSUME UploadArchive PROVE ArchivePart'
    <3>1. CASE /\ bucketArchive' = [bucketArchive EXCEPT ![job.run] = ArchiveFile(job.run)]
               /\ JobGoes("publish")
      <4>1. job'.pc = "publish" /\ job'.run = job.run
        BY <3>1, <1>0, JobMoves
      <4>2. bucketArchive' = [bucketArchive EXCEPT ![job.run] = FileOf(job.run)]
            /\ FileOf(job.run) # "none"
        BY <2>7, <3>1, <1>0 DEF UploadArchive, ArchiveFile, FileOf
      <4> QED BY <2>0, <2>7, <4>1, <4>2, <1>0 DEF UploadArchive, manifestVars, BackupTypeOK
    <3>2. CASE JobFails("unmount") /\ UNCHANGED bucketArchive
      <4>1. job'.pc = "unmount"
        BY <3>2, <1>0, JobMoves
      <4> QED BY <2>0, <2>7, <3>2, <4>1 DEF UploadArchive, manifestVars
    <3> QED BY <2>7, <3>1, <3>2 DEF UploadArchive
  <2>8. ASSUME UploadManifest PROVE ArchivePart'
    <3>1. job'.pc \in {"rewrite", "unmount"}
      BY <2>8, <1>0, JobSteps DEF JobMovesTo
    <3> QED BY <2>0, <2>8, <3>1 DEF UploadManifest, fileVars
  <2>9. ASSUME KillBackup PROVE ArchivePart'
    <3>1. job'.pc = "idle"
      BY <2>9, <1>0, JobSteps DEF JobMovesTo
    <3> QED BY <2>0, <2>9, <3>1 DEF KillBackup, manifestVars
  <2>10. ASSUME OpenManifest PROVE ArchivePart'
    <3>1. job'.run = job.run /\ job'.pc \in {"fill", "refill", "unmount"}
          /\ (job.pc = "manifest" \/ job'.pc # "fill")
      BY <2>10, <1>0, JobSteps DEF JobMovesTo
    <3> QED BY <2>0, <2>10, <3>1 DEF OpenManifest, FileOf, fileVars
  <2>11. ASSUME RewriteManifest PROVE ArchivePart'
    <3>1. job'.pc = "unmount"
      BY <2>11, <1>0, JobSteps DEF JobMovesTo
    <3> QED BY <2>0, <2>11, <3>1 DEF RewriteManifest, fileVars
  <2> QED
    BY <1>1, <2>1, <2>2, <2>3, <2>4, <2>5, <2>6, <2>7, <2>8, <2>9, <2>10, <2>11 DEF RunBackup
<1>2. ASSUME RunRestore PROVE ArchivePart'
  <2>1. FileOf(job.run) # "none" => FileOf(job.run)' # "none"
    BY <1>0, <1>2, RestoreKeepsFiles DEF RunRestore, FileOf
  <2> QED BY <1>2, <2>1 DEF RunRestore, FileOf
<1>3. ASSUME CommitWrite PROVE ArchivePart'
  BY <1>3 DEF CommitWrite, fileVars, manifestVars, FileOf
<1>4. ASSUME ReplaceHost PROVE ArchivePart'
  BY <1>4 DEF ReplaceHost
<1>5. ASSUME NEW b \in Backups, DamageObject(b) PROVE ArchivePart'
  BY <1>0, <1>5 DEF DamageObject, manifestVars, FileOf, BackupTypeOK
<1> QED BY <1>1, <1>2, <1>3, <1>4, <1>5 DEF BackupNext

-----------------------------------------------------------------------------
\* What the steps of a restore do to its record.
LEMMA RestoreMoves ==
    ASSUME BackupTypeOK
    PROVE  /\ \A pc : RestoreGoes(pc) =>
                 /\ restore'.pc = pc /\ restore'.of = restore.of
                 /\ restore'.unpacked = restore.unpacked /\ restore'.result = restore.result
                 /\ restore'.volume = restore.volume
           /\ \A result : RestoreEnds(result) =>
                 /\ restore'.pc = "idle" /\ restore'.of = restore.of
                 /\ restore'.unpacked = restore.unpacked /\ restore'.result = result
                 /\ restore'.volume = restore.volume
BY DEF BackupTypeOK, Restore, RestoreGoes, RestoreEnds

\* A backup's steps touch only files that no restore can have verified.
LEMMA BackupKeepsRestorable ==
    ASSUME BackupInv, RunBackup
    PROVE  /\ Finished'
           /\ Restorable \subseteq Restorable'
           /\ \A b \in Restorable : plain'[b] = plain[b] /\ cipher'[b] = cipher[b]
           /\ gpg => \A b \in Backups : plain'[b] # "corrupt"
<1> USE DEF BackupInv, RestorePart, Finished, Restorable
<1>0. /\ BackupTypeOK /\ job.run \in Backups /\ Restorable \subseteq Backups
      /\ \A b \in Backups : b \in Int
  BY BackupAssumption DEF BackupTypeOK, Job, Backups
<1>a. ASSUME UNCHANGED <<plain, cipher>>
      PROVE  /\ \A b \in Restorable : plain'[b] = plain[b] /\ cipher'[b] = cipher[b]
             /\ gpg => \A b \in Backups : plain'[b] # "corrupt"
  BY <1>a
<1>1. ASSUME StartBackup PROVE Finished' /\ UNCHANGED <<manifestVars, plain, cipher>>
  <2>1. job'.run = job.run + 1 /\ UNCHANGED <<manifestVars, plain, cipher>>
    BY <1>1 DEF StartBackup, IdleJob, fileVars
  <2> QED BY <1>0, <2>1 DEF manifestVars
<1>2. ASSUME CreateSnapshot \/ LockTables \/ UnlockTables \/ MountSnapshot \/ UmountSnapshot
             \/ RemoveSnapshot
      PROVE  Finished' /\ UNCHANGED <<manifestVars, plain, cipher>>
  <2>1. UNCHANGED <<manifestVars, plain, cipher>>
    BY <1>2 DEF CreateSnapshot, LockTables, UnlockTables, MountSnapshot, UmountSnapshot,
                RemoveSnapshot, fileVars
  <2> QED
    BY <1>0, <1>2, <2>1, JobSteps
       DEF JobMovesTo, CreateSnapshot, LockTables, UnlockTables, MountSnapshot,
           UmountSnapshot, RemoveSnapshot, manifestVars
<1>3. ASSUME ReadPosition \/ RunMydumper
      PROVE  Finished' /\ UNCHANGED <<manifestVars, plain, cipher>>
  <2>1. job'.run = job.run
    BY <1>3, <1>0, JobMoves DEF ReadPosition, RunMydumper, BackupTypeOK, Job
  <2> QED BY <1>3, <2>1 DEF ReadPosition, RunMydumper, fileVars, manifestVars
<1>4. ASSUME PackDump \/ EncryptArchive \/ KillBackup
      PROVE  /\ Finished' /\ UNCHANGED manifestVars
             /\ \A b \in Restorable : plain'[b] = plain[b] /\ cipher'[b] = cipher[b]
             /\ gpg => \A b \in Backups : plain'[b] # "corrupt"
  <2>1. UNCHANGED manifestVars /\ job'.run = job.run
    BY <1>0, <1>4, JobSteps DEF PackDump, EncryptArchive, KillBackup, JobMovesTo
  <2>2. Finished'
    BY <1>0, <1>4, <2>1, JobSteps DEF JobMovesTo, PackDump, EncryptArchive, KillBackup, manifestVars
  <2>3. job.pc \in {"pack", "encrypt"} => \A b \in Restorable : b # job.run
    OBVIOUS
  <2>4. \A b \in Restorable : plain'[b] = plain[b] /\ cipher'[b] = cipher[b]
    BY <1>0, <1>4, <2>3 DEF PackDump, EncryptArchive, KillBackup, BackupTypeOK
  <2>5. gpg => \A b \in Backups : plain'[b] # "corrupt"
    BY <1>0, <1>4 DEF PackDump, EncryptArchive, KillBackup, BackupTypeOK
  <2> QED BY <2>1, <2>2, <2>4, <2>5
<1>5. ASSUME WriteManifest \/ UploadArchive \/ UploadManifest \/ RewriteManifest
      PROVE  Finished' /\ Restorable \subseteq Restorable' /\ UNCHANGED <<plain, cipher>>
  <2>1. /\ UNCHANGED <<plain, cipher>> /\ Restorable \subseteq Restorable'
        /\ Restorable' \subseteq Restorable \cup {job.run}
    BY <1>5
       DEF WriteManifest, UploadArchive, UploadManifest, RewriteManifest, fileVars, manifestVars
  <2>2. job'.pc \in {"archive", "publish", "rewrite", "unmount"} /\ job'.run = job.run
    BY <1>0, <1>5, JobSteps DEF JobMovesTo
  <2> QED BY <1>0, <2>1, <2>2
\* What is cut is not restorable yet, or is in the bucket.
<1>6. ASSUME OpenManifest
      PROVE  Finished' /\ Restorable' = Restorable /\ UNCHANGED <<plain, cipher>>
  <2>1. job.run \notin Restorable \/ job.run \in bucketManifests
    BY <1>6 DEF OpenManifest, RecordPart
  <2>2. UNCHANGED <<plain, cipher>> /\ Restorable' = Restorable
    BY <1>6, <2>1 DEF OpenManifest, fileVars
  <2>3. /\ job'.run = job.run /\ job'.pc \in {"fill", "refill", "unmount"}
        /\ job.pc = "manifest" \/ job'.pc # "fill"
    BY <1>0, <1>6, JobSteps DEF JobMovesTo
  <2>4. job.pc = "manifest" => job.run \notin Restorable
    OBVIOUS
  <2> QED BY <1>0, <1>6, <2>2, <2>3, <2>4
<1> QED BY <1>a, <1>1, <1>2, <1>3, <1>4, <1>5, <1>6 DEF RunBackup, manifestVars

LEMMA RestoreStep ==
    ASSUME BackupInv, BackupNext
    PROVE  RestorePart'
<1> USE DEF BackupInv, RestorePart, RestoredIsBackedUp
<1>0. /\ BackupTypeOK /\ restore.of \in Backups /\ Restorable \subseteq Backups
      /\ gpg' = gpg
  BY DEF BackupTypeOK, Restore, Restorable, BackupNext, RunBackup, RunRestore, CommitWrite,
         ReplaceHost, DamageObject
<1>1. ASSUME RunBackup PROVE RestorePart'
  <2>1. restore' = restore
    BY <1>1 DEF RunBackup
  <2>2. restore.pc # "idle" => FileOf(restore.of)' = FileOf(restore.of)
    BY <1>0, <1>1, <2>1, BackupKeepsRestorable DEF FileOf
  <2> QED BY <1>0, <1>1, <2>1, <2>2, BackupKeepsRestorable DEF FileOf
<1>2. ASSUME RunRestore PROVE RestorePart'
  <2>0. job' = job /\ bucketManifests' = bucketManifests
    BY <1>2 DEF RunRestore
  <2>1. ASSUME NEW b \in Backups, NEW mode \in {"verify", "create", "apply"},
               StartRestore(b, mode)
        PROVE  RestorePart'
    <3>1. /\ \/ b \in Restorable /\ restore'.of = b /\ restore'.result = "none"
             \/ restore'.pc = "idle" /\ restore'.result = "failed"
          /\ restore'.pc \in {"idle", "fetch"}
      BY <2>1 DEF StartRestore, IdleRestore, Restorable
    <3>2. Restorable' = Restorable /\ UNCHANGED <<plain, cipher>>
      BY <1>2, <2>0, <2>1 DEF StartRestore, RunRestore, Restorable
    <3>3. Finished'
      BY <2>0, <3>2 DEF Finished
    <3> QED BY <1>0, <3>1, <3>2, <3>3
  <2>a. ASSUME restore.pc # "idle" PROVE Finished' /\ Restorable' = Restorable
    BY <1>2, <2>0, <2>a
       DEF RunRestore, StartRestore, Restorable, Finished, DownloadArchive, VerifyArchive, DecryptArchive,
           UnpackArchive, VerifyFiles, CreateVolume, FormatAndMount, ApplyDump, UmountVolume,
           RemoveVolume, KillRestore
  <2>b. restore'.of = restore.of /\ FileOf(restore.of) = "whole" =>
            FileOf(restore.of)' = "whole"
    BY <1>0, <1>2, RestoreKeepsFiles DEF RunRestore, FileOf
  <2>c. \A b \in Backups : manifestOf[b].encrypted = gpg
    BY DEF ArchivePart, Encrypted
  <2>2. ASSUME DownloadArchive PROVE RestorePart'
    <3>1. /\ restore'.pc \in {"verify", "idle"} /\ restore'.of = restore.of
          /\ restore'.result \in {"failed", restore.result}
          /\ restore'.pc = "verify" => restore'.result = restore.result
      BY <1>0, <2>2, RestoreMoves DEF DownloadArchive
    <3>2. gpg => \A b \in Backups : plain'[b] # "corrupt"
      BY <1>0, <2>2, <2>c DEF DownloadArchive
    <3> QED BY <1>0, <2>2, <2>a, <3>1, <3>2 DEF DownloadArchive
  <2>3. ASSUME VerifyArchive PROVE RestorePart'
    <3>1. /\ restore'.pc \in {"decrypt", "idle"} /\ restore'.of = restore.of
          /\ restore'.result \in {"failed", restore.result}
          /\ restore'.pc = "decrypt" =>
                restore'.result = restore.result /\ ArchiveFile(restore.of) = "whole"
      BY <1>0, <2>3, RestoreMoves DEF VerifyArchive
    <3>2. ArchiveFile(restore.of) = FileOf(restore.of)
      BY <1>0, <2>c DEF ArchiveFile, FileOf
    <3> QED BY <1>0, <2>3, <2>a, <2>b, <3>1, <3>2 DEF VerifyArchive
  <2>4. ASSUME DecryptArchive PROVE RestorePart'
    <3>1. /\ restore'.pc \in {"unpack", "idle"} /\ restore'.of = restore.of
          /\ restore'.result \in {"failed", restore.result}
          /\ restore'.pc = "unpack" => restore'.result = restore.result
      BY <1>0, <2>4, RestoreMoves DEF DecryptArchive
    <3>2. gpg => \A b \in Backups : plain'[b] # "corrupt"
      BY <1>0, <2>4, <2>c DEF DecryptArchive, FileOf, BackupTypeOK
    <3> QED BY <1>0, <2>4, <2>a, <2>b, <3>1, <3>2 DEF DecryptArchive
  <2>5. ASSUME UnpackArchive PROVE RestorePart'
    <3>1. plain[restore.of] # "corrupt"
      BY <1>0, <2>5 DEF UnpackArchive, FileOf
    <3>2. CASE /\ plain[restore.of] \in {"whole", "corrupt"}
               /\ restore' = [restore EXCEPT !.pc = "files", !.unpacked = plain[restore.of]]
      <4>1. /\ restore'.pc = "files" /\ restore'.unpacked = "whole"
            /\ restore'.of = restore.of /\ restore'.result = restore.result
        BY <1>0, <3>1, <3>2 DEF BackupTypeOK, Restore
      <4> QED BY <1>0, <2>5, <2>a, <4>1 DEF UnpackArchive
    <3>3. CASE RestoreEnds("failed")
      <4>1. restore'.pc = "idle" /\ restore'.result = "failed"
        BY <1>0, <3>3, RestoreMoves
      <4> QED BY <1>0, <2>5, <2>a, <4>1 DEF UnpackArchive
    <3> QED BY <2>5, <3>2, <3>3 DEF UnpackArchive
  <2>6. ASSUME VerifyFiles PROVE RestorePart'
    <3>1. /\ restore'.pc \in {"volume", "idle"} /\ restore'.of = restore.of
          /\ restore'.unpacked = restore.unpacked
          /\ restore'.pc = "volume" => restore'.result = restore.result
      BY <1>0, <2>6, RestoreMoves DEF VerifyFiles
    <3> QED BY <1>0, <2>6, <2>a, <3>1 DEF VerifyFiles
  <2>7. ASSUME CreateVolume PROVE RestorePart'
    <3>1. /\ restore'.pc \in {"mount", "idle"} /\ restore'.of = restore.of
          /\ restore'.unpacked = restore.unpacked
          /\ restore'.pc = "mount" => restore'.result = restore.result
      BY <1>0, <2>7, RestoreMoves DEF CreateVolume, BackupTypeOK, Restore
    <3> QED BY <1>0, <2>7, <2>a, <3>1 DEF CreateVolume
  <2>8. ASSUME FormatAndMount \/ ApplyDump PROVE RestorePart'
    <3>1. /\ restore'.pc \in {"apply", "cleanup", "unmount"} /\ restore'.of = restore.of
          /\ restore'.unpacked = restore.unpacked /\ restore'.result = restore.result
      BY <1>0, <2>8 DEF FormatAndMount, ApplyDump, BackupTypeOK, Restore
    <3> QED BY <1>0, <2>8, <2>a, <3>1 DEF FormatAndMount, ApplyDump
  <2>9. ASSUME UmountVolume \/ RemoveVolume PROVE RestorePart'
    <3>1. /\ restore'.pc \in {"cleanup", "idle"} /\ restore'.of = restore.of
          /\ restore'.unpacked = restore.unpacked
          /\ restore'.pc = "cleanup" => restore'.result = "none"
      BY <1>0, <2>9, RestoreMoves DEF UmountVolume, RemoveVolume, BackupTypeOK, Restore
    <3> QED BY <1>0, <2>9, <2>a, <3>1 DEF UmountVolume, RemoveVolume
  <2>10. ASSUME KillRestore PROVE RestorePart'
    <3>1. restore'.pc = "idle" /\ restore'.result = "failed"
      BY <1>0, <2>10, RestoreMoves DEF KillRestore
    <3>2. gpg => \A b \in Backups : plain'[b] # "corrupt"
      BY <1>0, <2>10 DEF KillRestore, BackupTypeOK
    <3> QED BY <1>0, <2>10, <2>a, <3>1, <3>2 DEF KillRestore
  <2> QED
    BY <1>2, <2>1, <2>2, <2>3, <2>4, <2>5, <2>6, <2>7, <2>8, <2>9, <2>10 DEF RunRestore
<1>3. ASSUME CommitWrite \/ \E b \in Backups : DamageObject(b) PROVE RestorePart'
  BY <1>0, <1>3 DEF CommitWrite, DamageObject, Finished, Restorable, FileOf, fileVars, manifestVars
<1>4. ASSUME ReplaceHost PROVE RestorePart'
  BY <1>0, <1>4 DEF ReplaceHost, Finished, Restorable, NoFiles
<1> QED BY <1>1, <1>2, <1>3, <1>4 DEF BackupNext

-----------------------------------------------------------------------------
LEMMA CleanupStep ==
    ASSUME BackupInv, BackupNext
    PROVE  CleanupPart'
<1> USE DEF BackupInv, CleanupPart
<1>0. BackupTypeOK /\ restore \in Restore
  BY DEF BackupTypeOK
<1>1. ASSUME RunRestore PROVE CleanupPart'
  <2>1. ASSUME NEW b \in Backups, NEW mode \in {"verify", "create", "apply"},
               StartRestore(b, mode)
        PROVE  CleanupPart'
    BY <2>1 DEF StartRestore, IdleRestore
  <2>2. ASSUME DownloadArchive \/ VerifyArchive \/ DecryptArchive
        PROVE  CleanupPart'
    <3>1. /\ restore'.pc \in {"verify", "decrypt", "unpack", "idle"}
          /\ restore'.volume = restore.volume /\ strayVolume' = strayVolume
          /\ restore'.pc # "idle" => restore'.result = restore.result
      BY <1>0, <2>2, RestoreMoves DEF DownloadArchive, VerifyArchive, DecryptArchive
    <3> QED BY <2>2, <3>1 DEF DownloadArchive, VerifyArchive, DecryptArchive
  <2>3. ASSUME UnpackArchive \/ VerifyFiles PROVE CleanupPart'
    <3>1. /\ restore'.pc \in {"files", "volume", "idle"}
          /\ restore'.volume = restore.volume /\ strayVolume' = strayVolume
          /\ restore'.pc # "idle" => restore'.result = restore.result
      BY <1>0, <2>3, RestoreMoves DEF UnpackArchive, VerifyFiles, Restore
    <3> QED BY <2>3, <3>1 DEF UnpackArchive, VerifyFiles
  <2>4. ASSUME CreateVolume PROVE CleanupPart'
    <3>1. \/ restore'.pc = "mount" /\ restore'.result = restore.result
                /\ restore'.volume = "created"
          \/ restore'.pc = "idle" /\ restore'.volume = restore.volume
      BY <1>0, <2>4, RestoreMoves DEF CreateVolume, Restore
    <3> QED BY <2>4, <3>1 DEF CreateVolume
  <2>5. ASSUME ApplyDump PROVE CleanupPart'
    <3>1. restore'.pc = "unmount" /\ restore'.result = restore.result
      BY <1>0, <2>5 DEF ApplyDump, Restore
    <3> QED BY <2>5, <3>1 DEF ApplyDump
  <2>7. ASSUME UmountVolume PROVE CleanupPart'
    <3>1. /\ restore'.pc \in {"cleanup", "idle"}
          /\ restore'.result = (IF restore.failed THEN "none" ELSE "ok")
          /\ restore'.pc = "cleanup" => restore'.result = "none"
          /\ restore'.volume = "created" \/ strayVolume'
      BY <1>0, <2>7 DEF UmountVolume, Restore
    <3> QED BY <3>1
  <2>8. ASSUME RemoveVolume PROVE CleanupPart'
    <3>1. restore'.pc = "idle" /\ (restore'.volume = "none" \/ strayVolume')
      <4>1. CASE restore.volume = "created" /\ restore' = [restore EXCEPT !.pc = "idle",
                     !.result = "failed", !.volume = "none"]
        BY <1>0, <4>1 DEF Restore
      <4>2. CASE RestoreEnds("failed")
                     /\ \/ restore.volume = "mounted" /\ UNCHANGED strayVolume
                        \/ strayVolume' = TRUE
        BY <1>0, <2>8, <4>2, RestoreMoves DEF RemoveVolume
      <4> QED BY <2>8, <4>1, <4>2 DEF RemoveVolume
    <3> QED BY <3>1
  <2>9. ASSUME KillRestore PROVE CleanupPart'
    <3>1. restore'.pc = "idle" /\ restore'.volume = restore.volume
      BY <1>0, <2>9, RestoreMoves DEF KillRestore
    <3> QED BY <2>9, <3>1 DEF KillRestore
  <2>10. ASSUME FormatAndMount PROVE CleanupPart'
    <3>1. \/ restore'.pc = "apply" /\ restore'.result = restore.result
          \/ restore'.pc = "cleanup" /\ restore'.result = restore.result
                /\ restore'.volume = "created"
      BY <1>0, <2>10 DEF FormatAndMount, Restore
    <3> QED BY <2>10, <3>1 DEF FormatAndMount
  <2> QED
    BY <1>1, <2>1, <2>2, <2>3, <2>4, <2>5, <2>7, <2>8, <2>9, <2>10 DEF RunRestore
<1>2. ASSUME BackupNext, ~RunRestore PROVE CleanupPart'
  BY <1>2 DEF BackupNext, RunBackup, CommitWrite, ReplaceHost, DamageObject
<1> QED BY <1>1, <1>2

-----------------------------------------------------------------------------
\* The records the steps give to the job and the restore.
LEMMA JobTypes ==
    ASSUME BackupTypeOK,
           NEW pc \in {"idle", "snapshot", "lock", "position", "unlock", "mount", "dump",
                       "pack", "encrypt", "manifest", "fill", "archive", "publish",
                       "rewrite", "refill", "unmount", "remove"}
    PROVE  JobGoes(pc) \/ JobFails(pc) => job' \in Job
BY DEF BackupTypeOK, Job, JobGoes, JobFails

LEMMA RestoreTypes ==
    ASSUME BackupTypeOK
    PROVE  /\ \A pc \in {"fetch", "verify", "decrypt", "unpack", "files", "volume"} :
                 RestoreGoes(pc) => restore' \in Restore
           /\ \A result \in {"none", "ok", "verified", "failed"} :
                 RestoreEnds(result) => restore' \in Restore
<1>1. restore \in Restore
  BY DEF BackupTypeOK
<1>2. ASSUME NEW pc \in {"fetch", "verify", "decrypt", "unpack", "files", "volume"},
             RestoreGoes(pc)
      PROVE  restore' \in Restore
  <2>1. [restore EXCEPT !.pc = pc] \in Restore
    BY <1>1 DEF Restore
  <2> QED BY <1>2, <2>1 DEF RestoreGoes
<1>3. ASSUME NEW result \in {"none", "ok", "verified", "failed"}, RestoreEnds(result)
      PROVE  restore' \in Restore
  <2>1. [restore EXCEPT !.pc = "idle", !.result = result] \in Restore
    BY <1>1 DEF Restore
  <2> QED BY <1>3, <2>1 DEF RestoreEnds
<1> QED BY <1>2, <1>3

LEMMA FaultTypes ==
    ASSUME BackupTypeOK, BackupFault \/ NoBackupFault
    PROVE  backupFaults' \in Nat
BY DEF BackupTypeOK, BackupFault, NoBackupFault

LEMMA BackupTypeStep ==
    ASSUME BackupInv, BackupNext
    PROVE  BackupTypeOK'
<1>0. BackupTypeOK /\ job.run \in Backups /\ restore.of \in Backups
  BY DEF BackupInv, BackupTypeOK, Job, Restore
<1>1. ASSUME RunBackup PROVE BackupTypeOK'
  <2>1. ASSUME StartBackup PROVE job' \in Job /\ backupFaults' \in Nat
    <3>1. job.run + 1 \in Backups
      BY <2>1, <1>0, BackupAssumption DEF StartBackup, Backups
    <3>2. IdleJob \in Job
      <4>1. 0 \in Backups
        BY BackupAssumption DEF Backups
      <4> QED BY <4>1 DEF IdleJob, Job, NoPosition
    <3>3. [IdleJob EXCEPT !.pc = "snapshot", !.run = job.run + 1] \in Job
      BY <3>1, <3>2 DEF Job
    <3> QED BY <2>1, <1>0, <3>3 DEF StartBackup, BackupTypeOK
  <2>2. ASSUME ReadPosition PROVE job' \in Job /\ backupFaults' \in Nat
    <3>1. job' \in Job
      <4>1. [job EXCEPT !.pc = "unlock", !.position = writes] \in Job
        <5>1. job \in Job /\ writes \in Int
          BY <1>0 DEF BackupTypeOK
        <5> QED BY <5>1 DEF Job
      <4> QED BY <2>2, <1>0, <4>1, JobTypes DEF ReadPosition
    <3> QED BY <2>2, <1>0, <3>1, FaultTypes DEF ReadPosition
  <2>3. ASSUME RunMydumper PROVE job' \in Job /\ backupFaults' \in Nat
    <3>1. CASE job' = [job EXCEPT !.pc = "pack", !.dump = writes] /\ NoBackupFault
      BY <2>3, <3>1, <1>0, FaultTypes DEF BackupTypeOK, Job
    <3>2. CASE JobFails("unmount")
      BY <3>2, <1>0, JobTypes, FaultTypes DEF JobFails
    <3> QED BY <2>3, <3>1, <3>2 DEF RunMydumper
  <2>4. ASSUME CreateSnapshot \/ LockTables \/ UnlockTables \/ MountSnapshot
        PROVE  job' \in Job /\ backupFaults' \in Nat
    <3>1. job' \in Job
      BY <2>4, <1>0, JobTypes DEF CreateSnapshot, LockTables, UnlockTables, MountSnapshot
    <3> QED
      BY <2>4, <1>0, <3>1, FaultTypes
         DEF CreateSnapshot, LockTables, UnlockTables, MountSnapshot, JobFails, BackupTypeOK
  <2>5. ASSUME PackDump \/ EncryptArchive \/ OpenManifest \/ WriteManifest \/ RewriteManifest
        PROVE  job' \in Job /\ backupFaults' \in Nat
    <3>1. job' \in Job
      BY <2>5, <1>0, JobTypes
         DEF PackDump, EncryptArchive, OpenManifest, WriteManifest, RewriteManifest
    <3> QED
      BY <2>5, <1>0, <3>1, FaultTypes
         DEF PackDump, EncryptArchive, OpenManifest, WriteManifest, RewriteManifest, JobFails
  <2>6. ASSUME UploadArchive \/ UploadManifest \/ UmountSnapshot \/ RemoveSnapshot \/ KillBackup
        PROVE  job' \in Job /\ backupFaults' \in Nat
    <3>1. job' \in Job
      BY <2>6, <1>0, JobTypes
         DEF UploadArchive, UploadManifest, UmountSnapshot, RemoveSnapshot, KillBackup
    <3> QED
      BY <2>6, <1>0, <3>1, FaultTypes
         DEF UploadArchive, UploadManifest, UmountSnapshot, RemoveSnapshot, KillBackup, JobFails
  <2>7. job' \in Job /\ backupFaults' \in Nat
    BY <1>1, <2>1, <2>2, <2>3, <2>4, <2>5, <2>6 DEF RunBackup
  <2>8. readLocked' \in BOOLEAN /\ writes' = writes
    BY <1>1, <1>0
       DEF RunBackup, BackupTypeOK, StartBackup, CreateSnapshot, LockTables, ReadPosition,
           UnlockTables, MountSnapshot, RunMydumper, PackDump, EncryptArchive, OpenManifest,
           WriteManifest, UploadArchive, UploadManifest, RewriteManifest, UmountSnapshot, RemoveSnapshot, KillBackup, dbVars
  <2>9. snapshots' \subseteq Backups /\ mounts' \subseteq Backups /\ stray' \subseteq Backups
    BY <1>1, <1>0
       DEF RunBackup, BackupTypeOK, StartBackup, CreateSnapshot, LockTables, ReadPosition,
           UnlockTables, MountSnapshot, RunMydumper, PackDump, EncryptArchive, OpenManifest,
           WriteManifest, UploadArchive, UploadManifest, RewriteManifest, UmountSnapshot, RemoveSnapshot, KillBackup, lvmVars
  <2>10. /\ manifestOf' \in [Backups -> Manifest]
         /\ localManifests' \subseteq Backups /\ bucketManifests' \subseteq Backups
         /\ cut' \subseteq localManifests'
    <3>1. ASSUME WriteManifest PROVE manifestOf' \in [Backups -> Manifest]
      <4>1. [position |-> job.position, dump |-> job.dump, encrypted |-> gpg,
             files |-> DumpFiles] \in Manifest
        BY <1>0 DEF BackupTypeOK, Job, Manifest
      <4> QED BY <3>1, <4>1, <1>0 DEF WriteManifest, MakeManifest, BackupTypeOK
    <3> QED
      BY <1>1, <1>0, <3>1
         DEF RunBackup, BackupTypeOK, StartBackup, CreateSnapshot, LockTables, ReadPosition,
             UnlockTables, MountSnapshot, RunMydumper, PackDump, EncryptArchive, OpenManifest,
             WriteManifest, UploadArchive, UploadManifest, RewriteManifest, UmountSnapshot, RemoveSnapshot, KillBackup,
             manifestVars
  <2>11. /\ plain' \in [Backups -> FileState] /\ cipher' \in [Backups -> FileState]
         /\ bucketArchive' \in [Backups -> FileState]
    <3>1. {"none", "partial", "corrupt", "whole"} \subseteq FileState
      BY DEF FileState
    <3>2. ASSUME PackDump \/ EncryptArchive \/ KillBackup
          PROVE  plain' \in [Backups -> FileState] /\ cipher' \in [Backups -> FileState]
      BY <3>1, <3>2, <1>0 DEF PackDump, EncryptArchive, KillBackup, BackupTypeOK
    <3>3. ASSUME UploadArchive PROVE bucketArchive' \in [Backups -> FileState]
      BY <3>3, <1>0 DEF UploadArchive, ArchiveFile, BackupTypeOK
    <3> QED
      BY <1>1, <1>0, <3>2, <3>3
         DEF RunBackup, BackupTypeOK, StartBackup, CreateSnapshot, LockTables, ReadPosition,
             UnlockTables, MountSnapshot, RunMydumper, PackDump, EncryptArchive, OpenManifest,
             WriteManifest, UploadArchive, UploadManifest, RewriteManifest, UmountSnapshot, RemoveSnapshot, KillBackup, fileVars
  <2> QED BY <1>1, <1>0, <2>7, <2>8, <2>9, <2>10, <2>11 DEF RunBackup, BackupTypeOK
<1>2. ASSUME RunRestore PROVE BackupTypeOK'
  <2>1. ASSUME NEW b \in Backups, NEW mode \in {"verify", "create", "apply"},
               StartRestore(b, mode)
        PROVE  /\ restore' \in Restore /\ backupFaults' \in Nat
               /\ localManifests \subseteq localManifests' /\ localManifests' \subseteq Backups
    <3>1. IdleRestore \in Restore
      <4>1. 0 \in Backups
        BY BackupAssumption DEF Backups
      <4> QED BY <4>1 DEF IdleRestore, Restore, FileState
    <3>2. /\ [IdleRestore EXCEPT !.pc = "fetch", !.of = b, !.mode = mode] \in Restore
          /\ [IdleRestore EXCEPT !.of = b, !.mode = mode, !.result = "failed"] \in Restore
      BY <3>1 DEF Restore
    <3> QED BY <2>1, <1>0, <3>2, FaultTypes DEF StartRestore, BackupTypeOK
  <2>2. ASSUME DownloadArchive \/ VerifyArchive \/ DecryptArchive \/ VerifyFiles \/ KillRestore
        PROVE  restore' \in Restore
    BY <2>2, <1>0, RestoreTypes
       DEF DownloadArchive, VerifyArchive, DecryptArchive, VerifyFiles, KillRestore
  <2>3. ASSUME UnpackArchive PROVE restore' \in Restore
    <3>1. plain[restore.of] \in FileState
      BY <1>0 DEF BackupTypeOK
    <3>2. [restore EXCEPT !.pc = "files", !.unpacked = plain[restore.of]] \in Restore
      BY <1>0, <3>1 DEF BackupTypeOK, Restore
    <3> QED BY <2>3, <1>0, <3>2, RestoreTypes DEF UnpackArchive
  <2>4. ASSUME CreateVolume \/ FormatAndMount \/ ApplyDump PROVE restore' \in Restore
    <3>1. /\ [restore EXCEPT !.pc = "mount", !.volume = "created"] \in Restore
          /\ [restore EXCEPT !.pc = "apply", !.volume = "mounted"] \in Restore
          /\ [restore EXCEPT !.pc = "cleanup", !.failed = TRUE] \in Restore
          /\ [restore EXCEPT !.pc = "unmount", !.filled = (restore.mode = "apply")] \in Restore
          /\ [restore EXCEPT !.pc = "unmount", !.failed = TRUE] \in Restore
      BY <1>0 DEF BackupTypeOK, Restore
    <3> QED BY <2>4, <1>0, <3>1, RestoreTypes DEF CreateVolume, FormatAndMount, ApplyDump
  <2>5. ASSUME UmountVolume \/ RemoveVolume PROVE restore' \in Restore
    <3>1. ASSUME NEW volume \in {"created", "mounted"}, NEW pc \in {"cleanup", "idle"},
                 NEW result \in {"none", "ok"}
          PROVE  [restore EXCEPT !.volume = volume, !.pc = pc, !.result = result] \in Restore
      BY <1>0 DEF BackupTypeOK, Restore
    <3>2. [restore EXCEPT !.pc = "idle", !.result = "failed", !.volume = "none"] \in Restore
      BY <1>0 DEF BackupTypeOK, Restore
    <3> QED BY <2>5, <1>0, <3>1, <3>2, RestoreTypes DEF UmountVolume, RemoveVolume
  <2>6. /\ restore' \in Restore
        /\ localManifests \subseteq localManifests' /\ localManifests' \subseteq Backups
    BY <1>2, <1>0, <2>1, <2>2, <2>3, <2>4, <2>5
       DEF RunRestore, BackupTypeOK, DownloadArchive, VerifyArchive, DecryptArchive,
           UnpackArchive, VerifyFiles, CreateVolume, FormatAndMount, ApplyDump, UmountVolume,
           RemoveVolume, KillRestore
  <2>7. backupFaults' \in Nat
    BY <1>2, <1>0, <2>1, FaultTypes
       DEF RunRestore, DownloadArchive, VerifyArchive, DecryptArchive, BackupTypeOK,
           UnpackArchive, VerifyFiles, CreateVolume, FormatAndMount, ApplyDump, UmountVolume,
           RemoveVolume, KillRestore
  <2>8. strayVolume' \in BOOLEAN
    BY <1>2, <1>0
       DEF RunRestore, StartRestore, DownloadArchive, VerifyArchive, DecryptArchive, BackupTypeOK,
           UnpackArchive, VerifyFiles, CreateVolume, FormatAndMount, ApplyDump, UmountVolume,
           RemoveVolume, KillRestore
  <2>9. plain' \in [Backups -> FileState] /\ cipher' \in [Backups -> FileState]
    <3>1. {"none", "partial", "corrupt", "whole"} \subseteq FileState
      BY DEF FileState
    <3>2. ASSUME DownloadArchive \/ DecryptArchive \/ KillRestore
          PROVE  plain' \in [Backups -> FileState] /\ cipher' \in [Backups -> FileState]
      BY <3>1, <3>2, <1>0 DEF DownloadArchive, DecryptArchive, KillRestore, BackupTypeOK
    <3> QED
      BY <1>2, <1>0, <3>2
         DEF RunRestore, StartRestore, VerifyArchive, BackupTypeOK, UnpackArchive, VerifyFiles,
             CreateVolume, FormatAndMount, ApplyDump, UmountVolume, RemoveVolume
  <2> QED
    BY <1>2, <1>0, <2>6, <2>7, <2>8, <2>9 DEF RunRestore, BackupTypeOK, dbVars, lvmVars
<1>3. ASSUME CommitWrite PROVE BackupTypeOK'
  BY <1>3, <1>0 DEF CommitWrite, BackupTypeOK, lvmVars, manifestVars, fileVars
<1>4. ASSUME ReplaceHost PROVE BackupTypeOK'
  BY <1>4, <1>0 DEF ReplaceHost, BackupTypeOK, dbVars, lvmVars, NoFiles, FileState
<1>5. ASSUME NEW b \in Backups, DamageObject(b) PROVE BackupTypeOK'
  BY <1>5, <1>0, FaultTypes
     DEF DamageObject, BackupTypeOK, dbVars, lvmVars, manifestVars, FileState
<1> QED BY <1>1, <1>2, <1>3, <1>4, <1>5 DEF BackupNext

LEMMA RecordStep ==
    ASSUME BackupInv, BackupNext
    PROVE  RecordPart'
<1> USE DEF BackupInv, RecordPart
<1>0. /\ BackupTypeOK /\ job.run \in Backups /\ job.dump \in Nat /\ writes \in Nat
      /\ \A b \in Backups : b \in Int
  BY BackupAssumption DEF BackupTypeOK, Job, Backups
<1>1. ASSUME RunBackup PROVE RecordPart'
  <2>1. ASSUME StartBackup PROVE RecordPart'
    BY <2>1, <1>0 DEF StartBackup, IdleJob, NoPosition, dbVars
  <2>2. ASSUME ReadPosition PROVE RecordPart'
    <3>1. /\ job'.dump = job.dump /\ job'.pc = "unlock" /\ writes' = writes
          /\ job'.position \in {job.position, writes}
      BY <2>2, <1>0, JobMoves DEF ReadPosition, dbVars, BackupTypeOK, Job
    <3> QED BY <1>0, <3>1
  <2>3. ASSUME RunMydumper PROVE RecordPart'
    <3>1. /\ job'.dump \in {job.dump, writes} /\ job'.pc \in {"pack", "unmount"}
          /\ writes' = writes /\ job'.position = job.position
      BY <2>3, <1>0, JobMoves DEF RunMydumper, dbVars, BackupTypeOK, Job
    <3> QED BY <1>0, <3>1
  <2>4. ASSUME WriteManifest PROVE RecordPart'
    <3>1. job.run \notin Restorable
      BY <2>4 DEF WriteManifest, RestorePart, Finished
    <3>2. JobMovesTo({"archive", "unmount"})
      BY <1>0, <2>4, JobSteps
    <3>3. CASE job'.pc = "unmount"
      BY <2>4, <3>2, <3>3 DEF JobMovesTo, WriteManifest, dbVars
    <3>4. CASE cut' = cut \ {job.run}
      <4>1. job.run \in (localManifests' \ cut') \ bucketManifests'
        BY <1>0, <2>4, <3>1, <3>4 DEF WriteManifest, Restorable, BackupTypeOK
      <4> QED BY <2>4, <3>2, <4>1 DEF JobMovesTo, WriteManifest, dbVars
    <3> QED BY <1>0, <2>4, <3>3, <3>4, JobMoves DEF WriteManifest
  <2>5. ASSUME UploadArchive PROVE RecordPart'
    BY <1>0, <2>5, JobSteps DEF JobMovesTo, UploadArchive, dbVars, manifestVars
  <2>8. ASSUME UploadManifest PROVE RecordPart'
    <3>1. CASE bucketManifests' = bucketManifests \cup {job.run}
      BY <1>0, <2>8, <3>1, JobSteps DEF JobMovesTo, UploadManifest, dbVars
    <3>2. CASE JobFails("unmount")
      <4>1. job'.pc = "unmount" /\ job'.position = job.position /\ job'.dump = job.dump
        BY <1>0, <3>2, JobMoves
      <4> QED BY <2>8, <4>1 DEF UploadManifest, dbVars
    <3> QED BY <2>8, <3>1, <3>2 DEF UploadManifest
  <2>7. ASSUME OpenManifest PROVE RecordPart'
    <3>1. CASE cut' = cut \cup {job.run}
      <4>1. job.pc = "rewrite" \/ job'.pc # "refill"
        BY <1>0, <2>7, JobSteps DEF JobMovesTo
      <4> QED BY <1>0, <2>7, <3>1, <4>1, JobSteps DEF JobMovesTo, OpenManifest, dbVars
    <3>2. CASE JobFails("unmount")
      <4>1. job'.pc = "unmount" /\ job'.position = job.position /\ job'.dump = job.dump
        BY <1>0, <3>2, JobMoves
      <4> QED BY <2>7, <4>1 DEF OpenManifest, dbVars
    <3> QED BY <2>7, <3>1, <3>2 DEF OpenManifest
  <2>9. ASSUME RewriteManifest PROVE RecordPart'
    BY <1>0, <2>9, JobSteps DEF JobMovesTo, RewriteManifest, dbVars
  <2>6. ASSUME CreateSnapshot \/ LockTables \/ UnlockTables \/ MountSnapshot \/ PackDump
               \/ EncryptArchive \/ UmountSnapshot \/ RemoveSnapshot \/ KillBackup
        PROVE  RecordPart'
    <3>1. writes' = writes
      BY <2>6 DEF CreateSnapshot, LockTables, UnlockTables, MountSnapshot, PackDump,
                  EncryptArchive, UmountSnapshot, RemoveSnapshot, KillBackup, dbVars
    <3>2. /\ job'.dump = job.dump /\ job'.position = job.position
          /\ job'.pc \notin {"fill", "archive", "publish", "rewrite", "refill"}
      BY <2>6, JobSteps DEF JobMovesTo
    <3> QED BY <3>1, <3>2
  <2> QED BY <1>1, <2>1, <2>2, <2>3, <2>4, <2>5, <2>6, <2>7, <2>8, <2>9 DEF RunBackup
<1>2. ASSUME RunRestore PROVE RecordPart'
  BY <1>2 DEF RunRestore, dbVars, StartRestore, DownloadArchive, VerifyArchive,
              DecryptArchive, UnpackArchive, VerifyFiles, CreateVolume, FormatAndMount,
              ApplyDump, UmountVolume, RemoveVolume, KillRestore
<1>3. ASSUME CommitWrite PROVE RecordPart'
  BY <1>0, <1>3 DEF CommitWrite, manifestVars
<1>4. ASSUME BackupNext, ReplaceHost \/ (\E b \in Backups : DamageObject(b)) PROVE RecordPart'
  BY <1>4 DEF ReplaceHost, DamageObject, dbVars, manifestVars
<1> QED BY <1>1, <1>2, <1>3, <1>4 DEF BackupNext

-----------------------------------------------------------------------------
\* The parts together are an inductive invariant of the backups and restores.
THEOREM BackupInvariant == BackupSpec => []BackupInv
<1>1. ASSUME BackupInv, [BackupNext]_backupVars PROVE BackupInv'
  <2>1. CASE BackupNext
    BY <1>1, <2>1, BackupTypeStep, PositionStep, VolumeStep, ArchiveStep, RestoreStep,
       CleanupStep, RecordStep DEF BackupInv
  <2>2. CASE UNCHANGED backupVars
    BY <1>1, <2>2
       DEF BackupInv, BackupTypeOK, PositionPart, PositionNotBeyondDump, VolumePart,
           ArchivePart, ManifestHasArchive, Encrypted, FileOf, RestorePart,
           RestoredIsBackedUp, Finished, Restorable, CleanupPart, RecordPart,
           backupVars, dbVars, lvmVars, manifestVars, fileVars
  <2> QED BY <1>1, <2>1, <2>2
<1> QED BY BackupInitInv, <1>1, PTL DEF BackupSpec

\* The variables keep their types.
THEOREM BackupTypeCorrect == BackupSpec => []BackupTypeOK
<1>1. BackupInv => BackupTypeOK
  BY DEF BackupInv
<1> QED BY <1>1, BackupInvariant, PTL

\* However a run ends, a manifest in the bucket has its archive there.
THEOREM PublishedIsStored == BackupSpec => []ManifestHasArchive
<1>1. BackupInv => ManifestHasArchive
  BY DEF BackupInv, ArchivePart
<1> QED BY <1>1, BackupInvariant, PTL

\* Whatever is written between the lock and the dump, the stored position is
\* not beyond what the dump holds.
THEOREM PositionIsSafe == BackupSpec => []PositionNotBeyondDump
<1>1. BackupInv => PositionNotBeyondDump
  BY DEF BackupInv, PositionPart
<1> QED BY <1>1, BackupInvariant, PTL

\* What outlives a run was left by a kill or by a cleanup command that failed.
THEOREM CleanedUp == BackupSpec => []NothingLeftBehind
<1>1. BackupInv => NothingLeftBehind
  BY DEF BackupInv, VolumePart, CleanupPart, NothingLeftBehind
<1> QED BY <1>1, BackupInvariant, PTL

\* A restore that reports success unpacked an archive that is whole.
THEOREM RestoreIsSound == BackupSpec => []RestoredIsBackedUp
<1>1. BackupInv => RestoredIsBackedUp
  BY DEF BackupInv, RestorePart
<1> QED BY <1>1, BackupInvariant, PTL

-----------------------------------------------------------------------------
(* The program implements BackupCatalog *)

CatalogueStep == [Catalogue!CatalogNext]_(Catalogue!catalogVars)
Delivered == IF restore.result \in {"ok", "verified"}
             THEN {<<restore.of, restore.unpacked>>} ELSE {}
Holds == [b \in Backups |-> [position |-> manifestOf[b].position, dump |-> manifestOf[b].dump]]
ArchivedSet == {b \in Backups : bucketArchive[b] # "none"}
CatalogSet == (localManifests \ cut) \cup (bucketManifests \ localManifests)
ReopeningSet == IF job.pc = "rewrite" THEN {job.run} ELSE {}

LEMMA CatalogueStutters ==
    ASSUME UNCHANGED <<writes, manifestOf, CatalogSet, bucketManifests, ArchivedSet,
                       ReopeningSet, Delivered>>
    PROVE  CatalogueStep
BY DEF CatalogueStep, Catalogue!catalogVars, CatalogSet, ReopeningSet, Delivered, ArchivedSet

LEMMA CatalogueMoves ==
    ASSUME NEW b \in Backups,
           \/ Catalogue!Record(b) \/ Catalogue!Archive(b)
           \/ Catalogue!Store(b) \/ Catalogue!Reopen(b) \/ Catalogue!PutBack(b)
           \/ Catalogue!Deliver(b)
    PROVE  CatalogueStep
BY DEF CatalogueStep, Catalogue!CatalogNext

\* A run's manifest is recorded when it is written, stored when it is uploaded, and
\* leaves and enters the catalogue as it is written again.
LEMMA BackupImplements ==
    ASSUME BackupInv, RunBackup
    PROVE  CatalogueStep
<1>0. /\ BackupTypeOK /\ job.run \in Backups /\ UNCHANGED <<restore, writes, Delivered>>
      /\ job.dump \in Nat /\ job.position \in Int /\ writes \in Nat
      /\ cut \subseteq localManifests
  BY DEF BackupInv, BackupTypeOK, Job, Delivered, RunBackup, StartBackup, CreateSnapshot,
         LockTables, ReadPosition, UnlockTables, MountSnapshot, RunMydumper, PackDump,
         EncryptArchive, OpenManifest, WriteManifest, UploadArchive, UploadManifest,
         RewriteManifest, UmountSnapshot, RemoveSnapshot, KillBackup, dbVars
<1>r. PICK r \in Backups : r = job.run
  BY <1>0
<1>1. ASSUME WriteManifest PROVE CatalogueStep
  <2>1. CASE UNCHANGED <<manifestOf, cut>> /\ JobFails("unmount")
    <3>1. job'.pc = "unmount"
      BY <1>0, <2>1, JobMoves
    <3>2. UNCHANGED <<manifestOf, CatalogSet, bucketManifests, ArchivedSet, ReopeningSet>>
      BY <1>1, <2>1, <3>1 DEF WriteManifest, fileVars, CatalogSet, ArchivedSet, ReopeningSet
    <3> QED BY <1>0, <3>2, CatalogueStutters
  <2>2. CASE MakeManifest /\ cut' = cut \ {job.run} /\ JobGoes("archive")
    <3>1. job.run \notin CatalogSet \cup bucketManifests /\ job.run \in localManifests
      BY <1>0, <1>1
         DEF WriteManifest, BackupInv, RestorePart, RecordPart, Finished, Restorable, CatalogSet
    <3>2. -1 <= job.position /\ job.position <= job.dump /\ job.dump <= writes
      BY <1>1 DEF WriteManifest, BackupInv, PositionPart, RecordPart
    <3>3. Holds' = [Holds EXCEPT ![job.run] = [position |-> job.position, dump |-> job.dump]]
      BY <1>0, <2>2 DEF MakeManifest, Holds, BackupTypeOK
    <3>4. job.position \in -1..writes /\ job.dump \in 0..writes
      BY <1>0, <3>2
    <3>5. CatalogSet' = CatalogSet \cup {job.run}
      BY <1>1, <2>2, <3>1 DEF WriteManifest, CatalogSet
    <3>6. UNCHANGED <<ArchivedSet, bucketManifests, ReopeningSet>>
      BY <1>0, <1>1, <2>2, JobMoves DEF WriteManifest, fileVars, ArchivedSet, ReopeningSet
    <3>7. Catalogue!Record(r)
      BY <1>0, <1>r, <3>1, <3>2, <3>3, <3>4, <3>5, <3>6
         DEF Catalogue!Record, CatalogSet, Holds, ArchivedSet, ReopeningSet, Delivered
    <3> QED BY <3>7, CatalogueMoves
  <2> QED BY <1>1, <2>1, <2>2 DEF WriteManifest
<1>2. ASSUME UploadArchive PROVE CatalogueStep
  <2>0. /\ UNCHANGED <<manifestOf, CatalogSet, bucketManifests, ReopeningSet>>
        /\ job.run \in CatalogSet
    BY <1>0, <1>2, JobSteps
       DEF JobMovesTo, UploadArchive, manifestVars, CatalogSet, ReopeningSet, BackupInv,
           RecordPart
  <2>1. CASE UNCHANGED bucketArchive
    BY <1>0, <2>0, <2>1, CatalogueStutters DEF ArchivedSet
  <2>2. CASE bucketArchive' = [bucketArchive EXCEPT ![job.run] = ArchiveFile(job.run)]
    <3>1. ArchiveFile(job.run) # "none"
      BY <1>0, <1>2 DEF UploadArchive, ArchiveFile, FileOf, BackupInv, ArchivePart, Encrypted
    <3>2. ArchivedSet' = ArchivedSet \cup {job.run}
      BY <1>0, <2>2, <3>1 DEF ArchivedSet, BackupTypeOK
    <3>3. Catalogue!Archive(r)
      BY <1>0, <1>r, <2>0, <3>2
         DEF Catalogue!Archive, CatalogSet, ArchivedSet, ReopeningSet, Delivered
    <3> QED BY <3>3, CatalogueMoves
  <2> QED BY <1>2, <2>1, <2>2 DEF UploadArchive
<1>3. ASSUME UploadManifest PROVE CatalogueStep
  <2>0. UNCHANGED <<manifestOf, ArchivedSet>> /\ ReopeningSet = {}
    BY <1>3 DEF UploadManifest, fileVars, ArchivedSet, ReopeningSet
  <2>1. CASE UNCHANGED bucketManifests /\ JobFails("unmount")
    <3>0. job'.pc = "unmount"
      BY <1>0, <2>1, JobMoves
    <3>1. UNCHANGED <<CatalogSet, ReopeningSet>>
      BY <1>3, <2>0, <2>1, <3>0 DEF UploadManifest, CatalogSet, ReopeningSet
    <3> QED BY <1>0, <2>0, <2>1, <3>1, CatalogueStutters
  <2>2. CASE bucketManifests' = bucketManifests \cup {job.run} /\ JobGoes("rewrite")
    <3>1. job.run \in (localManifests \ cut) \ bucketManifests /\ job.run \in ArchivedSet
      BY <1>0, <1>3 DEF UploadManifest, BackupInv, RecordPart, ArchivePart, ArchivedSet
    <3>2. CatalogSet' = CatalogSet /\ job.run \in CatalogSet
      BY <1>3, <2>2, <3>1 DEF UploadManifest, CatalogSet
    <3>3. ReopeningSet' = {job.run}
      BY <1>0, <2>2, JobMoves DEF ReopeningSet
    <3>4. Catalogue!Store(r)
      BY <1>0, <1>r, <2>0, <2>2, <3>1, <3>2, <3>3
         DEF Catalogue!Store, CatalogSet, ArchivedSet, ReopeningSet, Delivered
    <3> QED BY <3>4, CatalogueMoves
  <2> QED BY <1>3, <2>1, <2>2 DEF UploadManifest
<1>4. ASSUME OpenManifest PROVE CatalogueStep
  <2>0. UNCHANGED <<manifestOf, ArchivedSet, bucketManifests>>
    BY <1>4 DEF OpenManifest, fileVars, ArchivedSet
  <2>1. CatalogSet' \in {CatalogSet, CatalogSet \ {job.run}} /\ ReopeningSet' = {}
    BY <1>0, <1>4, JobSteps DEF JobMovesTo, OpenManifest, CatalogSet, ReopeningSet
  <2>2. CASE job.pc = "manifest"
    <3>1. job.run \notin CatalogSet
      BY <1>0, <2>2 DEF BackupInv, RestorePart, Finished, Restorable, CatalogSet
    <3>2. CatalogSet' = CatalogSet /\ ReopeningSet = {}
      BY <2>1, <2>2, <3>1 DEF ReopeningSet
    <3> QED BY <1>0, <2>0, <2>1, <3>2, CatalogueStutters
  <2>3. CASE job.pc = "rewrite"
    <3>1. Catalogue!Reopen(r)
      BY <1>0, <1>r, <2>0, <2>1, <2>3
         DEF Catalogue!Reopen, CatalogSet, ArchivedSet, ReopeningSet, Delivered
    <3> QED BY <3>1, CatalogueMoves
  <2> QED BY <1>4, <2>2, <2>3 DEF OpenManifest
<1>5. ASSUME RewriteManifest PROVE CatalogueStep
  <2>0. UNCHANGED <<manifestOf, ArchivedSet, bucketManifests, ReopeningSet>>
    BY <1>0, <1>5, JobSteps
       DEF JobMovesTo, RewriteManifest, fileVars, ArchivedSet, ReopeningSet
  <2>1. CASE UNCHANGED cut
    <3>1. UNCHANGED CatalogSet
      BY <1>5, <2>1 DEF RewriteManifest, CatalogSet
    <3> QED BY <1>0, <2>0, <3>1, CatalogueStutters
  <2>2. CASE cut' = cut \ {job.run}
    <3>1. job.run \in bucketManifests \cap cut /\ ReopeningSet = {}
      BY <1>5 DEF RewriteManifest, BackupInv, RecordPart, ReopeningSet
    <3>2. job.run \notin CatalogSet /\ CatalogSet' = CatalogSet \cup {job.run}
      BY <1>0, <1>5, <2>2, <3>1 DEF RewriteManifest, CatalogSet
    <3>3. Catalogue!PutBack(r)
      BY <1>0, <1>r, <2>0, <3>1, <3>2
         DEF Catalogue!PutBack, CatalogSet, ArchivedSet, ReopeningSet, Delivered
    <3> QED BY <3>3, CatalogueMoves
  <2> QED BY <1>5, <2>1, <2>2 DEF RewriteManifest
\* Killed before it opens the file, a run leaves its manifest whole.
<1>6. ASSUME KillBackup PROVE CatalogueStep
  <2>1. UNCHANGED <<manifestOf, CatalogSet, bucketManifests, ArchivedSet>> /\ ReopeningSet' = {}
    BY <1>0, <1>6, JobSteps
       DEF JobMovesTo, KillBackup, manifestVars, CatalogSet, ArchivedSet, ReopeningSet
  <2>2. CASE job.pc = "rewrite"
    <3>1. Catalogue!Reopen(r)
      BY <1>0, <1>r, <2>1, <2>2
         DEF Catalogue!Reopen, CatalogSet, ArchivedSet, ReopeningSet, Delivered
    <3> QED BY <3>1, CatalogueMoves
  <2>3. CASE job.pc # "rewrite"
    <3>1. ReopeningSet = {}
      BY <2>3 DEF ReopeningSet
    <3> QED BY <1>0, <2>1, <3>1, CatalogueStutters
  <2> QED BY <2>2, <2>3
<1>7. ASSUME UNCHANGED <<manifestVars, bucketArchive>>,
             job.pc # "rewrite", job'.pc # "rewrite"
      PROVE  CatalogueStep
  BY <1>0, <1>7, CatalogueStutters DEF manifestVars, CatalogSet, ReopeningSet, ArchivedSet
<1>8. ASSUME \/ CreateSnapshot \/ LockTables \/ UnlockTables \/ MountSnapshot \/ PackDump
             \/ EncryptArchive \/ UmountSnapshot \/ RemoveSnapshot
      PROVE  CatalogueStep
  <2>1. UNCHANGED <<manifestVars, bucketArchive>> /\ job.pc # "rewrite"
    BY <1>8
       DEF CreateSnapshot, LockTables, UnlockTables, MountSnapshot, PackDump, EncryptArchive,
           UmountSnapshot, RemoveSnapshot, fileVars
  <2>2. job'.pc # "rewrite"
    BY <1>0, <1>8, JobSteps DEF JobMovesTo
  <2> QED BY <1>7, <2>1, <2>2
<1>9. ASSUME StartBackup \/ ReadPosition \/ RunMydumper PROVE CatalogueStep
  <2>1. UNCHANGED <<manifestVars, bucketArchive>> /\ job.pc # "rewrite"
    BY <1>9 DEF StartBackup, ReadPosition, RunMydumper, fileVars
  <2>2. job'.pc \in {"snapshot", "unlock", "pack", "unmount"}
    BY <1>0, <1>9, JobMoves
       DEF StartBackup, IdleJob, ReadPosition, RunMydumper, BackupTypeOK, Job
  <2> QED BY <1>7, <2>1, <2>2
<1> QED BY <1>1, <1>2, <1>3, <1>4, <1>5, <1>6, <1>8, <1>9 DEF RunBackup

\* Of a restore's steps it sees the first, and the one that reports success.
LEMMA RestoreImplements ==
    ASSUME BackupInv, RunRestore
    PROVE  CatalogueStep
<1>0. /\ BackupTypeOK /\ restore.of \in Backups
      /\ UNCHANGED <<writes, manifestOf, bucketManifests, cut, ArchivedSet, ReopeningSet>>
  BY DEF BackupInv, BackupTypeOK, Restore, RunRestore, dbVars, ArchivedSet, ReopeningSet
<1>1. ASSUME NEW b \in Backups, NEW mode \in {"verify", "create", "apply"},
             StartRestore(b, mode)
      PROVE  CatalogueStep
  <2>1. CatalogSet' = CatalogSet
    BY <1>0, <1>1 DEF StartRestore, CatalogSet
  <2>2. Delivered' = {}
    BY <1>1 DEF StartRestore, IdleRestore, Delivered
  <2>3. Catalogue!BeginRestore
    BY <1>0, <2>1, <2>2
       DEF Catalogue!BeginRestore, CatalogSet, ArchivedSet, ReopeningSet, Delivered
  <2> QED BY <2>3 DEF CatalogueStep, Catalogue!CatalogNext
<1>2. ASSUME restore.pc # "idle", UNCHANGED localManifests,
             restore'.result \in {"none", "failed"}
      PROVE  CatalogueStep
  <2>1. Delivered = {} /\ Delivered' = {}
    BY <1>2 DEF BackupInv, RestorePart, Delivered
  <2> QED BY <1>0, <1>2, <2>1, CatalogueStutters DEF CatalogSet
<1>3. ASSUME restore.pc # "idle", UNCHANGED localManifests,
             restore'.result \in {"ok", "verified"}, restore'.of = restore.of,
             restore.unpacked = "whole", restore'.unpacked = "whole"
      PROVE  CatalogueStep
  <2>1. Delivered = {} /\ Delivered' = {<<restore.of, "whole">>}
    BY <1>3 DEF BackupInv, RestorePart, Delivered
  <2>2. restore.of \in CatalogSet \cup bucketManifests
    BY <1>3 DEF BackupInv, RestorePart, Restorable, CatalogSet
  <2>3. Catalogue!Deliver(restore.of)
    BY <1>0, <1>3, <2>1, <2>2
       DEF Catalogue!Deliver, CatalogSet, ArchivedSet, ReopeningSet, Delivered
  <2> QED BY <1>0, <2>3, CatalogueMoves
<1>a. restore.pc # "idle" => restore.result = "none"
  BY DEF BackupInv, RestorePart
<1>b. restore.pc \in {"files", "unmount"} => restore.unpacked = "whole"
  BY DEF BackupInv, RestorePart
<1>4. ASSUME DownloadArchive \/ VerifyArchive \/ DecryptArchive \/ CreateVolume
             \/ KillRestore
      PROVE  CatalogueStep
  <2>1. restore.pc # "idle" /\ UNCHANGED localManifests
    BY <1>4 DEF DownloadArchive, VerifyArchive, DecryptArchive, CreateVolume, KillRestore
  <2>2. restore'.result \in {"none", "failed"}
    BY <1>0, <1>4, <1>a, <2>1, RestoreMoves
       DEF DownloadArchive, VerifyArchive, DecryptArchive, CreateVolume, KillRestore,
           BackupTypeOK, Restore
  <2> QED BY <1>2, <2>1, <2>2
<1>5. ASSUME UnpackArchive \/ FormatAndMount \/ ApplyDump \/ RemoveVolume
      PROVE  CatalogueStep
  <2>1. restore.pc # "idle" /\ UNCHANGED localManifests
    BY <1>5 DEF UnpackArchive, FormatAndMount, ApplyDump, RemoveVolume
  <2>2. restore'.result \in {"none", "failed"}
    BY <1>0, <1>5, <1>a, <2>1, RestoreMoves
       DEF UnpackArchive, FormatAndMount, ApplyDump, RemoveVolume, BackupTypeOK, Restore
  <2> QED BY <1>2, <2>1, <2>2
<1>6. ASSUME VerifyFiles PROVE CatalogueStep
  <2>1. restore.pc = "files" /\ UNCHANGED localManifests
    BY <1>6 DEF VerifyFiles
  <2>2. \/ restore'.result \in {"none", "failed"}
        \/ /\ restore'.result = "verified" /\ restore'.of = restore.of
           /\ restore'.unpacked = restore.unpacked
    BY <1>0, <1>6, <1>a, <2>1, RestoreMoves DEF VerifyFiles
  <2> QED BY <1>2, <1>3, <1>b, <2>1, <2>2
<1>7. ASSUME UmountVolume PROVE CatalogueStep
  <2>1. restore.pc = "unmount" /\ UNCHANGED localManifests
    BY <1>7 DEF UmountVolume
  <2>2. \/ restore'.result = "none"
        \/ /\ restore'.result = "ok" /\ restore'.of = restore.of
           /\ restore'.unpacked = restore.unpacked
    BY <1>0, <1>7 DEF UmountVolume, BackupTypeOK, Restore
  <2> QED BY <1>2, <1>3, <1>b, <2>1, <2>2
<1> QED BY <1>1, <1>4, <1>5, <1>6, <1>7 DEF RunRestore

\* Around the program: commits and the loss of the host are the catalogue's too,
\* a damaged object is found out by the restore.
LEMMA AroundImplements ==
    ASSUME BackupInv, CommitWrite \/ ReplaceHost \/ (\E b \in Backups : DamageObject(b))
    PROVE  CatalogueStep
<1>1. ASSUME CommitWrite PROVE CatalogueStep
  <2>1. Catalogue!Commit
    BY <1>1 DEF CommitWrite, Catalogue!Commit, manifestVars, fileVars
  <2> QED BY <2>1 DEF CatalogueStep, Catalogue!CatalogNext
<1>2. ASSUME ReplaceHost PROVE CatalogueStep
  <2>1. Catalogue!LoseHost
    BY <1>2 DEF ReplaceHost, Catalogue!LoseHost, dbVars
  <2> QED BY <2>1 DEF CatalogueStep, Catalogue!CatalogNext
<1>3. ASSUME NEW b \in Backups, DamageObject(b) PROVE CatalogueStep
  <2>1. ArchivedSet' = ArchivedSet
    BY <1>3 DEF DamageObject, ArchivedSet, BackupInv, BackupTypeOK
  <2> QED
    BY <1>3, <2>1, CatalogueStutters
       DEF DamageObject, dbVars, manifestVars, CatalogSet, ReopeningSet, Delivered
<1> QED BY <1>1, <1>2, <1>3

\* For any number of runs, writes, failed commands and kills, a backup once
\* recorded keeps what it holds, once stored stays stored with its archive, is
\* restored whole or not at all, and leaves the catalogue only with the host or
\* while its own run rewrites its manifest.
THEOREM ProgramImplementsCatalogue == BackupSpec => CatalogueKept
<1>1. BackupInit => Catalogue!CatalogInit
  <2> SUFFICES ASSUME BackupInit PROVE Catalogue!CatalogInit
    OBVIOUS
  <2>1. BackupInv
    BY BackupInitInv
  <2>2. 0 \in Backups
    BY BackupAssumption DEF Backups
  <2>3. Holds \in [Backups -> Catalogue!Content]
    BY <2>1 DEF BackupInv, BackupTypeOK, Manifest, Holds, Catalogue!Content
  <2>4. ArchivedSet = {0}
    BY <2>2 DEF BackupInit, ArchivedSet, OnlyLegacy
  <2> QED
    BY <2>2, <2>3, <2>4
       DEF BackupInit, Catalogue!CatalogInit, Holds, ArchivedSet, IdleJob, IdleRestore
<1>2. BackupInv /\ [BackupNext]_backupVars => CatalogueStep
  <2>1. ASSUME UNCHANGED backupVars PROVE CatalogueStep
    BY <2>1, CatalogueStutters
       DEF backupVars, dbVars, manifestVars, fileVars, CatalogSet, ArchivedSet, ReopeningSet,
           Delivered
  <2> QED
    BY <2>1, BackupImplements, RestoreImplements, AroundImplements DEF BackupNext
<1> QED
  BY <1>1, <1>2, BackupInvariant, PTL
     DEF BackupSpec, CatalogueKept, Catalogue!CatalogSpec, CatalogueStep
=============================================================================
