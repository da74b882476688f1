---------------------------- MODULE NasQuarantine ----------------------------
(***************************************************************************)
(* The DLP pipeline of the NAS audit service (src/71): scan workers that   *)
(* take file events off a queue, read the file over SMB, match it, and     *)
(* move what is sensitive into the quarantine directory; the API's calls   *)
(* that quarantine and restore by hand; and the users of the share.        *)
(*                                                                         *)
(* Content is the number of the user's write that made it.  Path 0 is the  *)
(* file a user works on, the others are the quarantine names handed out,   *)
(* each made unique by its isolation id.  The quarantine directory is on   *)
(* the watched share, so a file that appears there is scanned as well.     *)
(***************************************************************************)
EXTENDS Integers, FiniteSets

CONSTANTS ScanWorkers,   \* scan_concurrency threads
          Api,           \* the event loop's thread, which serves the API
          MaxContents,   \* bound: files written by users
          MaxSlots,      \* bound: quarantine names handed out
          MaxSmbErrors   \* bound: SMB requests that fail

ASSUME NasQuarantineAssumption ==
    /\ Api \notin ScanWorkers
    /\ MaxContents \in Nat /\ MaxSlots \in Nat /\ MaxSmbErrors \in Nat

VARIABLES
    files,          \* the content at each path, 0 for no file
    slots,          \* quarantine names handed out
    sensitive,      \* contents that match a sensitive word
    scanQueue,      \* paths with an event waiting to be scanned
    movers,         \* what each thread is doing
    contents,       \* contents written so far
    removed,        \* contents a user overwrote or deleted (history)
    exposed,        \* contents written to a path a thread had read and not
                    \* yet deleted (history)
    smbErrors

nasQuarantineVars ==
    <<files, slots, sensitive, scanQueue, movers, contents, removed, exposed, smbErrors>>

Partial == -1
Paths == 0..MaxSlots
Movers == ScanWorkers \cup {Api}
Mover == [pc : {"idle", "move", "retrieve", "store", "delete"},
          path : Paths, slot : Paths, buffer : Int]
IdleMover == [pc |-> "idle", path |-> 0, slot |-> 0, buffer |-> 0]

NasQuarantineTypeOK ==
    /\ files \in [Paths -> Int] /\ slots \in Paths
    /\ sensitive \subseteq Nat
    /\ scanQueue \subseteq Paths
    /\ movers \in [Movers -> Mover]
    /\ contents \in Nat
    /\ removed \subseteq Int /\ exposed \subseteq Int
    /\ smbErrors \in Nat

NasQuarantineInit ==
    /\ files = [p \in Paths |-> 0] /\ slots = 0
    /\ sensitive = {} /\ scanQueue = {}
    /\ movers = [m \in Movers |-> IdleMover]
    /\ contents = 0
    /\ removed = {} /\ exposed = {}
    /\ smbErrors = 0

userVars == <<sensitive, contents, removed, exposed>>

SmbError == smbErrors < MaxSmbErrors /\ smbErrors' = smbErrors + 1
SmbWorks == UNCHANGED smbErrors
MoverGoes(m, pc) == movers' = [movers EXCEPT ![m].pc = pc]
MoverEnds(m) == movers' = [movers EXCEPT ![m] = IdleMover]

(***************************************************************************)
(* _scan_worker and _process_event: extract_from_smb_path reads the file   *)
(* as it is now; a file that is gone, cannot be read or does not match is  *)
(* dropped.  Nothing ties the move that follows to the content scanned.    *)
(***************************************************************************)
\* quarantine_file makes up a name of its own.
QuarantineFile(m, p) ==
    /\ slots < MaxSlots
    /\ slots' = slots + 1
    /\ movers' = [movers EXCEPT ![m] =
           [pc |-> "move", path |-> p, slot |-> slots + 1, buffer |-> 0]]

ScanEvent(w, p) ==
    /\ movers[w].pc = "idle" /\ p \in scanQueue
    /\ scanQueue' = scanQueue \ {p}
    /\ \/ files[p] \in sensitive /\ QuarantineFile(w, p) /\ SmbWorks
       \/ files[p] \notin sensitive /\ SmbWorks /\ UNCHANGED <<slots, movers>>
       \/ SmbError /\ UNCHANGED <<slots, movers>>
    /\ UNCHANGED <<files, userVars>>

QuarantineByHand(p) ==
    /\ movers[Api].pc = "idle" /\ p <= slots
    /\ QuarantineFile(Api, p)
    /\ UNCHANGED <<files, scanQueue, userVars, smbErrors>>

(***************************************************************************)
(* _smb_move, and _smb_copy_and_delete when it fails.  How the server      *)
(* reports a rename into another directory is up to it: as a new file, or  *)
(* as a rename, which is not scanned.                                      *)
(***************************************************************************)
MayBeScanned(p) == scanQueue' \in {scanQueue, scanQueue \cup {p}}

MoveFile(m) ==
    LET p == movers[m].path  q == movers[m].slot IN
    /\ movers[m].pc = "move"
    /\ \/ /\ files[p] # 0
          /\ files' = [files EXCEPT ![q] = files[p], ![p] = 0]
          /\ MayBeScanned(q) /\ MoverEnds(m) /\ SmbWorks
       \/ files[p] = 0 /\ MoverGoes(m, "retrieve") /\ SmbWorks /\ UNCHANGED <<files, scanQueue>>
       \/ MoverGoes(m, "retrieve") /\ SmbError /\ UNCHANGED <<files, scanQueue>>
    /\ UNCHANGED <<slots, userVars>>

RetrieveFile(m) ==
    LET p == movers[m].path IN
    /\ movers[m].pc = "retrieve"
    /\ \/ /\ files[p] # 0 /\ SmbWorks
          /\ movers' = [movers EXCEPT ![m].pc = "store", ![m].buffer = files[p]]
       \/ files[p] = 0 /\ MoverEnds(m) /\ SmbWorks
       \/ MoverEnds(m) /\ SmbError
    /\ UNCHANGED <<files, slots, scanQueue, userVars>>

\* Mutant of StoreCopy: a failed store does not keep the source.
StoreCopyUnchecked(m) ==
    LET q == movers[m].slot IN
    /\ movers[m].pc = "store"
    /\ \/ files' = [files EXCEPT ![q] = movers[m].buffer] /\ SmbWorks
       \/ files' = [files EXCEPT ![q] = Partial] /\ SmbError
    /\ MoverGoes(m, "delete")
    /\ scanQueue' = scanQueue \cup {q}
    /\ UNCHANGED <<slots, userVars>>

StoreCopy(m) ==
    LET q == movers[m].slot IN
    /\ movers[m].pc = "store"
    /\ \/ /\ files' = [files EXCEPT ![q] = movers[m].buffer]
          /\ MoverGoes(m, "delete") /\ SmbWorks
       \/ files' = [files EXCEPT ![q] = Partial] /\ MoverEnds(m) /\ SmbError
    /\ scanQueue' = scanQueue \cup {q}
    /\ UNCHANGED <<slots, userVars>>

\* Whatever is at the path by now goes; a failure leaves two copies.
DeleteSource(m) ==
    /\ movers[m].pc = "delete"
    /\ \/ files' = [files EXCEPT ![movers[m].path] = 0] /\ SmbWorks
       \/ UNCHANGED files /\ SmbError
    /\ MoverEnds(m)
    /\ UNCHANGED <<slots, scanQueue, userVars>>

BeingCopied(p) ==
    \E m \in Movers : movers[m].pc \in {"store", "delete"} /\ movers[m].path = p

\* restore_file, in one request: the server does not rename over a file.
RestoreFile(q) ==
    /\ movers[Api].pc = "idle" /\ q \in 1..slots
    /\ files[q] # 0 /\ files[0] = 0
    /\ files' = [files EXCEPT ![0] = files[q], ![q] = 0]
    /\ exposed' = IF BeingCopied(0) THEN exposed \cup {files[q]} ELSE exposed
    /\ MayBeScanned(0)
    /\ UNCHANGED <<slots, sensitive, movers, contents, removed, smbErrors>>

(***************************************************************************)
(* The users: they work on path 0.                                         *)
(***************************************************************************)
UserWrites ==
    /\ contents < MaxContents
    /\ contents' = contents + 1
    /\ files' = [files EXCEPT ![0] = contents + 1]
    /\ removed' = removed \cup {files[0]}
    /\ exposed' = IF BeingCopied(0) THEN exposed \cup {contents + 1} ELSE exposed
    /\ sensitive' \in {sensitive, sensitive \cup {contents + 1}}
    /\ scanQueue' = scanQueue \cup {0}
    /\ UNCHANGED <<slots, movers, smbErrors>>

UserDeletes ==
    /\ files[0] # 0
    /\ removed' = removed \cup {files[0]}
    /\ files' = [files EXCEPT ![0] = 0]
    /\ UNCHANGED <<slots, sensitive, scanQueue, movers, contents, exposed, smbErrors>>

NasQuarantineNext ==
    \/ \E w \in ScanWorkers, p \in Paths : ScanEvent(w, p)
    \/ \E p \in Paths : QuarantineByHand(p) \/ RestoreFile(p)
    \/ \E m \in Movers : MoveFile(m) \/ RetrieveFile(m) \/ StoreCopy(m) \/ DeleteSource(m)
    \/ UserWrites \/ UserDeletes

NasQuarantineSpec == NasQuarantineInit /\ [][NasQuarantineNext]_nasQuarantineVars

-----------------------------------------------------------------------------
(***************************************************************************)
(* Property.                                                               *)
(***************************************************************************)
\* Whatever threads quarantine, copy or restore at once and whichever request
\* fails, what a user wrote is still at some path, unless a user removed it or
\* put it where a thread that had read the file was about to delete it.
ContentKept ==
    \A c \in 1..contents :
        c \in removed \/ c \in exposed \/ \E p \in Paths : files[p] = c
=============================================================================
