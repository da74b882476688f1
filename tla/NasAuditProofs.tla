---------------------------- MODULE NasAuditProofs ----------------------------
(***************************************************************************)
(* Proofs of the properties of the two halves of nas-audit (src/71): for   *)
(* any files, notifier threads, changes and outages those of NasMonitor,   *)
(* for any scan workers, contents and failing requests those of            *)
(* NasQuarantine.                                                          *)
(***************************************************************************)
EXTENDS NasMonitor, NasQuarantine, TLAPS

(***************************************************************************)
(* NasMonitor.  With the types, StoredIsReported is inductive as it        *)
(* stands: every step that stores a listing either reports what differs    *)
(* from the one stored before, which was reported, or counts what it       *)
(* swallows as blind.                                                      *)
(***************************************************************************)
NasMonitorInv == NasMonitorTypeOK /\ StoredIsReported

-----------------------------------------------------------------------------
\* A listing of part of the share is a listing.
LEMMA ListingTypes ==
    ASSUME NasMonitorTypeOK
    PROVE  EmptyListing \in Listing /\ FullListing \in Listing /\ PartialListings \subseteq Listing
BY DEF NasMonitorTypeOK, EmptyListing, FullListing, PartialListings, Listing

\* The records notifier threads are given.
LEMMA NotifierTypes ==
    /\ NoNotifier \in Notifier
    /\ [NoNotifier EXCEPT !.pc = "wait"] \in Notifier
    /\ \A r \in Notifier : [r EXCEPT !.open = FALSE] \in Notifier
<1>1. EmptyListing \in Listing
  BY DEF EmptyListing, Listing
<1> QED BY <1>1 DEF NoNotifier, Notifier

\* Later is the larger of two listings, file by file.
LEMMA LaterListing ==
    ASSUME NEW a \in Listing, NEW b \in Listing
    PROVE  /\ Later(a, b) \in Listing
           /\ \A f \in NasFiles : a[f] <= Later(a, b)[f] /\ b[f] <= Later(a, b)[f]
BY DEF Later, Listing

\* Whatever is stored by comparing is reported or counted as blind.
LEMMA ComparedIsReported ==
    ASSUME NasMonitorInv, NEW current \in Listing, CompareAndStore(current)
    PROVE  /\ emitted' \in Listing /\ blind' \subseteq NasFiles
           /\ lastSnapshot' \in Listing /\ savedSnapshot' \in Listing
           /\ StoredIsReported'
<1> USE DEF NasMonitorInv, NasMonitorTypeOK
<1>1. lastSnapshot' = current /\ savedSnapshot' = current
  BY DEF CompareAndStore
<1>2. CASE lastSnapshot # EmptyListing /\ current # EmptyListing
  <2> DEFINE missed == [f \in NasFiles |->
                          IF current[f] # lastSnapshot[f] THEN current[f] ELSE 0]
  <2>1. emitted' = Later(emitted, missed) /\ blind' = blind
    BY <1>2 DEF CompareAndStore
  <2>2. missed \in Listing
    BY DEF Listing
  <2>3. /\ emitted' \in Listing
        /\ \A f \in NasFiles : emitted[f] <= emitted'[f] /\ missed[f] <= emitted'[f]
    BY <2>1, <2>2, LaterListing
  <2>4. ASSUME NEW f \in NasFiles, f \notin blind
        PROVE  current[f] <= emitted'[f]
    <3>1. CASE current[f] # lastSnapshot[f]
      BY <2>3, <3>1
    <3>2. CASE current[f] = lastSnapshot[f]
      <4>1. lastSnapshot[f] <= emitted[f]
        BY <2>4 DEF StoredIsReported
      <4> QED BY <2>3, <3>2, <4>1 DEF Listing
    <3> QED BY <3>1, <3>2
  <2> QED BY <1>1, <2>1, <2>3, <2>4 DEF StoredIsReported
<1>3. CASE ~(lastSnapshot # EmptyListing /\ current # EmptyListing)
  <2>1. /\ emitted' = emitted
        /\ blind' = blind \cup {f \in NasFiles : current[f] > emitted[f]}
    BY <1>3 DEF CompareAndStore
  <2> QED BY <1>1, <2>1 DEF StoredIsReported, Listing
<1> QED BY <1>2, <1>3

-----------------------------------------------------------------------------
LEMMA NasMonitorInitInv == NasMonitorInit => NasMonitorInv
<1> SUFFICES ASSUME NasMonitorInit PROVE NasMonitorInv
  OBVIOUS
<1>1. EmptyListing \in Listing /\ share \in Listing
  BY DEF NasMonitorInit, EmptyListing, Listing
<1>3. mon \in Mon
  BY <1>1 DEF NasMonitorInit, Mon
<1>4. notifiers \in [NotifierIds -> Notifier]
  BY NotifierTypes DEF NasMonitorInit
<1>5. handleOwner \in 0..MaxNotifiers
  BY NasMonitorAssumption DEF NasMonitorInit
<1>6. NasMonitorTypeOK
  BY <1>1, <1>3, <1>4, <1>5 DEF NasMonitorInit, NasMonitorTypeOK
<1>2. StoredIsReported
  BY DEF NasMonitorInit, StoredIsReported, EmptyListing
<1> QED BY <1>2, <1>6 DEF NasMonitorInv

LEMMA NasMonitorStep ==
    ASSUME NasMonitorInv, [NasMonitorNext]_nasMonitorVars
    PROVE  NasMonitorInv'
<1> USE DEF NasMonitorInv, nasStoreVars
<1>0. /\ NasMonitorTypeOK
      /\ EmptyListing \in Listing /\ FullListing \in Listing
      /\ PartialListings \subseteq Listing
  BY ListingTypes
<1>a. ASSUME UNCHANGED <<lastSnapshot, savedSnapshot, emitted, blind>>
      PROVE  StoredIsReported'
  BY <1>a DEF StoredIsReported
<1>1. ASSUME StartMonitor PROVE NasMonitorInv'
  <2>1. NasMonitorTypeOK'
    BY <1>1 DEF StartMonitor, Outage, MonGoes, NasMonitorTypeOK, Mon
  <2>2. StoredIsReported'
    BY <1>1 DEF StartMonitor, StoredIsReported
  <2> QED BY <2>1, <2>2
<1>2. ASSUME TakeSnapshot("startList", "startStore") \/ TakeSnapshot("list", "store")
      PROVE  NasMonitorInv'
  <2>1. mon' \in Mon /\ outages' \in Nat
    BY <1>0, <1>2 DEF TakeSnapshot, Outage, NasMonitorTypeOK, Mon
  <2> QED BY <1>2, <1>a, <2>1 DEF TakeSnapshot, NasMonitorTypeOK
<1>3. ASSUME StartThreads PROVE NasMonitorInv'
  <2>1. mon.current \in Listing
    BY DEF NasMonitorTypeOK, Mon
  <2>2. notifiers' \in [NotifierIds -> Notifier]
    BY <1>3, NotifierTypes DEF StartThreads, NewNotifier, NasMonitorTypeOK
  <2>3. mon' \in Mon
    BY <1>3 DEF StartThreads, MonGoes, Mon, NasMonitorTypeOK
  <2> QED
    BY <1>3, <2>1, <2>2, <2>3, ComparedIsReported DEF StartThreads, NasMonitorTypeOK
<1>4. ASSUME CatchUp PROVE NasMonitorInv'
  <2>1. mon.current \in Listing
    BY DEF NasMonitorTypeOK, Mon
  <2>2. mon' \in Mon
    BY <1>4 DEF CatchUp, MonGoes, Mon, NasMonitorTypeOK
  <2> QED BY <1>4, <2>1, <2>2, ComparedIsReported DEF CatchUp, NasMonitorTypeOK
<1>5. ASSUME NEW n \in NotifierIds, OpenDirectory(n) PROVE NasMonitorInv'
  <2>1. notifiers' \in [NotifierIds -> Notifier] /\ handleOwner' \in 0..MaxNotifiers
    BY <1>0, <1>5, NasMonitorAssumption
       DEF OpenDirectory, Notifier, NotifierIds, NasMonitorTypeOK
  <2> QED BY <1>5, <1>a, <2>1 DEF OpenDirectory, NasMonitorTypeOK
<1>6. ASSUME NEW n \in NotifierIds, NotifyReturns(n) PROVE NasMonitorInv'
  <2>1. notifiers[n].got \in Listing /\ emitted \in Listing
    BY DEF NasMonitorTypeOK, Notifier
  <2>2. /\ emitted' \in Listing
        /\ \A f \in NasFiles : emitted[f] <= emitted'[f]
    BY <1>6, <2>1, LaterListing DEF NotifyReturns
  <2>3. notifiers' \in [NotifierIds -> Notifier]
    BY <1>0, <1>6 DEF NotifyReturns, Notifier, NasMonitorTypeOK
  <2>4. NasMonitorTypeOK'
    BY <1>6, <2>2, <2>3 DEF NotifyReturns, NasMonitorTypeOK
  <2>5. StoredIsReported'
    BY <1>6, <2>2 DEF NotifyReturns, StoredIsReported, NasMonitorTypeOK, Listing
  <2> QED BY <2>4, <2>5
<1>7. ASSUME NEW n \in NotifierIds, ConnectionLost(n) \/ LeaveNotifyLoop(n)
      PROVE  NasMonitorInv'
  <2>1. notifiers' \in [NotifierIds -> Notifier] /\ handleOwner' \in 0..MaxNotifiers
    <3>1. CloseFiledHandle(n)
      BY <1>7 DEF ConnectionLost, LeaveNotifyLoop
    <3> QED
      BY <3>1, NotifierTypes, NasMonitorAssumption DEF CloseFiledHandle, NasMonitorTypeOK
  <2> QED BY <1>7, <1>a, <2>1 DEF ConnectionLost, LeaveNotifyLoop, NasMonitorTypeOK
<1>8. ASSUME Disconnect PROVE NasMonitorInv'
  <2>1. /\ notifiers' \in [NotifierIds -> Notifier] /\ handleOwner' \in 0..MaxNotifiers
        /\ mon' \in Mon
    <3>1. mon' \in Mon
      BY <1>8 DEF Disconnect, MonGoes, Mon, NasMonitorTypeOK
    <3> QED
      BY <1>8, <3>1, NotifierTypes, NasMonitorAssumption DEF Disconnect, NasMonitorTypeOK
  <2> QED BY <1>8, <1>a, <2>1 DEF Disconnect, NasMonitorTypeOK
<1>9. ASSUME Connect \/ ConnectProtocol PROVE NasMonitorInv'
  <2>1. mon' \in Mon
    BY <1>9 DEF Connect, ConnectProtocol, MonGoes, Mon, NasMonitorTypeOK
  <2> QED BY <1>9, <1>a, <2>1 DEF Connect, ConnectProtocol, NasMonitorTypeOK
<1>10. ASSUME RestartThreads PROVE NasMonitorInv'
  <2>1. notifiers' \in [NotifierIds -> Notifier] /\ mon' \in Mon
    <3>1. mon' \in Mon
      BY <1>10 DEF RestartThreads, MonGoes, Mon, NasMonitorTypeOK
    <3> QED BY <1>10, <3>1, NotifierTypes DEF RestartThreads, NewNotifier, NasMonitorTypeOK
  <2> QED BY <1>10, <1>a, <2>1 DEF RestartThreads, NasMonitorTypeOK
<1>11. ASSUME ProcessEnds
       PROVE  /\ notifiers' \in [NotifierIds -> Notifier] /\ handleOwner' \in 0..MaxNotifiers
              /\ session' \in Nat /\ smbConnected' \in BOOLEAN /\ mon' \in Mon
  <2>1. mon' \in Mon
    BY <1>0, <1>11 DEF ProcessEnds, Mon
  <2>2. notifiers' \in [NotifierIds -> Notifier]
    BY <1>11, NotifierTypes DEF ProcessEnds
  <2>3. handleOwner' \in 0..MaxNotifiers
    BY <1>11, NasMonitorAssumption DEF ProcessEnds
  <2> QED BY <1>11, <2>1, <2>2, <2>3 DEF ProcessEnds
<1>12. ASSUME StopMonitor PROVE NasMonitorInv'
  <2>1. PICK current \in Listing :
            IF current # EmptyListing
            THEN /\ blind' = blind \cup {f \in NasFiles : current[f] > emitted[f]}
                 /\ lastSnapshot' = current /\ savedSnapshot' = current
            ELSE savedSnapshot' = lastSnapshot /\ UNCHANGED <<blind, lastSnapshot>>
    BY <1>0, <1>12 DEF StopMonitor
  <2>2. NasMonitorTypeOK'
    BY <1>11, <1>12, <2>1 DEF StopMonitor, Outage, NasMonitorTypeOK
  <2>3. StoredIsReported'
    BY <1>12, <2>1 DEF StopMonitor, StoredIsReported, NasMonitorTypeOK, Listing
  <2> QED BY <2>2, <2>3
<1>13. ASSUME CrashMonitor PROVE NasMonitorInv'
  <2>1. NasMonitorTypeOK'
    BY <1>0, <1>11, <1>13 DEF CrashMonitor, Outage, NasMonitorTypeOK
  <2>2. StoredIsReported'
    BY <1>13 DEF CrashMonitor, StoredIsReported, EmptyListing, NasMonitorTypeOK, Listing
  <2> QED BY <2>1, <2>2
<1>14. ASSUME NEW f \in NasFiles, ChangeFile(f) PROVE NasMonitorInv'
  <2>1. share' \in Listing
    BY <1>14 DEF ChangeFile, Listing, NasMonitorTypeOK
  <2>2. notifiers' \in [NotifierIds -> Notifier]
    <3>1. ASSUME NEW n \in NotifierIds
          PROVE  [notifiers[n] EXCEPT !.got[f] = share[f] + 1] \in Notifier
      <4>1. notifiers[n] \in Notifier /\ notifiers[n].got \in Listing
        BY DEF Notifier, NasMonitorTypeOK
      <4>2. [notifiers[n].got EXCEPT ![f] = share[f] + 1] \in Listing
        BY <4>1 DEF Listing, NasMonitorTypeOK
      <4> QED BY <4>1, <4>2 DEF Notifier
    <3> QED BY <1>14, <3>1 DEF ChangeFile, NasMonitorTypeOK
  <2> QED BY <1>14, <1>a, <2>1, <2>2 DEF ChangeFile, NasMonitorTypeOK
<1>15. ASSUME NasDown \/ NasUp PROVE NasMonitorInv'
  <2>1. CASE NasDown
    <3>1. outages' \in Nat
      BY <2>1 DEF NasDown, Outage, NasMonitorTypeOK
    <3> QED BY <1>a, <2>1, <3>1 DEF NasDown, NasMonitorTypeOK
  <2>2. CASE NasUp
    BY <1>a, <2>2 DEF NasUp, NasMonitorTypeOK
  <2> QED BY <1>15, <2>1, <2>2
<1>16. ASSUME UNCHANGED nasMonitorVars PROVE NasMonitorInv'
  BY <1>16, <1>a DEF nasMonitorVars, NasMonitorTypeOK
<1> QED
  BY <1>1, <1>2, <1>3, <1>4, <1>5, <1>6, <1>7, <1>8, <1>9, <1>10, <1>12, <1>13, <1>14,
     <1>15, <1>16
     DEF NasMonitorNext

-----------------------------------------------------------------------------
\* NasMonitorInv holds in every state of the monitor.
THEOREM NasMonitorInvariant == NasMonitorSpec => []NasMonitorInv
BY NasMonitorInitInv, NasMonitorStep, PTL DEF NasMonitorSpec

\* The variables keep their types, whatever outages and crashes there are.
THEOREM NasMonitorTypeCorrect == NasMonitorSpec => []NasMonitorTypeOK
<1>1. NasMonitorInv => NasMonitorTypeOK
  BY DEF NasMonitorInv
<1> QED BY <1>1, NasMonitorInvariant, PTL

\* No listing is ever stored over a change that was neither reported nor
\* swallowed by a store without comparison: the next catch-up would find it.
THEOREM StoredReported == NasMonitorSpec => []StoredIsReported
<1>1. NasMonitorInv => StoredIsReported
  BY DEF NasMonitorInv
<1> QED BY <1>1, NasMonitorInvariant, PTL

-----------------------------------------------------------------------------
(***************************************************************************)
(* NasQuarantine.  ContentKept is not inductive: the copy that is left may *)
(* be the one a thread deletes next.  SafeCopy asks for a copy no thread   *)
(* is about to delete; the other parts say why the copy a thread stores    *)
(* before it deletes is such a copy: the name it stores under is its own,  *)
(* is empty, and is not one that another thread has read.                  *)
(***************************************************************************)
Filling(m) == movers[m].pc \in {"move", "retrieve", "store"}
Copying(m) == movers[m].pc \in {"store", "delete"}

\* Paths in use are the user's and the names handed out so far.
InUse ==
    /\ \A p \in Paths : p > slots => files[p] = 0
    /\ scanQueue \subseteq 0..slots
    /\ \A m \in Movers : movers[m].pc # "idle" =>
           movers[m].path \in 0..slots /\ movers[m].slot \in 1..slots

\* The name a thread is to fill is empty, and only its own.
OwnSlot ==
    \A m \in Movers : Filling(m) =>
        /\ files[movers[m].slot] = 0
        /\ \A n \in Movers \ {m} : Filling(n) => movers[n].slot # movers[m].slot
        /\ \A n \in Movers : Copying(n) => movers[n].path # movers[m].slot

\* What is at the path a thread has read is what it has read, or came later.
HasRead ==
    \A m \in Movers : movers[m].pc = "store" =>
        files[movers[m].path] \in {0, movers[m].buffer} \cup exposed

SafeCopy ==
    \A c \in 1..contents :
        \/ c \in removed \cup exposed
        \/ \E p \in Paths :
              /\ files[p] = c
              /\ \A m \in Movers : movers[m].pc = "delete" => movers[m].path # p

NasQuarantineInv == NasQuarantineTypeOK /\ InUse /\ OwnSlot /\ HasRead /\ SafeCopy

-----------------------------------------------------------------------------
LEMMA NasQuarantineInitInv == NasQuarantineInit => NasQuarantineInv
<1> SUFFICES ASSUME NasQuarantineInit PROVE NasQuarantineInv
  OBVIOUS
<1>1. NasQuarantineTypeOK
  BY NasQuarantineAssumption
     DEF NasQuarantineInit, NasQuarantineTypeOK, Paths, Mover, IdleMover
<1>2. InUse /\ OwnSlot /\ HasRead /\ SafeCopy
  BY DEF NasQuarantineInit, InUse, OwnSlot, HasRead, SafeCopy, Filling, Copying, IdleMover
<1> QED BY <1>1, <1>2 DEF NasQuarantineInv

\* The records threads are given.
LEMMA MoverTypes ==
    /\ IdleMover \in Mover
    /\ \A r \in Mover : \A pc \in {"move", "retrieve", "store", "delete"} :
           [r EXCEPT !.pc = pc] \in Mover
    /\ \A r \in Mover : \A x \in Int :
           [r EXCEPT !.pc = "store", !.buffer = x] \in Mover
<1>1. 0 \in Paths
  BY NasQuarantineAssumption DEF Paths
<1>2. IdleMover \in Mover
  BY <1>1 DEF Mover, IdleMover
<1>3. ASSUME NEW r \in Mover, NEW pc \in {"move", "retrieve", "store", "delete"}
      PROVE  [r EXCEPT !.pc = pc] \in Mover
  BY DEF Mover
<1>4. ASSUME NEW r \in Mover, NEW x \in Int
      PROVE  [r EXCEPT !.pc = "store", !.buffer = x] \in Mover
  BY DEF Mover
<1> QED BY <1>2, <1>3, <1>4

-----------------------------------------------------------------------------
LEMMA QuarantineFileInv ==
    ASSUME NasQuarantineInv, NEW m \in Movers, NEW p \in 0..slots,
           movers[m].pc = "idle", QuarantineFile(m, p),
           UNCHANGED <<files, userVars>>, scanQueue' \subseteq scanQueue,
           smbErrors' = smbErrors
    PROVE  NasQuarantineInv'
<1> USE DEF NasQuarantineInv, userVars
<1>1. /\ slots' \in Paths /\ slots \in Nat /\ slots' = slots + 1
      /\ slots' \in Paths /\ p \in Paths
  BY NasQuarantineAssumption DEF QuarantineFile, NasQuarantineTypeOK, Paths
<1>2. movers' = [movers EXCEPT ![m] =
          [pc |-> "move", path |-> p, slot |-> slots + 1, buffer |-> 0]]
  BY DEF QuarantineFile
<1>3. NasQuarantineTypeOK'
  BY <1>1, <1>2 DEF NasQuarantineTypeOK, Mover
<1>4. InUse'
  BY <1>1, <1>2 DEF InUse, NasQuarantineTypeOK, Paths
<1>5. OwnSlot'
  BY <1>1, <1>2 DEF OwnSlot, InUse, Filling, Copying, NasQuarantineTypeOK, Paths
<1>6. HasRead'
  BY <1>2 DEF HasRead, NasQuarantineTypeOK
<1>7. SafeCopy'
  BY <1>2 DEF SafeCopy, NasQuarantineTypeOK
<1> QED BY <1>3, <1>4, <1>5, <1>6, <1>7

\* A thread that gives up leaves everything as it is.
LEMMA GiveUpInv ==
    ASSUME NasQuarantineInv, NEW m \in Movers,
           \/ MoverEnds(m) /\ movers[m].pc # "delete"
           \/ MoverGoes(m, "retrieve") /\ Filling(m) /\ ~Copying(m),
           UNCHANGED <<files, slots, scanQueue, userVars>>, smbErrors' \in Nat
    PROVE  NasQuarantineInv'
<1> USE DEF NasQuarantineInv, userVars
<1>1. NasQuarantineTypeOK'
  BY MoverTypes DEF NasQuarantineTypeOK, MoverEnds, MoverGoes
<1>2. InUse'
  BY DEF InUse, NasQuarantineTypeOK, MoverEnds, MoverGoes, IdleMover, Mover, Filling
<1>3. OwnSlot'
  BY DEF OwnSlot, Filling, Copying, NasQuarantineTypeOK, MoverEnds, MoverGoes, IdleMover, Mover
<1>4. HasRead'
  BY DEF HasRead, NasQuarantineTypeOK, MoverEnds, MoverGoes, IdleMover, Mover
<1>5. SafeCopy'
  BY DEF SafeCopy, NasQuarantineTypeOK, MoverEnds, MoverGoes, IdleMover, Mover
<1> QED BY <1>1, <1>2, <1>3, <1>4, <1>5

LEMMA ScanInv ==
    ASSUME NasQuarantineInv, NEW w \in ScanWorkers, NEW p \in Paths, ScanEvent(w, p)
    PROVE  NasQuarantineInv'
<1> USE DEF NasQuarantineInv
<1>1. w \in Movers /\ p \in 0..slots
  BY DEF Movers, ScanEvent, InUse
<1>2. CASE QuarantineFile(w, p) /\ SmbWorks
  BY <1>1, <1>2, QuarantineFileInv DEF ScanEvent, SmbWorks
<1>3. CASE UNCHANGED <<slots, movers>>
  BY <1>3 DEF ScanEvent, SmbError, SmbWorks, userVars, NasQuarantineTypeOK, InUse, OwnSlot,
              HasRead, SafeCopy, Filling, Copying
<1> QED BY <1>2, <1>3 DEF ScanEvent

LEMMA MoveInv ==
    ASSUME NasQuarantineInv, NEW m \in Movers, MoveFile(m)
    PROVE  NasQuarantineInv'
<1> USE DEF NasQuarantineInv, userVars
<1> DEFINE p == movers[m].path
           q == movers[m].slot
<1>1. CASE /\ files[p] # 0
           /\ files' = [files EXCEPT ![q] = files[p], ![p] = 0]
           /\ MayBeScanned(q) /\ MoverEnds(m) /\ SmbWorks
  <2>1. /\ p \in 0..slots /\ q \in 1..slots /\ p \in Paths /\ q \in Paths
        /\ files[q] = 0 /\ p # q /\ Filling(m) /\ movers[m].pc # "delete"
    <3>1. movers[m].pc = "move" /\ Filling(m)
      BY DEF MoveFile, Filling
    <3>2. p \in 0..slots /\ q \in 1..slots /\ p \in Paths /\ q \in Paths
      BY <3>1 DEF InUse, NasQuarantineTypeOK, Mover
    <3> QED BY <1>1, <3>1, <3>2 DEF OwnSlot
  <2>2. NasQuarantineTypeOK'
    BY <1>1, <2>1, MoverTypes
       DEF MoveFile, NasQuarantineTypeOK, MayBeScanned, MoverEnds, SmbWorks
  <2>3. InUse'
    BY <1>1, <2>1
       DEF MoveFile, InUse, NasQuarantineTypeOK, MayBeScanned, MoverEnds, IdleMover, Paths
  <2>4. /\ \A n \in Movers : n # m => movers'[n] = movers[n]
        /\ movers'[m].pc = "idle"
    BY <1>1 DEF MoverEnds, IdleMover, NasQuarantineTypeOK
  <2>5. /\ \A x \in Paths : x # q /\ x # p => files'[x] = files[x]
        /\ files'[p] = 0 /\ files'[q] = files[p]
    BY <1>1, <2>1 DEF NasQuarantineTypeOK
  <2>6. OwnSlot'
    <3>1. \A n \in Movers : Filling(n) /\ n # m =>
              movers[n].slot \in Paths /\ movers[n].slot # q
      BY <2>1 DEF OwnSlot, NasQuarantineTypeOK, Mover
    <3>2. \A n \in Movers : /\ Filling(n)' => Filling(n) /\ n # m
                            /\ Copying(n)' => Copying(n) /\ n # m
      BY <2>4 DEF Filling, Copying
    <3>3. \A n \in Movers : Filling(n)' => files'[movers'[n].slot] = 0
      BY <2>4, <2>5, <3>1, <3>2 DEF OwnSlot
    <3> QED BY <2>4, <3>2, <3>3 DEF OwnSlot
  <2>7. HasRead'
    <3>1. \A n \in Movers : movers'[n].pc = "store" =>
              n # m /\ movers[n].path # q /\ movers[n].path \in Paths
      BY <2>1, <2>4 DEF OwnSlot, Copying, NasQuarantineTypeOK, Mover
    <3> QED BY <2>4, <2>5, <3>1 DEF HasRead, MoveFile
  <2>8. SafeCopy'
    <3>1. \A n \in Movers : movers'[n].pc = "delete" =>
              n # m /\ movers'[n] = movers[n] /\ movers[n].path # q
      BY <2>1, <2>4 DEF OwnSlot, Copying
    <3>2. ASSUME NEW c \in 1..contents, NEW x \in Paths, files[x] = c,
                 \A n \in Movers : movers[n].pc = "delete" => movers[n].path # x
          PROVE  \E y \in Paths :
                    /\ files'[y] = c
                    /\ \A n \in Movers : movers'[n].pc = "delete" => movers'[n].path # y
      <4>1. x # q
        BY <2>1, <3>2 DEF NasQuarantineTypeOK
      <4>2. CASE x = p
        BY <2>1, <2>5, <3>1, <3>2, <4>2
      <4>3. CASE x # p
        BY <2>5, <3>1, <3>2, <4>1, <4>3
      <4> QED BY <4>2, <4>3
    <3> QED BY <3>2 DEF SafeCopy, MoveFile
  <2> QED BY <2>2, <2>3, <2>6, <2>7, <2>8
<1>2. CASE MoverGoes(m, "retrieve") /\ UNCHANGED <<files, scanQueue>> /\ smbErrors' \in Nat
  BY <1>2, GiveUpInv DEF MoveFile, Filling, Copying
<1> QED BY <1>1, <1>2 DEF MoveFile, SmbError, SmbWorks, NasQuarantineTypeOK

LEMMA RetrieveInv ==
    ASSUME NasQuarantineInv, NEW m \in Movers, RetrieveFile(m)
    PROVE  NasQuarantineInv'
<1> USE DEF NasQuarantineInv, userVars
<1>1. CASE /\ files[movers[m].path] # 0 /\ SmbWorks
           /\ movers' = [movers EXCEPT ![m].pc = "store",
                                       ![m].buffer = files[movers[m].path]]
  <2>1. /\ movers[m] \in Mover /\ movers[m].path \in Paths
        /\ files[movers[m].path] \in Int
    BY DEF NasQuarantineTypeOK, Mover
  <2>2. movers' = [movers EXCEPT ![m] = [movers[m] EXCEPT !.pc = "store",
                                             !.buffer = files[movers[m].path]]]
    BY <1>1 DEF NasQuarantineTypeOK
  <2>3. NasQuarantineTypeOK'
    <3>1. [movers[m] EXCEPT !.pc = "store", !.buffer = files[movers[m].path]] \in Mover
      BY <2>1, MoverTypes
    <3>2. movers' \in [Movers -> Mover]
      BY <2>2, <3>1 DEF NasQuarantineTypeOK
    <3> QED BY <1>1, <3>2 DEF RetrieveFile, NasQuarantineTypeOK, SmbWorks
  <2>4. /\ \A n \in Movers : n # m => movers'[n] = movers[n]
        /\ movers'[m].pc = "store" /\ movers'[m].path = movers[m].path
        /\ movers'[m].slot = movers[m].slot
        /\ movers'[m].buffer = files[movers[m].path]
        /\ movers[m].pc = "retrieve" /\ UNCHANGED <<files, slots, scanQueue, userVars>>
    BY <1>1, <2>1, <2>2 DEF RetrieveFile, NasQuarantineTypeOK, Mover
  <2>5. InUse'
    BY <2>4 DEF InUse
  <2>6. OwnSlot'
    <3>1. \A n \in Movers : Filling(n) => movers[n].slot # movers[m].path
      BY <1>1 DEF OwnSlot
    <3> QED BY <2>4, <3>1 DEF OwnSlot, Filling, Copying
  <2>7. HasRead'
    BY <2>4 DEF HasRead
  <2>8. SafeCopy'
    BY <2>4 DEF SafeCopy
  <2> QED BY <2>3, <2>5, <2>6, <2>7, <2>8
<1>2. CASE MoverEnds(m) /\ smbErrors' \in Nat
  BY <1>2, GiveUpInv DEF RetrieveFile
<1> QED BY <1>1, <1>2 DEF RetrieveFile, SmbError, SmbWorks, NasQuarantineTypeOK

LEMMA StoreInv ==
    ASSUME NasQuarantineInv, NEW m \in Movers, StoreCopy(m)
    PROVE  NasQuarantineInv'
<1> USE DEF NasQuarantineInv, userVars
<1> DEFINE q == movers[m].slot
           stored == files'[q]
<1>1. /\ movers[m] \in Mover /\ q \in 1..slots /\ q \in Paths /\ files[q] = 0
      /\ Filling(m) /\ Copying(m) /\ movers[m].pc = "store"
      /\ movers[m].path \in Paths /\ movers[m].path # q /\ movers[m].buffer \in Int
      /\ \A n \in Movers : Copying(n) => movers[n].path # q
      /\ \A n \in Movers : n # m /\ Filling(n) => movers[n].slot # q
  BY DEF StoreCopy, InUse, OwnSlot, Filling, Copying, NasQuarantineTypeOK, Mover
<1>2. /\ stored \in Int /\ files' = [files EXCEPT ![q] = stored]
      /\ movers'[m].pc = "delete" => stored = movers[m].buffer
  BY <1>1 DEF StoreCopy, Partial, MoverGoes, MoverEnds, IdleMover, NasQuarantineTypeOK
<1>3. /\ \A n \in Movers : n # m => movers'[n] = movers[n]
      /\ \/ movers'[m].pc = "idle"
         \/ /\ movers'[m].pc = "delete" /\ movers'[m].path = movers[m].path
            /\ movers'[m].slot = q
      /\ movers' \in [Movers -> Mover]
  <2>1. CASE MoverGoes(m, "delete")
    <3>1. [movers[m] EXCEPT !.pc = "delete"] \in Mover
      BY <1>1, MoverTypes
    <3>2. movers' = [movers EXCEPT ![m] = [movers[m] EXCEPT !.pc = "delete"]]
      BY <2>1 DEF MoverGoes, NasQuarantineTypeOK
    <3> QED BY <1>1, <3>1, <3>2 DEF NasQuarantineTypeOK, Mover
  <2>2. CASE MoverEnds(m)
    BY <2>2, MoverTypes DEF MoverEnds, IdleMover, NasQuarantineTypeOK
  <2> QED BY <2>1, <2>2 DEF StoreCopy
<1>4. /\ scanQueue' = scanQueue \cup {q} /\ UNCHANGED <<slots, userVars>>
      /\ smbErrors' \in Nat
  BY DEF StoreCopy, SmbError, SmbWorks, NasQuarantineTypeOK
<1>5. NasQuarantineTypeOK'
  BY <1>1, <1>2, <1>3, <1>4 DEF NasQuarantineTypeOK
<1>6. InUse'
  <2>1. \A x \in Paths : x > slots => files'[x] = 0
    <3>1. slots \in Int /\ \A x \in Paths : x \in Int
      BY NasQuarantineAssumption DEF NasQuarantineTypeOK, Paths
    <3>2. \A x \in Paths : x > slots => x # q
      BY <1>1, <3>1
    <3> QED BY <1>2, <3>2 DEF InUse, NasQuarantineTypeOK
  <2>2. scanQueue' \subseteq 0..slots
    <3>1. slots \in Int
      BY NasQuarantineAssumption DEF NasQuarantineTypeOK, Paths
    <3>2. q \in 0..slots
      BY <1>1, <3>1
    <3> QED BY <1>4, <3>2 DEF InUse
  <2>3. movers[m].path \in 0..slots
    BY <1>1 DEF InUse
  <2>4. \A n \in Movers : movers'[n].pc # "idle" =>
            movers'[n].path \in 0..slots /\ movers'[n].slot \in 1..slots
    BY <1>1, <1>3, <2>3 DEF InUse
  <2> QED BY <1>4, <2>1, <2>2, <2>4 DEF InUse
<1>7. /\ \A x \in Paths : x # q => files'[x] = files[x]
      /\ \A n \in Movers : Filling(n)' => Filling(n) /\ n # m
      /\ \A n \in Movers : Copying(n)' => Copying(n) /\ movers'[n].path = movers[n].path
  BY <1>1, <1>2, <1>3 DEF Filling, Copying, NasQuarantineTypeOK
<1>8. OwnSlot'
  <2>1. \A n \in Movers : movers[n].slot \in Paths
    BY DEF NasQuarantineTypeOK, Mover
  <2> QED BY <1>1, <1>3, <1>7, <2>1 DEF OwnSlot
<1>9. HasRead'
  <2>1. \A n \in Movers : movers'[n].pc = "store" =>
            n # m /\ movers[n].path # q /\ movers[n].path \in Paths
    BY <1>1, <1>3 DEF Copying, NasQuarantineTypeOK, Mover
  <2> QED BY <1>3, <1>4, <1>7, <2>1 DEF HasRead
<1>10. SafeCopy'
  <2>1. \A n \in Movers : movers'[n].pc = "delete" => movers'[n].path # q
    BY <1>1, <1>3 DEF Copying
  <2>2. ASSUME NEW c \in 1..contents, c \notin exposed, NEW x \in Paths, files[x] = c,
               \A n \in Movers : movers[n].pc = "delete" => movers[n].path # x
        PROVE  \E y \in Paths :
                  /\ files'[y] = c
                  /\ \A n \in Movers : movers'[n].pc = "delete" => movers'[n].path # y
    <3>1. x # q /\ files'[x] = c
      BY <1>1, <1>7, <2>2 DEF NasQuarantineTypeOK
    <3>2. CASE movers'[m].pc = "delete" /\ movers[m].path = x
      <4>1. movers[m].buffer = c
        BY <1>1, <2>2, <3>2 DEF HasRead, NasQuarantineTypeOK
      <4> QED BY <1>1, <1>2, <2>1, <3>2, <4>1
    <3>3. CASE ~(movers'[m].pc = "delete" /\ movers[m].path = x)
      BY <1>3, <2>2, <3>1, <3>3
    <3> QED BY <3>2, <3>3
  <2> QED BY <1>4, <2>2 DEF SafeCopy
<1> QED BY <1>5, <1>6, <1>8, <1>9, <1>10

LEMMA DeleteInv ==
    ASSUME NasQuarantineInv, NEW m \in Movers, DeleteSource(m)
    PROVE  NasQuarantineInv'
<1> USE DEF NasQuarantineInv, userVars
<1> DEFINE p == movers[m].path
<1>1. /\ movers[m].pc = "delete" /\ p \in Paths /\ p \in 0..slots
      /\ files' \in [Paths -> Int] /\ files'[p] \in {0, files[p]}
      /\ \A x \in Paths : x # p => files'[x] = files[x]
  BY DEF DeleteSource, InUse, NasQuarantineTypeOK, Mover
<1>2. /\ \A n \in Movers : n # m => movers'[n] = movers[n]
      /\ movers'[m].pc = "idle"
      /\ UNCHANGED <<slots, scanQueue, userVars>>
  BY DEF DeleteSource, MoverEnds, IdleMover, NasQuarantineTypeOK
<1>3. NasQuarantineTypeOK'
  <2>1. movers' \in [Movers -> Mover]
    BY MoverTypes DEF DeleteSource, NasQuarantineTypeOK, MoverEnds
  <2>2. smbErrors' \in Nat
    BY DEF DeleteSource, NasQuarantineTypeOK, SmbError, SmbWorks
  <2> QED BY <1>1, <1>2, <2>1, <2>2 DEF NasQuarantineTypeOK
<1>4. InUse'
  BY <1>1, <1>2 DEF InUse
<1>5. OwnSlot'
  <2>1. \A n \in Movers : movers[n].slot \in Paths
    BY DEF NasQuarantineTypeOK, Mover
  <2>2. \A n \in Movers : /\ Filling(n)' => Filling(n) /\ n # m
                          /\ Copying(n)' => Copying(n) /\ n # m
    BY <1>2 DEF Filling, Copying
  <2>3. \A n \in Movers : Filling(n)' => files'[movers'[n].slot] = 0
    BY <1>1, <1>2, <2>1, <2>2 DEF OwnSlot
  <2> QED BY <1>2, <2>2, <2>3 DEF OwnSlot
<1>6. HasRead'
  <2>1. \A n \in Movers : movers[n].path \in Paths
    BY DEF NasQuarantineTypeOK, Mover
  <2> QED BY <1>1, <1>2, <2>1 DEF HasRead
<1>7. SafeCopy'
  BY <1>1, <1>2 DEF SafeCopy
<1> QED BY <1>3, <1>4, <1>5, <1>6, <1>7

\* A content that appears at the user's path, by a write or a restore, puts at
\* risk only what `exposed` then names.
LEMMA RestoreInv ==
    ASSUME NasQuarantineInv, NEW q \in Paths, RestoreFile(q)
    PROVE  NasQuarantineInv'
<1> USE DEF NasQuarantineInv
<1>1. /\ q \in 1..slots /\ q # 0 /\ 0 \in Paths /\ files[0] = 0 /\ files[q] # 0
      /\ files' = [files EXCEPT ![0] = files[q], ![q] = 0]
      /\ UNCHANGED <<slots, sensitive, movers, contents, removed, smbErrors>>
      /\ exposed' = IF BeingCopied(0) THEN exposed \cup {files[q]} ELSE exposed
      /\ scanQueue' \subseteq scanQueue \cup {0}
  BY NasQuarantineAssumption DEF RestoreFile, MayBeScanned, Paths
<1>2. /\ files'[0] = files[q] /\ files'[q] = 0 /\ files' \in [Paths -> Int]
      /\ \A x \in Paths : x # 0 /\ x # q => files'[x] = files[x]
  BY <1>1 DEF NasQuarantineTypeOK
<1>3. NasQuarantineTypeOK'
  BY <1>1, <1>2 DEF NasQuarantineTypeOK
<1>4. InUse'
  BY <1>1, <1>2 DEF InUse, NasQuarantineTypeOK, Paths
<1>5. OwnSlot'
  <2>1. \A n \in Movers : Filling(n) => movers[n].slot \in Paths /\ movers[n].slot # 0
    BY DEF NasQuarantineTypeOK, Mover, InUse, Filling
  <2>2. \A n \in Movers : Filling(n) => files'[movers[n].slot] = 0
    BY <1>2, <2>1 DEF OwnSlot
  <2> QED BY <1>1, <2>2 DEF OwnSlot, Filling, Copying
<1>6. HasRead'
  <2>1. ASSUME NEW n \in Movers, movers[n].pc = "store"
        PROVE  files'[movers[n].path] \in {0, movers[n].buffer} \cup exposed'
    <3>1. movers[n].path \in Paths
      BY DEF NasQuarantineTypeOK, Mover
    <3>2. CASE movers[n].path = 0
      BY <1>1, <1>2, <2>1, <3>2 DEF BeingCopied
    <3>3. CASE movers[n].path # 0
      BY <1>1, <1>2, <2>1, <3>1, <3>3 DEF HasRead
    <3> QED BY <3>2, <3>3
  <2> QED BY <1>1, <2>1 DEF HasRead
<1>7. SafeCopy'
  <2>1. ASSUME NEW c \in 1..contents, c \notin exposed', NEW x \in Paths, files[x] = c,
               \A n \in Movers : movers[n].pc = "delete" => movers[n].path # x
        PROVE  \E y \in Paths :
                  /\ files'[y] = c
                  /\ \A n \in Movers : movers[n].pc = "delete" => movers[n].path # y
    <3>1. x # 0
      BY <1>1, <2>1 DEF NasQuarantineTypeOK
    <3>2. CASE x = q
      BY <1>1, <1>2, <2>1, <3>2 DEF BeingCopied
    <3>3. CASE x # q
      BY <1>2, <2>1, <3>1, <3>3
    <3> QED BY <3>2, <3>3
  <2>2. exposed \subseteq exposed' /\ UNCHANGED <<contents, removed, movers>>
    BY <1>1
  <2>3. SUFFICES ASSUME NEW c \in 1..contents, c \notin removed, c \notin exposed'
                 PROVE  \E y \in Paths :
                           /\ files'[y] = c
                           /\ \A n \in Movers : movers[n].pc = "delete" => movers[n].path # y
    BY <2>2 DEF SafeCopy
  <2>4. PICK x \in Paths :
            /\ files[x] = c
            /\ \A n \in Movers : movers[n].pc = "delete" => movers[n].path # x
    BY <2>2, <2>3 DEF SafeCopy
  <2> QED BY <2>1, <2>3, <2>4
<1> QED BY <1>3, <1>4, <1>5, <1>6, <1>7

LEMMA UserInv ==
    ASSUME NasQuarantineInv, UserWrites \/ UserDeletes
    PROVE  NasQuarantineInv'
<1> USE DEF NasQuarantineInv
<1> DEFINE new == contents + 1
<1>1. /\ 0 \in Paths /\ slots \in Nat /\ contents \in Nat /\ slots' = slots
      /\ movers' = movers /\ smbErrors' = smbErrors
      /\ removed' = removed \cup {files[0]}
      /\ files' = [files EXCEPT ![0] = files'[0]] /\ files'[0] \in Int
      /\ scanQueue' \subseteq scanQueue \cup {0}
      /\ exposed \subseteq exposed'
  BY NasQuarantineAssumption DEF UserWrites, UserDeletes, Paths, NasQuarantineTypeOK
<1>2. \/ files'[0] = 0 /\ contents' = contents /\ exposed' = exposed
      \/ /\ files'[0] = new /\ contents' = new
         /\ exposed' = IF BeingCopied(0) THEN exposed \cup {new} ELSE exposed
  BY <1>1 DEF UserWrites, UserDeletes, NasQuarantineTypeOK
<1>3. \A x \in Paths : x # 0 => files'[x] = files[x]
  BY <1>1 DEF NasQuarantineTypeOK
<1>4. NasQuarantineTypeOK'
  <2>1. sensitive' \subseteq Nat
    <3>1. CASE UserWrites
      BY <1>1, <3>1 DEF UserWrites, NasQuarantineTypeOK
    <3>2. CASE UserDeletes
      BY <3>2 DEF UserDeletes, NasQuarantineTypeOK
    <3> QED BY <3>1, <3>2
  <2>2. removed' \subseteq Int /\ exposed' \subseteq Int /\ contents' \in Nat
    <3>1. files[0] \in Int /\ new \in Int /\ new \in Nat
      BY <1>1 DEF NasQuarantineTypeOK
    <3>2. removed' \subseteq Int
      BY <1>1, <3>1 DEF NasQuarantineTypeOK
    <3>3. exposed' \subseteq Int /\ contents' \in Nat
      <4>1. exposed' \subseteq exposed \cup {new} /\ contents' \in {contents, new}
        BY <1>2
      <4> QED BY <1>1, <3>1, <4>1 DEF NasQuarantineTypeOK
    <3> QED BY <3>2, <3>3
  <2>3. files' \in [Paths -> Int] /\ scanQueue' \subseteq Paths
    BY <1>1 DEF NasQuarantineTypeOK
  <2> QED BY <1>1, <2>1, <2>2, <2>3 DEF NasQuarantineTypeOK
<1>5. InUse'
  BY <1>1, <1>3 DEF InUse
<1>6. OwnSlot'
  <2>1. \A n \in Movers : Filling(n) => movers[n].slot \in Paths /\ movers[n].slot # 0
    BY DEF NasQuarantineTypeOK, Mover, InUse, Filling
  <2> QED BY <1>1, <1>3, <2>1 DEF OwnSlot, Filling, Copying
<1>7. HasRead'
  <2>1. ASSUME NEW n \in Movers, movers[n].pc = "store"
        PROVE  files'[movers[n].path] \in {0, movers[n].buffer} \cup exposed'
    <3>1. movers[n].path \in Paths
      BY DEF NasQuarantineTypeOK, Mover
    <3>2. CASE movers[n].path = 0
      BY <1>2, <2>1, <3>2 DEF BeingCopied
    <3>3. CASE movers[n].path # 0
      BY <1>1, <1>3, <2>1, <3>1, <3>3 DEF HasRead
    <3> QED BY <3>2, <3>3
  <2> QED BY <1>1, <2>1 DEF HasRead
<1>8. SafeCopy'
  <2>1. ASSUME NEW c \in 1..contents, c \notin removed' \cup exposed', NEW x \in Paths,
               files[x] = c,
               \A n \in Movers : movers[n].pc = "delete" => movers[n].path # x
        PROVE  \E y \in Paths :
                  /\ files'[y] = c
                  /\ \A n \in Movers : movers'[n].pc = "delete" => movers'[n].path # y
    BY <1>1, <1>3, <2>1
  <2>2. ASSUME contents' = new, new \notin exposed'
        PROVE  \E y \in Paths :
                  /\ files'[y] = new
                  /\ \A n \in Movers : movers'[n].pc = "delete" => movers'[n].path # y
    <3>1. files'[0] = new /\ ~BeingCopied(0)
      BY <1>1, <1>2, <2>2
    <3> QED BY <1>1, <3>1 DEF BeingCopied
  <2>3. \A c \in 1..contents' : c \in 1..contents \/ (c = new /\ contents' = new)
    BY <1>1, <1>2
  <2> QED BY <1>1, <2>1, <2>2, <2>3 DEF SafeCopy
<1> QED BY <1>4, <1>5, <1>6, <1>7, <1>8

-----------------------------------------------------------------------------
LEMMA NasQuarantineStep ==
    ASSUME NasQuarantineInv, [NasQuarantineNext]_nasQuarantineVars
    PROVE  NasQuarantineInv'
<1>1. ASSUME NEW p \in Paths, QuarantineByHand(p) PROVE NasQuarantineInv'
  <2>1. Api \in Movers /\ p \in 0..slots
    BY <1>1 DEF Movers, QuarantineByHand, NasQuarantineInv, NasQuarantineTypeOK, Paths
  <2> QED BY <1>1, <2>1, QuarantineFileInv DEF QuarantineByHand
<1>2. ASSUME UNCHANGED nasQuarantineVars PROVE NasQuarantineInv'
  BY <1>2 DEF nasQuarantineVars, NasQuarantineInv, NasQuarantineTypeOK, InUse, OwnSlot,
              HasRead, SafeCopy, Filling, Copying
<1> QED
  BY <1>1, <1>2, ScanInv, MoveInv, RetrieveInv, StoreInv, DeleteInv, RestoreInv, UserInv
     DEF NasQuarantineNext

\* A copy of every content that counts is always out of reach of the threads.
THEOREM NasQuarantineInvariant == NasQuarantineSpec => []NasQuarantineInv
BY NasQuarantineInitInv, NasQuarantineStep, PTL DEF NasQuarantineSpec

\* The variables keep their types, whatever threads run and requests fail.
THEOREM NasQuarantineTypeCorrect == NasQuarantineSpec => []NasQuarantineTypeOK
<1>1. NasQuarantineInv => NasQuarantineTypeOK
  BY DEF NasQuarantineInv
<1> QED BY <1>1, NasQuarantineInvariant, PTL

\* However many threads quarantine and restore the same files at once, no
\* content is lost that no user removed and none put where it was being deleted.
THEOREM NothingLost == NasQuarantineSpec => []ContentKept
<1>1. NasQuarantineInv => ContentKept
  BY DEF NasQuarantineInv, SafeCopy, ContentKept
<1> QED BY <1>1, NasQuarantineInvariant, PTL
=============================================================================
