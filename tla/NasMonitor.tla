------------------------------ MODULE NasMonitor ------------------------------
(***************************************************************************)
(* The SMB monitor of the NAS audit service (src/71): its notifier threads *)
(* for one watched directory, the thread that reconnects and catches up by *)
(* comparing listings, start, stop and a crash of the service.             *)
(*                                                                         *)
(* A file is the number of its last change (0: absent); a listing maps     *)
(* every file to what was seen of it, and an empty listing is one with no  *)
(* file.  The 200 ms window in which events of one path and operation      *)
(* count as one is abstracted: a suppressed event counts as reported.      *)
(* Change Notify is modelled as the code uses it: one outstanding call,    *)
(* whose changes are lost with its handle.                                 *)
(***************************************************************************)
EXTENDS Integers, FiniteSets

CONSTANTS NasFiles,
          MaxChanges,      \* bound: changes of a file
          MaxNotifiers,    \* bound: notifier threads
          MaxOutages       \* bound: outages, unreadable listings, crashes, stops

ASSUME NasMonitorAssumption ==
    MaxChanges \in Nat /\ MaxNotifiers \in Nat \ {0} /\ MaxOutages \in Nat

VARIABLES
    share,          \* the files on the NAS
    netUp,          \* the NAS can be reached
    lastSnapshot,   \* state_manager's last_snapshot
    savedSnapshot,  \* the one in the state file
    emitted,        \* the last change of each file an event told of (events wait in
                    \* a buffer first, and a crash loses what is there: left out)
    blind,          \* files taken into a snapshot without comparing (history)
    smbConnected,   \* _connected
    session,        \* _smb_session: its number, 0 for None
    sessions,       \* sessions made so far
    notifiers,      \* the notifier threads
    handleOwner,    \* the thread whose handle is in _notify_handles, 0 for none
    mon,            \* the thread that starts, reconnects and stops
    outages

nasMonitorVars == <<share, netUp, lastSnapshot, savedSnapshot, emitted, blind, smbConnected,
                    session, sessions, notifiers, handleOwner, mon, outages>>

NotifierIds == 1..MaxNotifiers
Listing == [NasFiles -> Nat]
EmptyListing == [f \in NasFiles |-> 0]
Notifier == [pc : {"none", "wait", "listen"}, session : Nat, open : BOOLEAN, got : Listing]
NoNotifier == [pc |-> "none", session |-> 0, open |-> FALSE, got |-> EmptyListing]
Mon == [pc : {"down", "startList", "startStore", "watch", "retry", "connect", "protocol",
              "list", "store", "threads"},
        current : Listing]

NasMonitorTypeOK ==
    /\ share \in Listing /\ netUp \in BOOLEAN
    /\ lastSnapshot \in Listing /\ savedSnapshot \in Listing
    /\ emitted \in Listing /\ blind \subseteq NasFiles
    /\ smbConnected \in BOOLEAN /\ session \in Nat /\ sessions \in Nat
    /\ notifiers \in [NotifierIds -> Notifier]
    /\ handleOwner \in 0..MaxNotifiers
    /\ mon \in Mon /\ outages \in Nat

\* An earlier run of the service left its snapshot, and nothing has changed yet.
NasMonitorInit ==
    /\ share = [f \in NasFiles |-> 1] /\ netUp = TRUE
    /\ lastSnapshot = EmptyListing /\ savedSnapshot = share
    /\ emitted = share /\ blind = {}
    /\ smbConnected = FALSE /\ session = 0 /\ sessions = 0
    /\ notifiers = [n \in NotifierIds |-> NoNotifier]
    /\ handleOwner = 0
    /\ mon = [pc |-> "down", current |-> EmptyListing]
    /\ outages = 0

nasStoreVars == <<share, netUp, lastSnapshot, savedSnapshot, emitted, blind>>

Outage == outages < MaxOutages /\ outages' = outages + 1
MonGoes(pc) == mon' = [mon EXCEPT !.pc = pc]
Later(a, b) == [f \in NasFiles |-> IF a[f] > b[f] THEN a[f] ELSE b[f]]

\* What _take_snapshot returns: errors are swallowed, directory by directory.
FullListing == IF netUp THEN share ELSE EmptyListing
PartialListings ==
    {[f \in NasFiles |-> IF f \in seen THEN share[f] ELSE 0] : seen \in SUBSET NasFiles}

\* Compare with the stored snapshot when neither is empty, then store.
CompareAndStore(current) ==
    /\ IF lastSnapshot # EmptyListing /\ current # EmptyListing
       THEN /\ emitted' = Later(emitted, [f \in NasFiles |->
                  IF current[f] # lastSnapshot[f] THEN current[f] ELSE 0])
            /\ UNCHANGED blind
       ELSE /\ blind' = blind \cup {f \in NasFiles : current[f] > emitted[f]}
            /\ UNCHANGED emitted
    /\ lastSnapshot' = current
    /\ savedSnapshot' = current

(***************************************************************************)
(* start(), in the thread of the service.  A failing Change Notify session *)
(* is not tried again: the flag stays up without one.                      *)
(***************************************************************************)
StartMonitor ==
    /\ mon.pc = "down"
    /\ lastSnapshot' = savedSnapshot
    /\ smbConnected' = netUp
    /\ \/ netUp /\ sessions' = sessions + 1 /\ session' = sessions + 1 /\ UNCHANGED outages
       \/ ~netUp /\ UNCHANGED <<sessions, session, outages>>
       \/ Outage /\ UNCHANGED <<sessions, session>>
    /\ MonGoes("startList")
    /\ UNCHANGED <<share, netUp, savedSnapshot, emitted, blind, notifiers, handleOwner>>

TakeSnapshot(from, to) ==
    /\ mon.pc = from
    /\ \/ mon' = [pc |-> to, current |-> FullListing] /\ UNCHANGED outages
       \/ \E current \in PartialListings : mon' = [pc |-> to, current |-> current] /\ Outage
    /\ UNCHANGED <<nasStoreVars, smbConnected, session, sessions, notifiers, handleOwner>>

\* A fresh thread of _notify_loop.
NewNotifier ==
    \E n \in NotifierIds :
        /\ notifiers[n].pc = "none" /\ \A m \in 1..(n - 1) : notifiers[m].pc # "none"
        /\ notifiers' = [notifiers EXCEPT ![n] = [NoNotifier EXCEPT !.pc = "wait"]]

StartThreads ==
    /\ mon.pc = "startStore"
    /\ CompareAndStore(mon.current)
    /\ NewNotifier
    /\ MonGoes("watch")
    /\ UNCHANGED <<share, netUp, smbConnected, session, sessions, handleOwner, outages>>

(***************************************************************************)
(* _notify_loop.                                                           *)
(***************************************************************************)
Alive(n) == notifiers[n].pc # "none" /\ mon.pc # "down"
LiveHandle(n) ==
    notifiers[n].pc = "listen" /\ notifiers[n].open /\ notifiers[n].session = session
      /\ netUp

OpenDirectory(n) ==
    /\ Alive(n) /\ notifiers[n].pc = "wait"
    /\ smbConnected /\ session # 0 /\ netUp
    /\ notifiers' = [notifiers EXCEPT ![n] =
           [pc |-> "listen", session |-> session, open |-> TRUE, got |-> EmptyListing]]
    /\ handleOwner' = n
    /\ UNCHANGED <<nasStoreVars, smbConnected, session, sessions, mon, outages>>

NotifyReturns(n) ==
    /\ Alive(n) /\ LiveHandle(n) /\ notifiers[n].got # EmptyListing
    /\ emitted' = Later(notifiers[n].got, emitted)
    /\ notifiers' = [notifiers EXCEPT ![n].got = EmptyListing]
    /\ UNCHANGED <<share, netUp, lastSnapshot, savedSnapshot, blind, smbConnected, session,
                   sessions, handleOwner, mon, outages>>

\* The finally: whichever handle is filed under the path is closed.
CloseFiledHandle(n) ==
    /\ notifiers' = [m \in NotifierIds |->
           IF m = n THEN [NoNotifier EXCEPT !.pc = "wait"]
           ELSE IF m = handleOwner THEN [notifiers[m] EXCEPT !.open = FALSE]
           ELSE notifiers[m]]
    /\ handleOwner' = 0

\* An error that names the network: the flag is cleared whatever it now says.
ConnectionLost(n) ==
    /\ Alive(n) /\ notifiers[n].pc = "listen" /\ ~LiveHandle(n)
    /\ smbConnected' = FALSE
    /\ CloseFiledHandle(n)
    /\ UNCHANGED <<nasStoreVars, session, sessions, mon, outages>>

\* Any other error is retried; the loop ends once the flag is down.
LeaveNotifyLoop(n) ==
    /\ Alive(n) /\ notifiers[n].pc = "listen" /\ ~smbConnected
    /\ CloseFiledHandle(n)
    /\ UNCHANGED <<nasStoreVars, smbConnected, session, sessions, mon, outages>>

(***************************************************************************)
(* _reconnect_loop and _reconnect_with_catchup.                            *)
(***************************************************************************)
Disconnect ==
    /\ mon.pc = "retry" \/ (mon.pc = "watch" /\ ~smbConnected)
    /\ smbConnected' = FALSE
    /\ session' = 0
    /\ notifiers' = [n \in NotifierIds |->
           IF n = handleOwner THEN [notifiers[n] EXCEPT !.open = FALSE] ELSE notifiers[n]]
    /\ handleOwner' = 0
    /\ MonGoes("connect")
    /\ UNCHANGED <<nasStoreVars, sessions, outages>>

\* connect() raises the flag: notifiers may go on before the catch-up.  After
\* its last attempt the thread goes back to watching the flag: any may be it.
Connect ==
    /\ mon.pc = "connect"
    /\ smbConnected' = netUp
    /\ \/ netUp /\ MonGoes("protocol")
       \/ ~netUp /\ \E pc \in {"retry", "watch"} : MonGoes(pc)
    /\ UNCHANGED <<nasStoreVars, session, sessions, notifiers, handleOwner, outages>>

ConnectProtocol ==
    /\ mon.pc = "protocol"
    /\ \/ netUp /\ sessions' = sessions + 1 /\ session' = sessions + 1 /\ MonGoes("list")
       \/ ~netUp /\ UNCHANGED <<session, sessions>> /\ \E pc \in {"retry", "watch"} : MonGoes(pc)
    /\ UNCHANGED <<nasStoreVars, smbConnected, notifiers, handleOwner, outages>>

\* Mutant of CatchUp: what is stored is listed afresh after the comparison.
CatchUpListingTwice ==
    /\ mon.pc = "store"
    /\ emitted' = Later([f \in NasFiles |->
           IF mon.current[f] # lastSnapshot[f] THEN mon.current[f] ELSE 0], emitted)
    /\ lastSnapshot' = share /\ savedSnapshot' = share
    /\ MonGoes("threads")
    /\ UNCHANGED <<share, netUp, blind, smbConnected, session, sessions, notifiers,
                   handleOwner, outages>>

CatchUp ==
    /\ mon.pc = "store"
    /\ CompareAndStore(mon.current)
    /\ MonGoes("threads")
    /\ UNCHANGED <<share, netUp, smbConnected, session, sessions, notifiers, handleOwner, outages>>

\* disconnect() emptied _notify_threads: a new thread starts beside the old.
\* The flag is raised whatever happened during the catch-up.
RestartThreads ==
    /\ mon.pc = "threads"
    /\ NewNotifier
    /\ smbConnected' = TRUE
    /\ MonGoes("watch")
    /\ UNCHANGED <<nasStoreVars, session, sessions, handleOwner, outages>>

(***************************************************************************)
(* stop(), a crash, the NAS and its users.                                 *)
(***************************************************************************)
ProcessEnds ==
    /\ notifiers' = [n \in NotifierIds |-> NoNotifier]
    /\ handleOwner' = 0 /\ session' = 0 /\ smbConnected' = FALSE
    /\ mon' = [pc |-> "down", current |-> EmptyListing]

\* The snapshot of stop() is stored without being compared.
StopMonitor ==
    /\ mon.pc = "watch" /\ Outage
    /\ \E current \in {FullListing} \cup PartialListings :
          IF current # EmptyListing
          THEN /\ blind' = blind \cup {f \in NasFiles : current[f] > emitted[f]}
               /\ lastSnapshot' = current /\ savedSnapshot' = current
          ELSE savedSnapshot' = lastSnapshot /\ UNCHANGED <<blind, lastSnapshot>>
    /\ ProcessEnds
    /\ UNCHANGED <<share, netUp, emitted, sessions>>

\* A state file cut short counts as none.
CrashMonitor ==
    /\ mon.pc # "down" /\ Outage
    /\ ProcessEnds
    /\ lastSnapshot' = EmptyListing
    /\ \/ UNCHANGED savedSnapshot
       \/ mon.pc \in {"startStore", "store"} /\ savedSnapshot' = EmptyListing
    /\ UNCHANGED <<share, netUp, emitted, blind, sessions>>

ChangeFile(f) ==
    /\ share[f] < MaxChanges
    /\ share' = [share EXCEPT ![f] = @ + 1]
    /\ notifiers' = [n \in NotifierIds |->
           IF LiveHandle(n) THEN [notifiers[n] EXCEPT !.got[f] = share[f] + 1]
           ELSE notifiers[n]]
    /\ UNCHANGED <<netUp, lastSnapshot, savedSnapshot, emitted, blind, smbConnected, session,
                   sessions, handleOwner, mon, outages>>

NasDown ==
    /\ netUp /\ Outage /\ netUp' = FALSE
    /\ UNCHANGED <<share, lastSnapshot, savedSnapshot, emitted, blind, smbConnected, session,
                   sessions, notifiers, handleOwner, mon>>

NasUp ==
    /\ ~netUp /\ netUp' = TRUE
    /\ UNCHANGED <<share, lastSnapshot, savedSnapshot, emitted, blind, smbConnected, session,
                   sessions, notifiers, handleOwner, mon, outages>>

NasMonitorNext ==
    \/ StartMonitor \/ TakeSnapshot("startList", "startStore") \/ StartThreads
    \/ \E n \in NotifierIds :
          OpenDirectory(n) \/ NotifyReturns(n) \/ ConnectionLost(n) \/ LeaveNotifyLoop(n)
    \/ Disconnect \/ Connect \/ ConnectProtocol
    \/ TakeSnapshot("list", "store") \/ CatchUp \/ RestartThreads
    \/ StopMonitor \/ CrashMonitor
    \/ \E f \in NasFiles : ChangeFile(f)
    \/ NasDown \/ NasUp

NasMonitorSpec == NasMonitorInit /\ [][NasMonitorNext]_nasMonitorVars

-----------------------------------------------------------------------------
(***************************************************************************)
(* Property.                                                               *)
(***************************************************************************)
\* A change the stored snapshot already contains was reported, or swallowed by
\* one of the three places that store a listing without comparing it (stop, and
\* a start or catch-up on an empty listing).  So every other change no event
\* told of still differs from the snapshot, and the next catch-up finds it.
StoredIsReported ==
    \A f \in NasFiles : f \in blind \/
        /\ lastSnapshot[f] <= emitted[f]
        /\ savedSnapshot[f] <= emitted[f]
=============================================================================
