------------------------ MODULE MasterElectionProofs ------------------------
(***************************************************************************)
(* Proofs, for any number of masters and of failed calls, of the safety    *)
(* properties of MasterElection.                                           *)
(*                                                                         *)
(* AtMostOneLeader is not inductive: a master sets its flag from a list it *)
(* read earlier.  What makes the stale list harmless is that ZooKeeper     *)
(* numbers znodes upwards, so whoever was smallest stays smallest for as   *)
(* long as its own session is open.                                        *)
(***************************************************************************)
EXTENDS MasterElection, TLAPS

\* Znode numbers were given out once each, and a session holds its znodes.
Znodes ==
    /\ \A m \in Masters : seq[m] < nextSeq
    /\ \A m, k \in live : seq[m] = seq[k] => m = k
    /\ \A m \in live : Open(m)

\* A master that knows its path has a znode until its session ends.
Owns ==
    \A m \in Masters : /\ registered[m] /\ Open(m) => m \in live
                       /\ main[m] = "start" => m \notin live /\ ~registered[m]
                                              /\ seq[m] = 0

\* Until the main thread is past its own checkLeadership the event thread has
\* nothing to do, so the two never decide at the same time with different lists.
Quiet ==
    \A m \in Masters :
        main[m] \in {"start", "check", "decide"} =>
            /\ pending[m] = 0 /\ ~childWatch[m] /\ event[m] = "idle" /\ ~isLeader[m]
            /\ \A k \in Masters : nodeWatch[m][k] = 0

\* A list in which m came first is still right about it.
Snapshots ==
    \A m \in Masters :
        Open(m) /\ registered[m] =>
            /\ main[m] = "decide" /\ mainMin[m] = m => IsSmallestOf(m, live)
            /\ event[m] = "decide" /\ eventMin[m] = m => IsSmallestOf(m, live)

\* The leader knows its znode, which is the smallest; a list its event thread
\* holds says so.
Leaders ==
    \A m \in Masters :
        Leads(m) => /\ registered[m]
                    /\ IsSmallestOf(m, live)
                    /\ event[m] = "decide" => eventMin[m] = m

ElectionInv == TypeOK /\ Znodes /\ Owns /\ Quiet /\ Snapshots /\ Leaders

-----------------------------------------------------------------------------

\* Watch delivery keeps the counters typed.
LEMMA FireChildWatchesType ==
    ASSUME TypeOK, FireChildWatches
    PROVE  /\ pending' \in [Masters -> Nat]
           /\ childWatch' \in [Masters -> BOOLEAN]
           /\ nodeWatch' \in [Masters -> [Masters -> Nat]]
BY DEF TypeOK, FireChildWatches

LEMMA FireDeletionType ==
    ASSUME TypeOK, NEW m \in Masters, FireDeletion(m)
    PROVE  /\ pending' \in [Masters -> Nat]
           /\ childWatch' \in [Masters -> BOOLEAN]
           /\ nodeWatch' \in [Masters -> [Masters -> Nat]]
BY DEF TypeOK, FireDeletion

\* Adding a watch, or failing to, changes watches and faults within their types.
LEMMA AddWatchType ==
    ASSUME TypeOK, NEW m \in Masters, NEW k \in Masters \cup {NoMaster},
           AddWatch(m, k)
    PROVE  /\ pending' \in [Masters -> Nat]
           /\ childWatch' \in [Masters -> BOOLEAN]
           /\ nodeWatch' \in [Masters -> [Masters -> Nat]]
           /\ faults' \in 0..MaxFaults
BY MaxFaultsAssumption, SMTT(30) DEF TypeOK, AddWatch, watchVars

\* A getChildren answer costs at most one fault.
LEMMA ChildrenAnswerType ==
    ASSUME TypeOK, NEW m \in Masters, NEW min, ChildrenAnswer(m, min)
    PROVE  faults' \in 0..MaxFaults
BY MaxFaultsAssumption DEF TypeOK, ChildrenAnswer

LEMMA InitInv == Init => ElectionInv
BY MaxFaultsAssumption
   DEF Init, ElectionInv, TypeOK, Znodes, Owns, Quiet, Snapshots, Leaders, Leads,
       Open, MainStates, EventStates

LEMMA TypeStep == TypeOK /\ [Next]_vars => TypeOK'
<1> SUFFICES ASSUME TypeOK, [Next]_vars PROVE TypeOK'
  OBVIOUS
<1>1. ASSUME NEW m \in Masters, Register(m) PROVE TypeOK'
  BY <1>1, FireChildWatchesType DEF Register, TypeOK, MainStates, eventVars
<1>2. ASSUME NEW m \in Masters, RegisterFails(m) PROVE TypeOK'
  <2>1. faults' \in 0..MaxFaults
    BY <1>2, MaxFaultsAssumption DEF RegisterFails, TypeOK
  <2>2. main' \in [Masters -> MainStates]
    BY <1>2 DEF RegisterFails, TypeOK, MainStates
  <2>3. CASE UNCHANGED <<nextSeq, seq, live, watchVars>>
    BY <1>2, <2>1, <2>2, <2>3 DEF RegisterFails, TypeOK, eventVars, watchVars
  <2>4. CASE /\ seq' = [seq EXCEPT ![m] = nextSeq]
             /\ nextSeq' = nextSeq + 1
             /\ live' = live \cup {m}
             /\ FireChildWatches
    BY <1>2, <2>1, <2>2, <2>4, FireChildWatchesType DEF RegisterFails, TypeOK, eventVars
  <2> QED BY <1>2, <2>3, <2>4 DEF RegisterFails
<1>3. ASSUME NEW m \in Masters, MainCheck(m) PROVE TypeOK'
  BY <1>3, ChildrenAnswerType
     DEF MainCheck, TypeOK, MainStates, eventVars, watchVars, serverVars
<1>4. ASSUME NEW m \in Masters, MainDecide(m) PROVE TypeOK'
  <2>1. isLeader' \in [Masters -> BOOLEAN]
    BY <1>4 DEF MainDecide, Decide, TypeOK
  <2>2. /\ pending' \in [Masters -> Nat]
        /\ childWatch' \in [Masters -> BOOLEAN]
        /\ nodeWatch' \in [Masters -> [Masters -> Nat]]
        /\ faults' \in 0..MaxFaults
    <3>1. mainMin[m] \in Masters \cup {NoMaster}
      BY DEF TypeOK
    <3>2. CASE AddWatch(m, mainMin[m])
      BY <3>1, <3>2, AddWatchType
    <3>3. CASE UNCHANGED <<watchVars, faults>>
      BY <3>3 DEF TypeOK, watchVars
    <3> QED BY <1>4, <3>2, <3>3 DEF MainDecide, Decide
  <2> QED BY <1>4, <2>1, <2>2 DEF MainDecide, TypeOK, MainStates, eventVars, serverVars
<1>5. ASSUME NEW m \in Masters, WatchChildren(m) PROVE TypeOK'
  <2>1. faults' \in 0..MaxFaults
    BY <1>5, MaxFaultsAssumption DEF WatchChildren, TypeOK
  <2>2. main' \in [Masters -> MainStates] /\ childWatch' \in [Masters -> BOOLEAN]
    BY <1>5 DEF WatchChildren, TypeOK, MainStates
  <2> QED BY <1>5, <2>1, <2>2 DEF WatchChildren, TypeOK, eventVars, serverVars
<1>6. ASSUME NEW m \in Masters, EventCheck(m) PROVE TypeOK'
  BY <1>6, ChildrenAnswerType
     DEF EventCheck, TypeOK, EventStates, mainVars, serverVars
<1>7. ASSUME NEW m \in Masters, EventDecide(m) PROVE TypeOK'
  <2>1. isLeader' \in [Masters -> BOOLEAN]
    BY <1>7 DEF EventDecide, Decide, TypeOK
  <2>2. /\ pending' \in [Masters -> Nat]
        /\ childWatch' \in [Masters -> BOOLEAN]
        /\ nodeWatch' \in [Masters -> [Masters -> Nat]]
        /\ faults' \in 0..MaxFaults
    <3>1. eventMin[m] \in Masters \cup {NoMaster}
      BY DEF TypeOK
    <3>2. CASE AddWatch(m, eventMin[m])
      BY <3>1, <3>2, AddWatchType
    <3>3. CASE UNCHANGED <<watchVars, faults>>
      BY <3>3 DEF TypeOK, watchVars
    <3> QED BY <1>7, <3>2, <3>3 DEF EventDecide, Decide
  <2> QED BY <1>7, <2>1, <2>2 DEF EventDecide, TypeOK, EventStates, mainVars, serverVars
<1>8. ASSUME NEW m \in Masters, CloseSession(m) PROVE TypeOK'
  <2>1. /\ pending' \in [Masters -> Nat]
        /\ childWatch' \in [Masters -> BOOLEAN]
        /\ nodeWatch' \in [Masters -> [Masters -> Nat]]
    <3>1. CASE m \in live
      BY <1>8, <3>1, FireDeletionType DEF CloseSession
    <3>2. CASE m \notin live
      <4>1. /\ pending' = [pending EXCEPT ![m] = 0]
            /\ childWatch' = [childWatch EXCEPT ![m] = FALSE]
            /\ nodeWatch' = [nodeWatch EXCEPT ![m] = [k \in Masters |-> 0]]
        BY <1>8, <3>2 DEF CloseSession
      <4>2. [k \in Masters |-> 0] \in [Masters -> Nat]
        OBVIOUS
      <4> QED BY <4>1, <4>2 DEF TypeOK
    <3> QED BY <3>1, <3>2
  <2>2. session' \in [Masters -> {"open", "closed"}] /\ live' \subseteq Masters
    BY <1>8 DEF CloseSession, TypeOK
  <2> QED BY <1>8, <2>1, <2>2 DEF CloseSession, TypeOK, mainVars, eventVars
<1>9. CASE UNCHANGED vars
  BY <1>9 DEF TypeOK, vars, serverVars, mainVars, eventVars, watchVars
<1> QED
  BY <1>1, <1>2, <1>3, <1>4, <1>5, <1>6, <1>7, <1>8, <1>9 DEF Next, Thread

-----------------------------------------------------------------------------

LEMMA ZnodesStep == ElectionInv /\ [Next]_vars => Znodes'
<1> SUFFICES ASSUME ElectionInv, [Next]_vars PROVE Znodes'
  OBVIOUS
<1> USE DEF ElectionInv
<1>1. ASSUME NEW m \in Masters, seq' = [seq EXCEPT ![m] = nextSeq],
             nextSeq' = nextSeq + 1, live' = live \cup {m}, main[m] = "start",
             Open(m), UNCHANGED session
      PROVE  Znodes'
  BY <1>1 DEF Znodes, TypeOK, Owns, Open
<1>2. CASE UNCHANGED <<nextSeq, seq, live, session>>
  BY <1>2 DEF Znodes, Open
<1>3. ASSUME NEW m \in Masters, CloseSession(m) PROVE Znodes'
  BY <1>3 DEF CloseSession, Znodes, TypeOK, Open
<1>4. ASSUME NEW m \in Masters, Register(m) \/ RegisterFails(m) PROVE Znodes'
  BY <1>1, <1>2, <1>4 DEF Register, RegisterFails
<1> QED
  BY <1>2, <1>3, <1>4
     DEF Next, Thread, MainCheck, MainDecide, WatchChildren, EventCheck, EventDecide,
         serverVars, vars

LEMMA OwnsStep == ElectionInv /\ [Next]_vars => Owns'
<1> SUFFICES ASSUME ElectionInv, [Next]_vars, NEW m \in Masters
             PROVE  /\ registered'[m] /\ Open(m)' => m \in live'
                    /\ main'[m] = "start" => m \notin live' /\ ~registered'[m] /\ seq'[m] = 0
  BY DEF Owns
<1> USE DEF ElectionInv, Open
<1>1. ASSUME NEW k \in Masters, Register(k) \/ RegisterFails(k) \/ CloseSession(k)
      PROVE  /\ registered'[m] /\ Open(m)' => m \in live'
             /\ main'[m] = "start" => m \notin live' /\ ~registered'[m] /\ seq'[m] = 0
  BY <1>1 DEF Register, RegisterFails, CloseSession, Owns, TypeOK, mainVars
<1>2. ASSUME UNCHANGED <<live, session, registered, seq>>,
             main'[m] = "start" => main[m] = "start"
      PROVE  /\ registered'[m] /\ Open(m)' => m \in live'
             /\ main'[m] = "start" => m \notin live' /\ ~registered'[m] /\ seq'[m] = 0
  BY <1>2 DEF Owns
<1>3. ASSUME NEW k \in Masters, MainCheck(k) \/ MainDecide(k) \/ WatchChildren(k)
      PROVE  main'[m] = "start" => main[m] = "start"
  BY <1>3 DEF MainCheck, MainDecide, WatchChildren, TypeOK, MainStates
<1> QED
  BY <1>1, <1>2, <1>3
     DEF Next, Thread, MainCheck, MainDecide, WatchChildren, EventCheck, EventDecide,
         serverVars, mainVars, vars

\* What QuietStep and the steps after it need of the watches: firing them gives
\* nothing to a master that has none.
LEMMA QuietWatches ==
    ASSUME TypeOK, NEW m \in Masters, pending[m] = 0, ~childWatch[m],
           \A k \in Masters : nodeWatch[m][k] = 0,
           \/ FireChildWatches
           \/ \E k \in Masters : FireDeletion(k)
           \/ \E k \in Masters \ {m} : \E j \in Masters \cup {NoMaster} : AddWatch(k, j)
    PROVE  /\ pending'[m] = 0 /\ ~childWatch'[m]
           /\ \A k \in Masters : nodeWatch'[m][k] = 0
<1>1. CASE FireChildWatches
  BY <1>1 DEF FireChildWatches, TypeOK
<1>2. ASSUME NEW k \in Masters, FireDeletion(k)
      PROVE  /\ pending'[m] = 0 /\ ~childWatch'[m]
             /\ \A j \in Masters : nodeWatch'[m][j] = 0
  BY <1>2 DEF FireDeletion, TypeOK
<1>3. ASSUME NEW k \in Masters \ {m}, NEW j \in Masters \cup {NoMaster}, AddWatch(k, j)
      PROVE  /\ pending'[m] = 0 /\ ~childWatch'[m]
             /\ \A i \in Masters : nodeWatch'[m][i] = 0
  BY <1>3 DEF AddWatch, watchVars, TypeOK
<1> QED BY <1>1, <1>2, <1>3

LEMMA QuietStep == ElectionInv /\ [Next]_vars => Quiet'
<1> DEFINE QuietAt(m) == /\ pending[m] = 0 /\ ~childWatch[m]
                         /\ event[m] = "idle" /\ ~isLeader[m]
                         /\ \A k \in Masters : nodeWatch[m][k] = 0
           Early == {"start", "check", "decide"}
<1> SUFFICES ASSUME ElectionInv, [Next]_vars, NEW m \in Masters, main'[m] \in Early
             PROVE  QuietAt(m)'
  BY DEF Quiet
<1>a. TypeOK
  BY DEF ElectionInv
<1>b. main[m] \in Early => QuietAt(m)
  BY DEF ElectionInv, Quiet
<1> HIDE DEF Early
<1>1. ASSUME NEW k \in Masters, Register(k) \/ RegisterFails(k)
      PROVE  QuietAt(m)'
  <2>1. main[m] \in Early /\ event'[m] = event[m] /\ isLeader'[m] = isLeader[m]
    BY <1>1, <1>a DEF Register, RegisterFails, eventVars, TypeOK, Early
  <2>2. CASE FireChildWatches
    BY <2>1, <2>2, <1>a, <1>b, QuietWatches
  <2>3. CASE UNCHANGED watchVars
    BY <2>1, <2>3, <1>b DEF watchVars
  <2> QED BY <1>1, <2>2, <2>3 DEF Register, RegisterFails
<1>2. ASSUME NEW k \in Masters, MainCheck(k)
      PROVE  QuietAt(m)'
  <2>1. main[m] \in Early
    BY <1>2, <1>a DEF MainCheck, TypeOK, Early
  <2> QED BY <2>1, <1>2, <1>b DEF MainCheck, eventVars, watchVars
<1>3. ASSUME NEW k \in Masters, MainDecide(k)
      PROVE  QuietAt(m)'
  <2>1. k # m /\ main[m] \in Early
    BY <1>3, <1>a DEF MainDecide, TypeOK, Early
  <2>2. event'[m] = event[m] /\ isLeader'[m] = isLeader[m]
    BY <1>3, <2>1, <1>a DEF MainDecide, Decide, eventVars, TypeOK
  <2>3. CASE AddWatch(k, mainMin[k])
    <3>1. mainMin[k] \in Masters \cup {NoMaster}
      BY <1>a DEF TypeOK
    <3> QED BY <2>1, <2>2, <2>3, <3>1, <1>a, <1>b, QuietWatches
  <2>4. CASE UNCHANGED watchVars
    BY <2>1, <2>2, <2>4, <1>b DEF watchVars
  <2> QED BY <1>3, <2>3, <2>4 DEF MainDecide, Decide
<1>4. ASSUME NEW k \in Masters, WatchChildren(k)
      PROVE  QuietAt(m)'
  <2>1. k # m /\ main[m] \in Early
    BY <1>4, <1>a DEF WatchChildren, TypeOK, Early
  <2>2. childWatch'[m] = childWatch[m]
    BY <1>4, <2>1, <1>a DEF WatchChildren, TypeOK
  <2> QED BY <1>4, <2>1, <2>2, <1>b DEF WatchChildren, eventVars
<1>5. ASSUME NEW k \in Masters, EventCheck(k)
      PROVE  QuietAt(m)'
  <2>1. main[m] \in Early
    BY <1>5, <1>a DEF EventCheck, mainVars, TypeOK, Early
  <2>2. k # m
    BY <1>5, <2>1, <1>b DEF EventCheck
  <2>3. pending'[m] = pending[m] /\ event'[m] = event[m]
    BY <1>5, <2>2, <1>a DEF EventCheck, TypeOK
  <2> QED BY <1>5, <2>1, <2>3, <1>b DEF EventCheck
<1>6. ASSUME NEW k \in Masters, EventDecide(k)
      PROVE  QuietAt(m)'
  <2>1. main[m] \in Early
    BY <1>6, <1>a DEF EventDecide, mainVars, TypeOK, Early
  <2>2. k # m
    BY <1>6, <2>1, <1>b DEF EventDecide
  <2>3. event'[m] = event[m] /\ isLeader'[m] = isLeader[m]
    BY <1>6, <2>2, <1>a DEF EventDecide, Decide, TypeOK
  <2>4. CASE AddWatch(k, eventMin[k])
    <3>1. eventMin[k] \in Masters \cup {NoMaster}
      BY <1>a DEF TypeOK
    <3> QED BY <2>1, <2>2, <2>3, <2>4, <3>1, <1>a, <1>b, QuietWatches
  <2>5. CASE UNCHANGED watchVars
    BY <2>1, <2>3, <2>5, <1>b DEF watchVars
  <2> QED BY <1>6, <2>4, <2>5 DEF EventDecide, Decide
<1>7. ASSUME NEW k \in Masters, CloseSession(k)
      PROVE  QuietAt(m)'
  <2>1. /\ main[m] \in Early
        /\ event'[m] = event[m] /\ isLeader'[m] = isLeader[m]
    BY <1>7, <1>a DEF CloseSession, mainVars, eventVars, TypeOK, Early
  <2>2. CASE k \in live
    BY <1>7, <2>1, <2>2, <1>a, <1>b, QuietWatches DEF CloseSession
  <2>3. CASE k \notin live
    <3>1. pending'[m] = 0 /\ ~childWatch'[m]
      BY <1>7, <2>1, <2>3, <1>a, <1>b DEF CloseSession, TypeOK
    <3>2. \A j \in Masters : nodeWatch'[m][j] = 0
      <4>1. nodeWatch' = [nodeWatch EXCEPT ![k] = [j \in Masters |-> 0]]
        BY <1>7, <2>3 DEF CloseSession
      <4>2. nodeWatch'[m] = IF k = m THEN [j \in Masters |-> 0] ELSE nodeWatch[m]
        BY <4>1, <1>a DEF TypeOK
      <4> QED BY <4>2, <2>1, <1>b
    <3> QED BY <2>1, <3>1, <3>2, <1>b
  <2> QED BY <2>2, <2>3
<1>8. CASE UNCHANGED vars
  BY <1>8, <1>b DEF vars, mainVars, eventVars, watchVars
<1> QED
  BY <1>1, <1>2, <1>3, <1>4, <1>5, <1>6, <1>7, <1>8 DEF Next, Thread

\* Being smallest survives every step that leaves the session open: new znodes
\* get larger numbers and a znode goes only with its owner's session.
LEMMA SmallestIsStable ==
    ASSUME ElectionInv, [Next]_vars, NEW m \in Masters,
           IsSmallestOf(m, live), Open(m)'
    PROVE  IsSmallestOf(m, live)'
<1> USE DEF ElectionInv, IsSmallestOf, Open
<1>1. ASSUME NEW k \in Masters, seq' = [seq EXCEPT ![k] = nextSeq],
             live' = live \cup {k}, main[k] = "start"
      PROVE  IsSmallestOf(m, live)'
  <2>1. k \notin live
    BY <1>1 DEF Owns
  <2>2. \A j \in live : seq'[j] = seq[j]
    BY <1>1, <2>1 DEF TypeOK
  <2>3. seq'[k] = nextSeq /\ seq[m] < nextSeq
    BY <1>1 DEF TypeOK, Znodes
  <2>4. seq[m] \in Nat /\ nextSeq \in Nat
    BY DEF TypeOK
  <2> QED BY <1>1, <2>1, <2>2, <2>3, <2>4
<1>2. CASE UNCHANGED <<seq, live>>
  BY <1>2
<1>3. ASSUME NEW k \in Masters, CloseSession(k)
      PROVE  IsSmallestOf(m, live)'
  BY <1>3 DEF CloseSession, TypeOK
<1>4. ASSUME NEW k \in Masters, Register(k) \/ RegisterFails(k)
      PROVE  IsSmallestOf(m, live)'
  BY <1>1, <1>2, <1>4 DEF Register, RegisterFails
<1> QED
  BY <1>2, <1>3, <1>4
     DEF Next, Thread, MainCheck, MainDecide, WatchChildren, EventCheck, EventDecide,
         serverVars, vars

\* Two masters cannot both be smallest.
LEMMA SmallestIsUnique ==
    ASSUME TypeOK, Znodes, NEW m \in Masters, NEW k \in Masters,
           IsSmallestOf(m, live), IsSmallestOf(k, live)
    PROVE  m = k
<1>1. seq[m] \in Nat /\ seq[k] \in Nat
  BY DEF TypeOK
<1>2. seq[m] <= seq[k] /\ seq[k] <= seq[m]
  BY DEF IsSmallestOf
<1> QED BY <1>1, <1>2 DEF IsSmallestOf, Znodes

LEMMA SnapshotsStep == ElectionInv /\ [Next]_vars => Snapshots'
<1> SUFFICES ASSUME ElectionInv, [Next]_vars, NEW m \in Masters,
                    Open(m)', registered'[m],
                    \/ main'[m] = "decide" /\ mainMin'[m] = m
                    \/ event'[m] = "decide" /\ eventMin'[m] = m
             PROVE  IsSmallestOf(m, live)'
  BY DEF Snapshots
<1>a. TypeOK /\ Snapshots
  BY DEF ElectionInv
<1> SUFFICES IsSmallestOf(m, live)
  BY SmallestIsStable
<1>1. ASSUME NEW k \in Masters, Register(k) \/ RegisterFails(k) \/ CloseSession(k)
      PROVE  IsSmallestOf(m, live)
  <2>1. Open(m)
    BY <1>1, <1>a DEF Register, RegisterFails, CloseSession, Open, TypeOK
  <2>2. /\ main'[m] = "decide" => main[m] = "decide" /\ registered'[m] = registered[m]
        /\ UNCHANGED <<mainMin, event, eventMin>>
    <3>1. CASE Register(k)
      BY <3>1, <1>a DEF Register, TypeOK, eventVars
    <3>2. CASE RegisterFails(k)
      BY <3>2, <1>a DEF RegisterFails, TypeOK, eventVars
    <3>3. CASE CloseSession(k)
      BY <3>3, <1>a DEF CloseSession, TypeOK, mainVars, eventVars
    <3> QED BY <1>1, <3>1, <3>2, <3>3
  <2>3. event[m] = "decide" => registered'[m] = registered[m]
    <3>1. event[m] = "decide" => main[m] # "start"
      BY DEF ElectionInv, Quiet
    <3> QED BY <1>1, <3>1, <1>a DEF Register, RegisterFails, CloseSession, TypeOK, mainVars
  <2> QED BY <2>1, <2>2, <2>3, <1>a DEF Snapshots
<1>2. ASSUME NEW k \in Masters, MainCheck(k) PROVE IsSmallestOf(m, live)
  <2>1. Open(m) /\ registered[m] /\ UNCHANGED eventVars
    BY <1>2 DEF MainCheck, serverVars, Open
  <2>2. CASE k = m
    <3>1. PICK min \in Masters \cup {NoMaster} :
            /\ ChildrenAnswer(m, min)
            /\ mainMin' = [mainMin EXCEPT ![m] = min]
            /\ main' = [main EXCEPT ![m] = IF min = NoMaster THEN "watchChildren"
                                                             ELSE "decide"]
      BY <1>2, <2>2 DEF MainCheck
    <3>2. CASE min = m
      BY <3>1, <3>2, NoMasterAssumption DEF ChildrenAnswer
    <3>3. CASE min # m
      BY <3>1, <3>3, <2>1, <1>a DEF Snapshots, TypeOK, eventVars
    <3> QED BY <3>2, <3>3
  <2>3. CASE k # m
    BY <1>2, <2>1, <2>3, <1>a DEF MainCheck, Snapshots, TypeOK, eventVars
  <2> QED BY <2>2, <2>3
<1>3. ASSUME NEW k \in Masters, EventCheck(k) PROVE IsSmallestOf(m, live)
  <2>1. Open(m) /\ registered[m] /\ UNCHANGED mainVars
    BY <1>3 DEF EventCheck, serverVars, mainVars, Open
  <2>2. CASE k = m
    <3>1. PICK min \in Masters \cup {NoMaster} :
            /\ ChildrenAnswer(m, min)
            /\ eventMin' = [eventMin EXCEPT ![m] = min]
            /\ event' = [event EXCEPT ![m] = IF min = NoMaster THEN "idle" ELSE "decide"]
      BY <1>3, <2>2 DEF EventCheck
    <3>2. CASE min = m
      BY <3>1, <3>2, NoMasterAssumption DEF ChildrenAnswer
    <3>3. CASE min # m
      BY <3>1, <3>3, <2>1, <1>a DEF Snapshots, TypeOK, mainVars
    <3> QED BY <3>2, <3>3
  <2>3. CASE k # m
    BY <1>3, <2>1, <2>3, <1>a DEF EventCheck, Snapshots, TypeOK, mainVars
  <2> QED BY <2>2, <2>3
<1>4. ASSUME NEW k \in Masters, MainDecide(k) \/ WatchChildren(k) \/ EventDecide(k)
      PROVE  IsSmallestOf(m, live)
  BY <1>4, <1>a
     DEF MainDecide, WatchChildren, EventDecide, Snapshots, TypeOK, Open, serverVars,
         mainVars, eventVars
<1>5. CASE UNCHANGED vars
  BY <1>5, <1>a DEF Snapshots, Open, vars, serverVars, mainVars, eventVars
<1> QED
  BY <1>1, <1>2, <1>3, <1>4, <1>5 DEF Next, Thread

LEMMA LeadersStep == ElectionInv /\ [Next]_vars => Leaders'
<1> SUFFICES ASSUME ElectionInv, [Next]_vars, NEW m \in Masters, Leads(m)'
             PROVE  /\ registered'[m]
                    /\ IsSmallestOf(m, live)'
                    /\ event'[m] = "decide" => eventMin'[m] = m
  BY DEF Leaders
<1>a. TypeOK /\ Leaders /\ Quiet
  BY DEF ElectionInv
<1>b. Open(m)' /\ isLeader'[m]
  BY DEF Leads, Open
<1>c. Open(m)
  BY <1>a, <1>b
     DEF Next, Thread, Register, RegisterFails, MainCheck, MainDecide, WatchChildren,
         EventCheck, EventDecide, CloseSession, vars, serverVars, Open, TypeOK
<1>d. isLeader[m] => /\ registered[m] /\ IsSmallestOf(m, live)
                     /\ event[m] = "decide" => eventMin[m] = m
                     /\ main[m] \notin {"start", "check", "decide"}
  BY <1>a, <1>c DEF Leaders, Leads, Quiet
<1> SUFFICES /\ registered'[m]
             /\ IsSmallestOf(m, live)
             /\ event'[m] = "decide" => eventMin'[m] = m
  BY <1>b, SmallestIsStable
<1>1. ASSUME NEW k \in Masters,
             \/ Register(k) \/ RegisterFails(k) \/ MainCheck(k)
             \/ WatchChildren(k) \/ CloseSession(k)
      PROVE  /\ registered'[m] /\ IsSmallestOf(m, live)
             /\ event'[m] = "decide" => eventMin'[m] = m
  <2>1. isLeader'[m] = isLeader[m] /\ UNCHANGED <<event, eventMin>>
    BY <1>1 DEF Register, RegisterFails, MainCheck, WatchChildren, CloseSession, eventVars
  <2>2. registered[m] => registered'[m]
    BY <1>1, <1>a
       DEF Register, RegisterFails, MainCheck, WatchChildren, CloseSession, mainVars, TypeOK
  <2> QED BY <2>1, <2>2, <1>b, <1>d
<1>2. ASSUME NEW k \in Masters, MainDecide(k)
      PROVE  /\ registered'[m] /\ IsSmallestOf(m, live)
             /\ event'[m] = "decide" => eventMin'[m] = m
  <2>1. UNCHANGED <<registered, event, eventMin>>
    BY <1>2 DEF MainDecide, eventVars
  <2>2. CASE isLeader[m]
    BY <2>1, <2>2, <1>d
  <2>3. CASE ~isLeader[m]
    <3>1. k = m /\ registered[m] /\ mainMin[m] = m /\ main[m] = "decide"
      BY <1>2, <2>3, <1>a, <1>b DEF MainDecide, Decide, TypeOK
    <3>2. event[m] = "idle"
      BY <3>1, <1>a DEF Quiet
    <3> QED BY <2>1, <3>1, <3>2, <1>c DEF ElectionInv, Snapshots
  <2> QED BY <2>2, <2>3
<1>3. ASSUME NEW k \in Masters, EventCheck(k)
      PROVE  /\ registered'[m] /\ IsSmallestOf(m, live)
             /\ event'[m] = "decide" => eventMin'[m] = m
  <2>1. isLeader[m] /\ UNCHANGED registered
    BY <1>3, <1>b DEF EventCheck, mainVars
  <2>2. CASE k = m
    <3>1. PICK min \in Masters \cup {NoMaster} :
            /\ ChildrenAnswer(m, min)
            /\ eventMin' = [eventMin EXCEPT ![m] = min]
            /\ event' = [event EXCEPT ![m] = IF min = NoMaster THEN "idle" ELSE "decide"]
      BY <1>3, <2>2 DEF EventCheck
    <3>2. CASE min = NoMaster
      BY <3>1, <3>2, <2>1, <1>d, <1>a DEF TypeOK
    <3>3. CASE min # NoMaster
      <4>1. IsSmallestOf(min, live) /\ min \in Masters
        BY <3>1, <3>3 DEF ChildrenAnswer
      <4>2. min = m
        BY <4>1, <2>1, <1>d, SmallestIsUnique DEF ElectionInv
      <4> QED BY <3>1, <4>2, <2>1, <1>d, <1>a DEF TypeOK
    <3> QED BY <3>2, <3>3
  <2>3. CASE k # m
    BY <1>3, <2>1, <2>3, <1>d, <1>a DEF EventCheck, TypeOK
  <2> QED BY <2>2, <2>3
<1>4. ASSUME NEW k \in Masters, EventDecide(k)
      PROVE  /\ registered'[m] /\ IsSmallestOf(m, live)
             /\ event'[m] = "decide" => eventMin'[m] = m
  <2>1. UNCHANGED registered /\ (event'[m] = "decide" => event[m] = "decide" /\ k # m)
    BY <1>4, <1>a DEF EventDecide, mainVars, TypeOK
  <2>c. k # m => eventMin'[m] = eventMin[m]
    BY <1>4, <1>a DEF EventDecide, TypeOK
  <2>2. CASE isLeader[m]
    BY <2>1, <2>c, <2>2, <1>d
  <2>3. CASE ~isLeader[m]
    <3>1. k = m /\ registered[m] /\ eventMin[m] = m /\ event[m] = "decide"
      BY <1>4, <2>3, <1>a, <1>b DEF EventDecide, Decide, TypeOK
    <3> QED BY <2>1, <3>1, <1>c DEF ElectionInv, Snapshots
  <2> QED BY <2>2, <2>3
<1>5. CASE UNCHANGED vars
  BY <1>5, <1>b, <1>d DEF vars, mainVars, eventVars
<1> QED
  BY <1>1, <1>2, <1>3, <1>4, <1>5 DEF Next, Thread

-----------------------------------------------------------------------------

\* The inductive invariant holds of every behaviour of the election.
THEOREM InvariantHolds == Spec => []ElectionInv
<1>1. ElectionInv /\ [Next]_vars => ElectionInv'
  BY TypeStep, ZnodesStep, OwnsStep, QuietStep, SnapshotsStep, LeadersStep
     DEF ElectionInv
<1> QED
  BY <1>1, InitInv, PTL DEF Spec

\* The model's variables keep their types, for any number of masters.
THEOREM TypeCorrect == Spec => []TypeOK
<1>1. ElectionInv => TypeOK
  BY DEF ElectionInv
<1> QED BY <1>1, InvariantHolds, PTL

\* However many masters start, fail and expire, and whatever calls fail, the
\* master that believes it leads and can still write owns the smallest znode.
THEOREM LeaderOwnsSmallest == Spec => []LeaderIsSmallest
<1>1. ElectionInv => LeaderIsSmallest
  BY DEF ElectionInv, Leaders, LeaderIsSmallest
<1> QED BY <1>1, InvariantHolds, PTL

\* ... and so no two of them write task records at once.
THEOREM OneLeader == Spec => []AtMostOneLeader
<1>1. ElectionInv => AtMostOneLeader
  BY SmallestIsUnique DEF ElectionInv, Leaders, AtMostOneLeader
<1> QED BY <1>1, InvariantHolds, PTL

\* A leader's stale list, on either thread, never makes it give the lead up.
LEMMA LeaderKeeps ==
    ASSUME ElectionInv, [Next]_vars, NEW m \in Masters, Leads(m),
           session'[m] = "open"
    PROVE  isLeader'[m]
<1>a. TypeOK
  BY DEF ElectionInv
<1>b. /\ registered[m] /\ isLeader[m] /\ main[m] # "decide"
      /\ event[m] = "decide" => eventMin[m] = m
  BY DEF ElectionInv, Leaders, Leads, Quiet
<1>1. ASSUME NEW k \in Masters, MainDecide(k) \/ EventDecide(k)
      PROVE  isLeader'[m]
  BY <1>1, <1>a, <1>b DEF MainDecide, EventDecide, Decide, TypeOK
<1> QED
  BY <1>1, <1>b
     DEF Next, Thread, Register, RegisterFails, MainCheck, WatchChildren, EventCheck,
         CloseSession, vars

\* ... so it leads until its session ends.
THEOREM LeadershipStable == Spec => LeadershipIsStable
<1>1. ElectionInv /\ [Next]_vars
        => [\A m \in Masters : Leads(m) /\ session'[m] = "open" => isLeader'[m]]_vars
  BY LeaderKeeps
<1> QED BY <1>1, InvariantHolds, PTL DEF Spec, LeadershipIsStable

-----------------------------------------------------------------------------
(* The election implements Leadership *)

ServiceStep == [Service!LeadershipNext]_(Service!leadershipVars)

\* A step that changes neither znodes nor who leads is none of Leadership's.
LEMMA ServiceStutters ==
    ASSUME TypeOK, UNCHANGED <<live, seq, nextSeq>>,
           \A k \in Masters : Leads(k)' <=> Leads(k)
    PROVE  ServiceStep
<1>1. {k \in Masters : Leads(k)}' = {k \in Masters : Leads(k)}
  OBVIOUS
<1> QED BY <1>1 DEF ServiceStep, Service!leadershipVars

\* A znode's creation, told to its owner or not, is a candidacy.
LEMMA RegisterImplements ==
    ASSUME ElectionInv, NEW m \in Masters, main[m] = "start",
           seq' = [seq EXCEPT ![m] = nextSeq], nextSeq' = nextSeq + 1,
           live' = live \cup {m}, UNCHANGED <<session, isLeader>>
    PROVE  Service!ComeForward(m)
<1>1. seq[m] = 0
  BY DEF ElectionInv, Owns
<1>2. {k \in Masters : Leads(k)}' = {k \in Masters : Leads(k)}
  BY DEF Leads, Open
<1> QED BY <1>1, <1>2 DEF Service!ComeForward

\* Either thread's decision takes a lead nobody holds, or changes nothing.
LEMMA DecideImplements ==
    ASSUME ElectionInv, ElectionInv', [Next]_vars, NEW m \in Masters,
           NEW min, Decide(m, min), UNCHANGED serverVars
    PROVE  ServiceStep
<1>a. TypeOK
  BY DEF ElectionInv
<1>b. UNCHANGED <<live, seq, nextSeq, session>>
  BY DEF serverVars
<1>1. \A k \in Masters \ {m} : Leads(k)' <=> Leads(k)
  BY <1>a, <1>b DEF Decide, Leads, Open, TypeOK
<1>2. Leads(m) => Leads(m)'
  BY <1>b, LeaderKeeps DEF Leads, Open
<1>3. CASE Leads(m)' <=> Leads(m)
  BY <1>1, <1>3, <1>a, <1>b, ServiceStutters
<1>4. CASE ~Leads(m) /\ Leads(m)'
  <2>1. IsSmallestOf(m, live)
    BY <1>4, <1>b DEF ElectionInv, Leaders, IsSmallestOf
  <2>2. \A k \in Masters : Leads(k)' => k = m
    <3>1. TAKE k \in Masters
    <3>2. HAVE Leads(k)'
    <3>3. IsSmallestOf(k, live) /\ IsSmallestOf(m, live)
      BY <3>2, <2>1, <1>b DEF ElectionInv, Leaders, IsSmallestOf
    <3> QED BY <3>3, SmallestIsUnique DEF ElectionInv
  <2>3. {k \in Masters : Leads(k)} = {} /\ {k \in Masters : Leads(k)}' = {m}
    BY <2>2, <1>1, <1>4
  <2>4. Service!TakeLead(m)
    BY <2>1, <2>3, <1>b DEF Service!TakeLead, IsSmallestOf
  <2> QED BY <2>4 DEF ServiceStep, Service!LeadershipNext
<1> QED BY <1>2, <1>3, <1>4

\* A session that ends takes its znode, and the lead if it had it, with it.
LEMMA CloseImplements ==
    ASSUME ElectionInv, NEW m \in Masters, CloseSession(m)
    PROVE  ServiceStep
<1>a. TypeOK
  BY DEF ElectionInv
<1>1. /\ \A k \in Masters \ {m} : Leads(k)' <=> Leads(k)
      /\ ~Leads(m)'
      /\ UNCHANGED <<seq, nextSeq>> /\ live' = live \ {m}
  BY <1>a DEF CloseSession, Leads, Open, TypeOK
<1>2. CASE m \in live
  <2>1. {k \in Masters : Leads(k)}' = {k \in Masters : Leads(k)} \ {m}
    BY <1>1
  <2>2. Service!Leave(m)
    BY <1>1, <1>2, <2>1 DEF Service!Leave
  <2> QED BY <2>2 DEF ServiceStep, Service!LeadershipNext
<1>3. CASE m \notin live
  <2>1. ~Leads(m) /\ live' = live
    BY <1>1, <1>3 DEF ElectionInv, Leaders, IsSmallestOf
  <2> QED BY <1>1, <1>a, <2>1, ServiceStutters
<1> QED BY <1>2, <1>3

\* Every step of the election is a step of Leadership or none.
LEMMA StepImplements ==
    ASSUME ElectionInv, ElectionInv', [Next]_vars
    PROVE  ServiceStep
<1>a. TypeOK
  BY DEF ElectionInv
<1>1. ASSUME UNCHANGED <<live, seq, nextSeq, session, isLeader>> PROVE ServiceStep
  BY <1>1, <1>a, ServiceStutters DEF Leads, Open
<1>2. ASSUME NEW m \in Masters, Register(m) PROVE ServiceStep
  BY <1>2, RegisterImplements DEF Register, ServiceStep, Service!LeadershipNext
<1>3. ASSUME NEW m \in Masters, RegisterFails(m) PROVE ServiceStep
  <2>1. CASE UNCHANGED <<nextSeq, seq, live>>
    BY <1>1, <1>3, <2>1 DEF RegisterFails
  <2>2. CASE /\ seq' = [seq EXCEPT ![m] = nextSeq]
             /\ nextSeq' = nextSeq + 1
             /\ live' = live \cup {m}
    BY <1>3, <2>2, RegisterImplements
       DEF RegisterFails, ServiceStep, Service!LeadershipNext
  <2> QED BY <1>3, <2>1, <2>2 DEF RegisterFails
<1>4. ASSUME NEW m \in Masters, MainCheck(m) \/ WatchChildren(m) \/ EventCheck(m)
      PROVE  ServiceStep
  BY <1>1, <1>4 DEF MainCheck, WatchChildren, EventCheck, serverVars
<1>5. ASSUME NEW m \in Masters, MainDecide(m) PROVE ServiceStep
  BY <1>5, DecideImplements DEF MainDecide
<1>6. ASSUME NEW m \in Masters, EventDecide(m) PROVE ServiceStep
  BY <1>6, DecideImplements DEF EventDecide
<1>7. ASSUME NEW m \in Masters, CloseSession(m) PROVE ServiceStep
  BY <1>7, CloseImplements
<1>8. CASE UNCHANGED vars
  BY <1>1, <1>8 DEF vars, serverVars
<1> QED
  BY <1>2, <1>3, <1>4, <1>5, <1>6, <1>7, <1>8 DEF Next, Thread

\* The election of any number of masters keeps the promise of Leadership: stale
\* lists, lost watches and failed calls never let the lead change hands but from
\* a master that is gone to the one whose znode is oldest.
THEOREM ElectionImplementsLeadership == Spec => LeadInTurn
<1>1. Init => Service!LeadershipInit
  BY DEF Init, Service!LeadershipInit, Leads
<1>2. ElectionInv /\ ElectionInv' /\ [Next]_vars => ServiceStep
  BY StepImplements
<1> QED
  BY <1>1, <1>2, InvariantHolds, PTL
     DEF Spec, LeadInTurn, Service!LeadershipSpec, ServiceStep
=============================================================================
