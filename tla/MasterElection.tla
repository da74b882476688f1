--------------------------- MODULE MasterElection ---------------------------
(***************************************************************************)
(* Leader election among the masters of the task orchestrator (src/36).    *)
(*                                                                         *)
(* Every master owns one ephemeral sequential znode under /masters; the    *)
(* owner of the smallest is the leader.  A master learns of changes from   *)
(* one-shot ZooKeeper watches and re-evaluates on its event thread, while  *)
(* its main thread may still be inside tryElection.  A znode is named here *)
(* by the master that owns it, seq orders the znodes.                      *)
(*                                                                         *)
(* ZkService swallows every exception: a failed getChildren returns the    *)
(* empty list, a failed addWatch registers nothing, a failed create        *)
(* returns null.  faults counts such failures of an open session, at most  *)
(* MaxFaults of them.                                                      *)
(***************************************************************************)
EXTENDS Integers

CONSTANTS Masters,    \* master processes; a restarted one is a new element
          NoMaster,   \* "the list of children was empty"
          MaxFaults   \* bound: ZooKeeper calls that fail on an open session

ASSUME NoMasterAssumption == NoMaster \notin Masters
ASSUME MaxFaultsAssumption == MaxFaults \in Nat

VARIABLES
    nextSeq,    \* sequence number ZooKeeper gives to the next znode
    seq,        \* seq[m]: number of m's znode, 0 before it exists
    live,       \* masters whose znode exists
    session,    \* session[m]: "open" until it is closed or expires
    registered, \* registered[m]: currentMasterPath is known to m
    isLeader,   \* isLeader[m]: the flag the scheduled passes test
    main,       \* main[m]: where m's tryElection is
    mainMin,    \* mainMin[m]: smallest child the main thread read
    event,      \* event[m]: where m's event thread is
    eventMin,   \* eventMin[m]: smallest child the event thread read
    pending,    \* pending[m]: fired watches not yet handled by m
    childWatch, \* childWatch[m]: m watches the children of /masters
    nodeWatch,  \* nodeWatch[m][k]: watchers m has on k's znode
    faults

serverVars == <<nextSeq, seq, live, session>>
watchVars  == <<pending, childWatch, nodeWatch>>
mainVars   == <<registered, main, mainMin>>
eventVars  == <<event, eventMin>>
vars == <<serverVars, mainVars, eventVars, watchVars, isLeader, faults>>

MainStates  == {"start", "check", "decide", "watchChildren", "done"}
EventStates == {"idle", "decide"}

TypeOK ==
    /\ nextSeq \in Nat \ {0}
    /\ seq \in [Masters -> Nat]
    /\ live \subseteq Masters
    /\ session \in [Masters -> {"open", "closed"}]
    /\ registered \in [Masters -> BOOLEAN]
    /\ isLeader \in [Masters -> BOOLEAN]
    /\ main \in [Masters -> MainStates]
    /\ mainMin \in [Masters -> Masters \cup {NoMaster}]
    /\ event \in [Masters -> EventStates]
    /\ eventMin \in [Masters -> Masters \cup {NoMaster}]
    /\ pending \in [Masters -> Nat]
    /\ childWatch \in [Masters -> BOOLEAN]
    /\ nodeWatch \in [Masters -> [Masters -> Nat]]
    /\ faults \in 0..MaxFaults

Init ==
    /\ nextSeq = 1
    /\ seq = [m \in Masters |-> 0]
    /\ live = {}
    /\ session = [m \in Masters |-> "open"]
    /\ registered = [m \in Masters |-> FALSE]
    /\ isLeader = [m \in Masters |-> FALSE]
    /\ main = [m \in Masters |-> "start"]
    /\ mainMin = [m \in Masters |-> NoMaster]
    /\ event = [m \in Masters |-> "idle"]
    /\ eventMin = [m \in Masters |-> NoMaster]
    /\ pending = [m \in Masters |-> 0]
    /\ childWatch = [m \in Masters |-> FALSE]
    /\ nodeWatch = [m \in Masters |-> [k \in Masters |-> 0]]
    /\ faults = 0

-----------------------------------------------------------------------------
(* ZooKeeper, as ZkService uses it *)

Open(m) == session[m] = "open"

\* getChildren, sorted: the smallest of the znodes of S.
IsSmallestOf(k, S) == k \in S /\ \A j \in S : seq[k] <= seq[j]

\* Mutant of ChildrenAnswer: the children are not sorted.
AnyChildAnswer(m, min) ==
    \/ /\ Open(m) /\ min \in live
       /\ UNCHANGED faults
    \/ /\ min = NoMaster
       /\ Open(m) => live = {}
       /\ UNCHANGED faults

\* What getChildren answers: the smallest live znode, or nothing when the
\* session is closed, the directory is empty or (fault) the call failed.
ChildrenAnswer(m, min) ==
    \/ /\ Open(m)
       /\ IsSmallestOf(min, live)
       /\ UNCHANGED faults
    \/ /\ min = NoMaster
       /\ Open(m) => live = {}
       /\ UNCHANGED faults
    \/ /\ min = NoMaster
       /\ Open(m)
       /\ faults < MaxFaults
       /\ faults' = faults + 1

\* A change of the children of /masters fires and consumes every child watch;
\* deleting a znode also fires the watches on it.
FireChildWatches ==
    /\ pending' = [k \in Masters |-> pending[k] + (IF childWatch[k] THEN 1 ELSE 0)]
    /\ childWatch' = [k \in Masters |-> FALSE]
    /\ UNCHANGED nodeWatch

FireDeletion(m) ==
    /\ pending' = [k \in Masters |->
                     IF k = m THEN 0
                     ELSE pending[k] + nodeWatch[k][m] + (IF childWatch[k] THEN 1 ELSE 0)]
    /\ childWatch' = [k \in Masters |-> FALSE]
    /\ nodeWatch' = [k \in Masters |->
                       [j \in Masters |-> IF m \in {k, j} THEN 0 ELSE nodeWatch[k][j]]]

\* exists(path, watcher): on a znode that is already gone the watch waits for a
\* creation that never comes, for sequence numbers are not reused.
AddWatch(m, k) ==
    \/ /\ Open(m) /\ k \in live
       /\ nodeWatch' = [nodeWatch EXCEPT ![m][k] = @ + 1]
       /\ UNCHANGED <<pending, childWatch, faults>>
    \/ /\ ~(Open(m) /\ k \in live)
       /\ UNCHANGED <<watchVars, faults>>
    \/ /\ Open(m) /\ faults < MaxFaults
       /\ faults' = faults + 1
       /\ UNCHANGED watchVars

-----------------------------------------------------------------------------
(* tryElection, on the main thread *)

\* createEphemeralSequential answered: the path is known.
Register(m) ==
    /\ main[m] = "start" /\ Open(m)
    /\ seq' = [seq EXCEPT ![m] = nextSeq]
    /\ nextSeq' = nextSeq + 1
    /\ live' = live \cup {m}
    /\ FireChildWatches
    /\ registered' = [registered EXCEPT ![m] = TRUE]
    /\ main' = [main EXCEPT ![m] = "check"]
    /\ UNCHANGED <<session, mainMin, eventVars, isLeader, faults>>

\* The create failed and returned null.  The znode exists all the same when the
\* connection broke after the server had applied the request.
RegisterFails(m) ==
    /\ main[m] = "start"
    /\ \/ /\ ~Open(m)
          /\ UNCHANGED <<nextSeq, seq, live, watchVars, faults>>
       \/ /\ Open(m) /\ faults < MaxFaults
          /\ faults' = faults + 1
          /\ UNCHANGED <<nextSeq, seq, live, watchVars>>
       \/ /\ Open(m) /\ faults < MaxFaults
          /\ faults' = faults + 1
          /\ seq' = [seq EXCEPT ![m] = nextSeq]
          /\ nextSeq' = nextSeq + 1
          /\ live' = live \cup {m}
          /\ FireChildWatches
    /\ main' = [main EXCEPT ![m] = "check"]
    /\ UNCHANGED <<session, registered, mainMin, eventVars, isLeader>>

\* checkLeadership: getChildren; an empty answer returns at once.
MainCheck(m) ==
    /\ main[m] = "check"
    /\ \E min \in Masters \cup {NoMaster} :
         /\ ChildrenAnswer(m, min)
         /\ mainMin' = [mainMin EXCEPT ![m] = min]
         /\ main' = [main EXCEPT ![m] = IF min = NoMaster THEN "watchChildren"
                                                           ELSE "decide"]
    /\ UNCHANGED <<serverVars, registered, eventVars, watchVars, isLeader>>

\* checkLeadership after the read, which is forgotten: take the lead, or give it
\* up and watch the smallest znode.
Decide(m, min) ==
    IF registered[m] /\ min = m
      THEN /\ isLeader' = [isLeader EXCEPT ![m] = TRUE]
           /\ UNCHANGED <<watchVars, faults>>
      ELSE /\ isLeader' = [isLeader EXCEPT ![m] = FALSE]
           /\ AddWatch(m, min)

MainDecide(m) ==
    /\ main[m] = "decide"
    /\ Decide(m, mainMin[m])
    /\ main' = [main EXCEPT ![m] = "watchChildren"]
    /\ mainMin' = [mainMin EXCEPT ![m] = NoMaster]
    /\ UNCHANGED <<serverVars, registered, eventVars>>

\* The last call of tryElection: getChildren with a watcher.
WatchChildren(m) ==
    /\ main[m] = "watchChildren"
    /\ \/ /\ Open(m)
          /\ childWatch' = [childWatch EXCEPT ![m] = TRUE]
          /\ UNCHANGED faults
       \/ /\ ~Open(m)
          /\ UNCHANGED <<childWatch, faults>>
       \/ /\ Open(m) /\ faults < MaxFaults
          /\ faults' = faults + 1
          /\ UNCHANGED childWatch
    /\ main' = [main EXCEPT ![m] = "done"]
    /\ UNCHANGED <<serverVars, registered, mainMin, eventVars, pending, nodeWatch, isLeader>>

-----------------------------------------------------------------------------
(* The watchers, on the event thread: both call checkLeadership *)

\* Mutants of EventCheck: the watcher checks without being called; it ignores the
\* event it is called with.
EventCheckUncalled(m) ==
    /\ event[m] = "idle"
    /\ pending' = [pending EXCEPT ![m] = @ - 1]
    /\ \E min \in Masters \cup {NoMaster} :
         /\ ChildrenAnswer(m, min)
         /\ eventMin' = [eventMin EXCEPT ![m] = min]
         /\ event' = [event EXCEPT ![m] = IF min = NoMaster THEN "idle" ELSE "decide"]
    /\ UNCHANGED <<serverVars, mainVars, childWatch, nodeWatch, isLeader>>
EventIgnored(m) ==
    /\ event[m] = "idle" /\ pending[m] > 0
    /\ pending' = [pending EXCEPT ![m] = @ - 1]
    /\ UNCHANGED <<serverVars, mainVars, eventVars, childWatch, nodeWatch, isLeader, faults>>

EventCheck(m) ==
    /\ event[m] = "idle" /\ pending[m] > 0
    /\ pending' = [pending EXCEPT ![m] = @ - 1]
    /\ \E min \in Masters \cup {NoMaster} :
         /\ ChildrenAnswer(m, min)
         /\ eventMin' = [eventMin EXCEPT ![m] = min]
         /\ event' = [event EXCEPT ![m] = IF min = NoMaster THEN "idle" ELSE "decide"]
    /\ UNCHANGED <<serverVars, mainVars, childWatch, nodeWatch, isLeader>>

EventDecide(m) ==
    /\ event[m] = "decide"
    /\ Decide(m, eventMin[m])
    /\ event' = [event EXCEPT ![m] = "idle"]
    /\ eventMin' = [eventMin EXCEPT ![m] = NoMaster]
    /\ UNCHANGED <<serverVars, mainVars>>

\* Mutant of CloseSession: the znode is persistent and outlives the session.
CloseSessionOnly(m) ==
    /\ Open(m)
    /\ session' = [session EXCEPT ![m] = "closed"]
    /\ UNCHANGED <<live, nextSeq, seq, mainVars, eventVars, watchVars, isLeader, faults>>

\* shutdown() closes the session; a killed or partitioned master's session
\* expires.  The process may live on: its flag stays, its calls all fail.
CloseSession(m) ==
    /\ Open(m)
    /\ session' = [session EXCEPT ![m] = "closed"]
    /\ live' = live \ {m}
    /\ IF m \in live
         THEN FireDeletion(m)
         ELSE /\ pending' = [pending EXCEPT ![m] = 0]
              /\ childWatch' = [childWatch EXCEPT ![m] = FALSE]
              /\ nodeWatch' = [nodeWatch EXCEPT ![m] = [k \in Masters |-> 0]]
    /\ UNCHANGED <<nextSeq, seq, mainVars, eventVars, isLeader, faults>>

-----------------------------------------------------------------------------

Thread(m) ==
    \/ Register(m) \/ RegisterFails(m)
    \/ MainCheck(m) \/ MainDecide(m) \/ WatchChildren(m)
    \/ EventCheck(m) \/ EventDecide(m)

Next == \E m \in Masters : Thread(m) \/ CloseSession(m)

Spec == Init /\ [][Next]_vars

\* Both threads of a running process keep running; sessions need not close.
Fairness ==
    \A m \in Masters :
        /\ WF_vars(Register(m) \/ RegisterFails(m) \/ MainCheck(m) \/ MainDecide(m) \/ WatchChildren(m))
        /\ WF_vars(EventCheck(m) \/ EventDecide(m))

FairSpec == Spec /\ Fairness

-----------------------------------------------------------------------------
(* Properties *)

\* A master that can still write to ZooKeeper and believes it leads.
Leads(m) == Open(m) /\ isLeader[m]

\* At most one master with an open session believes it is the leader, so no two
\* masters' scheduling and crash-check passes write task records at once: the
\* stale flag of an expired master (MasterScheduler.isLeader) writes nothing.
AtMostOneLeader == \A m, k \in Masters : Leads(m) /\ Leads(k) => m = k

\* The leader owns the smallest znode, whatever stale list either of its two
\* threads acted on.
LeaderIsSmallest == \A m \in Masters : Leads(m) => IsSmallestOf(m, live)

\* checkLeadership never takes the lead away from a master whose session is
\* open: a leader leads until its session ends.
LeadershipIsStable == [][\A m \in Masters : Leads(m) /\ session'[m] = "open" => isLeader'[m]]_vars

\* The election implements Leadership: a znode is a candidacy, its number the
\* time of arrival, and who holds the lead is who can write and has its flag up.
Service == INSTANCE Leadership WITH
    candidates <- live,
    arrival    <- seq,
    clock      <- nextSeq,
    leading    <- {m \in Masters : Leads(m)}

\* Whatever the watches, the stale lists and the failed calls do, every step of
\* the two threads of every master is one of Leadership's or none: the lead goes
\* only to the oldest znode, only while nobody leads, never back to a master
\* whose session ended, and stays until its holder's session ends.
LeadInTurn == Service!LeadershipSpec

\* A fired watch is never wasted: the smallest master that has one to handle
\* takes the lead (or loses its session), unless a call fails.
HandoverCompletes ==
    \A m \in Masters :
        (Open(m) /\ registered[m] /\ IsSmallestOf(m, live) /\ pending[m] > 0 /\ faults = MaxFaults)
            ~> (isLeader[m] \/ ~Open(m))

\* README.md of src/36: several masters may be started and one is elected leader
\* automatically.  A master whose tryElection ran and whose session stays open
\* is not left without a leader.
LeaderIsElected ==
    \A m \in Masters :
        (Open(m) /\ main[m] = "done") ~> (~Open(m) \/ \E k \in Masters : Leads(k))
=============================================================================
