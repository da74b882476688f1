----------------------- MODULE TaskOrchestratorProofs -----------------------
(***************************************************************************)
(* Proofs, for any DAG, any number of workers, threads, crashes and failed *)
(* calls, of the safety properties of TaskOrchestrator.                    *)
(***************************************************************************)
EXTENDS TaskOrchestrator, TLAPS

-----------------------------------------------------------------------------
(* Types of what the actions write *)

LEMMA RecType ==
    ASSUME NEW s \in Statuses, NEW n \in Nat
    PROVE  Rec(s, n) \in Record
BY DEF Rec, Record

LEMMA AbsentType == Absent \in Record
BY DEF Absent, Record

LEMMA IdleTypes ==
    /\ IdlePoll \in Poll /\ FreeThread \in Thread
    /\ IdleSched \in Sched /\ IdleCheck \in Check /\ NoMap \in [Tasks -> Record]
BY AbsentType
   DEF IdlePoll, Poll, FreeThread, Thread, IdleSched, Sched, IdleCheck, Check, NoMap

LEMMA FailsType ==
    ASSUME TypeOK, Fails
    PROVE  faults' \in 0..MaxFaults
BY LimitsAssumption DEF TypeOK, Fails

LEMMA SetDataType ==
    ASSUME TypeOK, NEW t \in Tasks, NEW rec \in Record, SetData(t, rec)
    PROVE  runtime' \in [Tasks -> Record] /\ faults' \in 0..MaxFaults
BY FailsType DEF TypeOK, SetData

LEMMA CreatePersistentType ==
    ASSUME TypeOK, NEW t \in Tasks, NEW rec \in Record, CreatePersistent(t, rec)
    PROVE  runtime' \in [Tasks -> Record] /\ faults' \in 0..MaxFaults
BY FailsType DEF TypeOK, CreatePersistent

LEMMA DeleteNodeType ==
    ASSUME TypeOK, NEW t \in Tasks, DeleteNode(t)
    PROVE  running' \in [Tasks -> Workers \cup {NoWorker}] /\ faults' \in 0..MaxFaults
BY FailsType DEF TypeOK, DeleteNode

\* Whatever the two passes and the threads are working on is a task.
Busy ==
    /\ check.pc = "write" => check.task \in Tasks
    /\ \A w \in Workers : poll[w].pc # "idle" => poll[w].task \in Tasks
    /\ \A e \in Execs : threads[e].pc # "free" => /\ threads[e].task \in Tasks
                                                  /\ threads[e].worker \in Workers

LEMMA InitType == Init => TypeOK /\ Busy
BY LimitsAssumption, AbsentType, IdleTypes
   DEF Init, TypeOK, Busy, Alive, IdlePoll, IdleCheck, FreeThread

LEMMA MasterTypeStep == TypeOK /\ Busy /\ MasterNext => TypeOK'
<1> SUFFICES ASSUME TypeOK, Busy, MasterNext PROVE TypeOK'
  OBVIOUS
<1> USE IdleTypes
<1>1. CASE SchedBegin
  <2>1. sched' \in Sched
    BY <1>1 DEF SchedBegin, IdleSched, Sched
  <2>2. faults' \in 0..MaxFaults
    BY <1>1, FailsType DEF SchedBegin, TypeOK
  <2> QED BY <1>1, <2>1, <2>2 DEF SchedBegin, TypeOK, workerVars
<1>2. ASSUME NEW t \in Tasks, SchedRead(t) PROVE TypeOK'
  <2>1. PICK rec \in {runtime[t], Absent} :
          LET read == [map EXCEPT ![t] = rec]
              seen == {u \in Tasks : read[u] # Absent}
              allDone == seen # {} /\ \A u \in seen : Terminal(read[u])
          IN  /\ IF rec = runtime[t] THEN UNCHANGED faults ELSE Fails
              /\ IF sched.todo # {t}
                   THEN /\ map' = read
                        /\ sched' = [IdleSched EXCEPT !.pc = "read", !.todo = sched.todo \ {t}]
                 ELSE IF allDone
                   THEN /\ map' = NoMap
                        /\ sched' = IdleSched
                 ELSE   /\ map' = read
                        /\ sched' = [IdleSched EXCEPT !.pc = "visit", !.todo = Tasks]
    BY <1>2 DEF SchedRead
  <2>2. rec \in Record
    BY AbsentType DEF TypeOK
  <2>3. map' \in [Tasks -> Record]
    BY <2>1, <2>2 DEF TypeOK
  <2>4. sched' \in Sched
    <3>1. sched.todo \ {t} \in SUBSET Tasks
      BY DEF TypeOK, Sched
    <3>2. \A S \in SUBSET Tasks, pc \in {"read", "visit"} :
            [IdleSched EXCEPT !.pc = pc, !.todo = S] \in Sched
      BY DEF IdleSched, Sched
    <3> QED BY <2>1, <3>1, <3>2
  <2>5. faults' \in 0..MaxFaults
    BY <2>1, FailsType DEF TypeOK
  <2> QED BY <1>2, <2>3, <2>4, <2>5 DEF SchedRead, TypeOK, workerVars
<1>3. ASSUME NEW t \in Tasks, SchedCreate(t) PROVE TypeOK'
  <2>1. Rec("PENDING", 0) \in Record
    BY RecType DEF Statuses
  <2>2. runtime' \in [Tasks -> Record] /\ faults' \in 0..MaxFaults
    BY <1>3, <2>1, CreatePersistentType DEF SchedCreate
  <2>3. map' \in [Tasks -> Record]
    BY <1>3, <2>1 DEF SchedCreate, TypeOK
  <2>4. sched' \in Sched
    BY <1>3 DEF SchedCreate, TypeOK, Sched
  <2> QED BY <1>3, <2>2, <2>3, <2>4 DEF SchedCreate, TypeOK, workerVars
<1>4. ASSUME NEW t \in Tasks, SchedVisit(t) PROVE TypeOK'
  <2>1. Rec("RUNNING", map[t].retry) \in Record
    BY RecType DEF TypeOK, Record, Statuses
  <2>2. runtime' \in [Tasks -> Record] /\ faults' \in 0..MaxFaults
    BY <1>4, <2>1, SetDataType, FailsType DEF SchedVisit, TypeOK
  <2>3. map' \in [Tasks -> Record]
    BY <1>4 DEF SchedVisit, TypeOK
  <2>4. sched' \in Sched
    <3>1. sched.todo \ {t} \in SUBSET Tasks
      BY DEF TypeOK, Sched
    <3>2. [IdleSched EXCEPT !.pc = "visit", !.todo = sched.todo \ {t}] \in Sched
      BY <3>1 DEF IdleSched, Sched
    <3> QED BY <1>4, <3>2 DEF SchedVisit
  <2> QED BY <1>4, <2>2, <2>3, <2>4 DEF SchedVisit, TypeOK, workerVars
<1>a. ASSUME NEW t \in Tasks, CheckNext(t) PROVE check' \in Check
  <2>1. check.nodes \in SUBSET Tasks /\ check.todo \ {t} \in SUBSET Tasks
    BY DEF TypeOK, Check
  <2>2. [IdleCheck EXCEPT !.pc = "scan", !.nodes = check.nodes, !.todo = check.todo \ {t}] \in Check
    BY <2>1, AbsentType DEF IdleCheck, Check
  <2> QED BY <1>a, <2>2 DEF CheckNext
<1>5. CASE CheckBegin
  <2>1. check' \in Check
    <3>1. \A N \in SUBSET Tasks :
            [IdleCheck EXCEPT !.pc = "scan", !.nodes = N, !.todo = Tasks] \in Check
      BY AbsentType DEF IdleCheck, Check
    <3>2. {t \in Tasks : running[t] # NoWorker} \in SUBSET Tasks /\ {} \in SUBSET Tasks
      OBVIOUS
    <3> QED BY <1>5, <3>1, <3>2 DEF CheckBegin
  <2>2. faults' \in 0..MaxFaults
    BY <1>5, FailsType DEF CheckBegin, TypeOK
  <2> QED BY <1>5, <2>1, <2>2 DEF CheckBegin, TypeOK, workerVars
<1>6. ASSUME NEW t \in Tasks, CheckRead(t) PROVE TypeOK'
  <2>1. check' \in Check
    <3>1. CASE check' = [check EXCEPT !.pc = "write", !.task = t, !.rec = runtime[t]]
      BY <3>1 DEF TypeOK, Check
    <3> QED BY <1>6, <3>1, <1>a DEF CheckRead
  <2>2. faults' \in 0..MaxFaults
    BY <1>6, FailsType DEF CheckRead, TypeOK
  <2> QED BY <1>6, <2>1, <2>2 DEF CheckRead, TypeOK, workerVars
<1>7. CASE CheckWrite
  <2>1. check.task \in Tasks
    BY <1>7 DEF CheckWrite, Busy
  <2>2. \A limit : Crashed(check.rec, limit) \in Record
    <3>1. check.rec.retry + 1 \in Nat
      BY DEF TypeOK, Check, Record
    <3> QED BY <3>1, RecType DEF Crashed, Statuses
  <2>3. runtime' \in [Tasks -> Record] /\ faults' \in 0..MaxFaults
    <3>1. CASE SetData(check.task, Crashed(check.rec, MaxRetries[check.task]))
      BY <3>1, <2>1, <2>2, SetDataType
    <3>2. CASE runtime' = [runtime EXCEPT ![check.task] = Crashed(check.rec, 3)] /\ Fails
      BY <3>2, <2>2, FailsType DEF TypeOK
    <3> QED BY <1>7, <3>1, <3>2 DEF CheckWrite
  <2>4. check' \in Check
    BY <1>7, <2>1, <1>a DEF CheckWrite
  <2> QED BY <1>7, <2>3, <2>4 DEF CheckWrite, TypeOK, workerVars
<1>8. CASE MasterFailover
  BY <1>8, LimitsAssumption DEF MasterFailover, TypeOK, workerVars
<1> QED
  BY <1>1, <1>2, <1>3, <1>4, <1>5, <1>6, <1>7, <1>8 DEF MasterNext

LEMMA WorkerTypeStep == TypeOK /\ Busy /\ WorkerNext => TypeOK'
<1> SUFFICES ASSUME TypeOK, Busy, WorkerNext PROVE TypeOK'
  OBVIOUS
<1> USE IdleTypes
<1>1. ASSUME NEW w \in Workers, NEW t \in Tasks, PollRead(w, t) PROVE TypeOK'
  <2>1. [pc |-> "acquire", task |-> t, rec |-> runtime[t]] \in Poll
    BY DEF TypeOK, Poll
  <2> QED BY <1>1, <2>1 DEF PollRead, TypeOK, masterVars
<1>2. ASSUME NEW w \in Workers, PollAcquire(w) PROVE TypeOK'
  <2>1. poll[w].task \in Tasks
    BY <1>2 DEF PollAcquire, Busy
  <2>2. [poll[w] EXCEPT !.pc = "start"] \in Poll
    BY DEF TypeOK, Poll
  <2>3. poll' \in [Workers -> Poll]
    BY <1>2, <2>2 DEF PollAcquire, TypeOK
  <2>4. executing[w] \cup {poll[w].task} \in SUBSET Tasks
    BY <2>1 DEF TypeOK
  <2>5. executing' \in [Workers -> SUBSET Tasks]
    BY <1>2, <2>4 DEF PollAcquire, TypeOK
  <2>6. running' \in [Tasks -> Workers \cup {NoWorker}]
    BY <1>2 DEF PollAcquire, TypeOK
  <2> QED BY <1>2, <2>3, <2>5, <2>6 DEF PollAcquire, TypeOK, masterVars
<1>3. ASSUME NEW w \in Workers, PollSkip(w) PROVE TypeOK'
  <2>1. faults' \in 0..MaxFaults
    BY <1>3, FailsType DEF PollSkip, TypeOK
  <2> QED BY <1>3, <2>1 DEF PollSkip, TypeOK, masterVars
<1>4. ASSUME NEW w \in Workers, PollStart(w) PROVE TypeOK'
  <2>1. poll[w].task \in Tasks /\ poll[w].rec.retry \in Nat
    BY <1>4 DEF PollStart, Busy, TypeOK, Poll, Record
  <2>2. runtime' \in [Tasks -> Record] /\ faults' \in 0..MaxFaults
    BY <1>4, <2>1, RecType, SetDataType DEF PollStart, Statuses
  <2>3. [FreeThread EXCEPT !.pc = "attempt", !.worker = w, !.task = poll[w].task,
                           !.retry = poll[w].rec.retry] \in Thread
    BY <2>1 DEF FreeThread, Thread
  <2>4. threads' \in [Execs -> Thread]
    BY <1>4, <2>3 DEF PollStart, TypeOK
  <2> QED BY <1>4, <2>2, <2>4 DEF PollStart, TypeOK, masterVars
<1>5. ASSUME NEW e \in Execs, Attempt(e) PROVE TypeOK'
  <2>1. threads[e] \in Thread /\ threads[e].task \in Tasks
    BY <1>5 DEF Attempt, Busy, TypeOK
  <2>2. PICK th \in Thread : threads' = [threads EXCEPT ![e] = th]
    <3>1. \A pc \in {"store", "report"}, o \in AllOutcomes :
            /\ [threads[e] EXCEPT !.pc = pc, !.outcome = o] \in Thread
            /\ [threads EXCEPT ![e].pc = pc, ![e].outcome = o]
                = [threads EXCEPT ![e] = [threads[e] EXCEPT !.pc = pc, !.outcome = o]]
      BY <2>1 DEF Thread, TypeOK
    <3>2. [threads EXCEPT ![e].retry = @ + 1]
            = [threads EXCEPT ![e] = [threads[e] EXCEPT !.retry = @ + 1]]
      OBVIOUS
    <3>3. [threads[e] EXCEPT !.retry = @ + 1] \in Thread
      <4>1. threads[e].retry + 1 \in Nat
        BY <2>1 DEF Thread
      <4> QED BY <2>1, <4>1 DEF Thread
    <3>4. CASE threads[e].retry >= Limit(threads[e].task)
      <4>1. threads' = [threads EXCEPT ![e].pc = "report", ![e].outcome = "failure"]
        BY <1>5, <3>4, <2>1, LimitsAssumption DEF Attempt, Thread, Limit, GlobalRetries
      <4> QED BY <3>1, <4>1 DEF AllOutcomes
    <3>5. CASE threads[e].retry < Limit(threads[e].task)
      <4>1. NextAttempt(threads[e]) \in Thread
        BY <2>1, <3>1, <3>3 DEF NextAttempt, AllOutcomes
      <4>2. \/ \E o \in Outcomes :
                 threads' = [threads EXCEPT ![e].pc = "store", ![e].outcome = o]
            \/ threads' = [threads EXCEPT ![e] = NextAttempt(threads[e])]
        BY <1>5, <3>5, <2>1, LimitsAssumption DEF Attempt, Thread, Limit, GlobalRetries
      <4>3. Outcomes \subseteq AllOutcomes
        BY LimitsAssumption
      <4> QED BY <3>1, <4>1, <4>2, <4>3
    <3> QED BY <1>5, <3>4, <3>5 DEF Attempt
  <2>3. threads[e].worker \in Workers /\ overdue' \in [Workers -> SUBSET Tasks]
    BY <1>5, <2>1 DEF Attempt, Busy, TypeOK
  <2> QED BY <1>5, <2>1, <2>2, <2>3 DEF Attempt, TypeOK, masterVars
<1>6. ASSUME NEW e \in Execs, NEW pc \in {"report", "unmark", "release"},
             threads' = [threads EXCEPT ![e].pc = pc]
      PROVE  threads' \in [Execs -> Thread]
  <2>1. [threads[e] EXCEPT !.pc = pc] \in Thread
    BY DEF TypeOK, Thread
  <2> QED BY <1>6, <2>1 DEF TypeOK
<1>7. ASSUME NEW e \in Execs, StoreResult(e) PROVE TypeOK'
  <2>1. threads[e].task \in Tasks
    BY <1>7 DEF StoreResult, Busy
  <2>2. faults' \in 0..MaxFaults /\ result' \subseteq Tasks
    BY <1>7, <2>1, FailsType DEF StoreResult, TypeOK
  <2> QED BY <1>6, <1>7, <2>2 DEF StoreResult, TypeOK, masterVars
<1>8. ASSUME NEW e \in Execs, Report(e) PROVE TypeOK'
  <2>1. threads[e].task \in Tasks
    BY <1>8 DEF Report, Busy
  <2>2. Reported(threads[e]) \in Record
    BY <2>1, RecType DEF Reported, TypeOK, Thread, Statuses
  <2>3. runtime' \in [Tasks -> Record] /\ faults' \in 0..MaxFaults
    BY <1>8, <2>1, <2>2, SetDataType DEF Report, TypeOK
  <2> QED BY <1>6, <1>8, <2>3 DEF Report, TypeOK, masterVars
<1>9. ASSUME NEW e \in Execs, Unmark(e) PROVE TypeOK'
  <2>1. executing' \in [Workers -> SUBSET Tasks]
    BY <1>9 DEF Unmark, TypeOK
  <2> QED BY <1>6, <1>9, <2>1 DEF Unmark, TypeOK, masterVars
<1>10. ASSUME NEW e \in Execs, Release(e) PROVE TypeOK'
  <2>1. threads[e].task \in Tasks
    BY <1>10 DEF Release, Busy
  <2> QED BY <1>10, <2>1, DeleteNodeType DEF Release, TypeOK, masterVars
<1>11. ASSUME NEW w \in Workers, ScanDrops(w) PROVE TypeOK'
  <2>1. executing' \in [Workers -> SUBSET Tasks]
    BY <1>11 DEF ScanDrops, TypeOK
  <2>2. faults' \in 0..MaxFaults
    BY <1>11, FailsType DEF ScanDrops, TypeOK
  <2> QED BY <1>11, <2>1, <2>2 DEF ScanDrops, TypeOK, masterVars
<1>12. ASSUME NEW w \in Workers, Terminate(w) PROVE TypeOK'
  BY <1>12, LimitsAssumption DEF Terminate, Costs, TypeOK, Alive, masterVars
<1>13. ASSUME NEW w \in Workers, NEW t \in Tasks, HookRelease(w, t) PROVE TypeOK'
  BY <1>13, DeleteNodeType DEF HookRelease, TypeOK, masterVars
<1>c. ASSUME NEW w \in Workers, Cleared(w)
      PROVE  /\ executing' \in [Workers -> SUBSET Tasks] /\ hook' \in [Workers -> SUBSET Tasks]
             /\ poll' \in [Workers -> Poll] /\ threads' \in [Execs -> Thread]
             /\ overdue' \in [Workers -> SUBSET Tasks]
  BY <1>c DEF Cleared, TypeOK
<1>14. ASSUME NEW w \in Workers, Kill(w) PROVE TypeOK'
  <2>1. crashes' \in 0..MaxCrashes
    BY <1>14, LimitsAssumption DEF Kill, Costs, TypeOK
  <2> QED BY <1>14, <1>c, <2>1 DEF Kill, TypeOK, Alive, masterVars
<1>15. ASSUME NEW w \in Workers, SessionEnds(w) PROVE TypeOK'
  <2>1. crashes' \in 0..MaxCrashes
    BY <1>15, LimitsAssumption DEF SessionEnds, Costs, TypeOK
  <2>2. running' \in [Tasks -> Workers \cup {NoWorker}]
    BY <1>15 DEF SessionEnds, TypeOK
  <2> QED BY <1>15, <1>c, <2>1, <2>2 DEF SessionEnds, TypeOK, Alive, masterVars
<1>16. ASSUME NEW w \in Workers, NEW t \in Tasks, OverdueEnds(w, t) PROVE TypeOK'
  BY <1>16 DEF OverdueEnds, TypeOK, workerVars, masterVars
<1> QED
  BY <1>1, <1>2, <1>3, <1>4, <1>5, <1>7, <1>8, <1>9, <1>10, <1>11, <1>12, <1>13, <1>14, <1>15,
     <1>16
     DEF WorkerNext

\* What an attempt leaves of its thread: one that will attempt again below its
\* limit, one that reports a failure, or one that stores an outcome.
LEMMA AttemptStep ==
    ASSUME TypeOK, NEW e \in Execs, Attempt(e)
    PROVE  /\ \A f \in Execs \ {e} : threads'[f] = threads[f]
           /\ threads'[e].task = threads[e].task /\ threads'[e].worker = threads[e].worker
           /\ \/ /\ threads'[e].pc = "attempt" /\ threads'[e].retry = threads[e].retry + 1
                 /\ ~(threads[e].retry + 1 >= Limit(threads[e].task))
              \/ /\ threads'[e].pc = "report" /\ threads'[e].retry = threads[e].retry
                 /\ threads'[e].outcome = "failure"
              \/ /\ threads'[e].pc = "store" /\ threads'[e].retry = threads[e].retry
                 /\ threads'[e].outcome \in Outcomes \ {"failure", "timeout"}
                 /\ threads[e].task \in attempted'
<1>1. threads[e] \in Thread /\ threads[e].pc = "attempt"
  BY DEF Attempt, TypeOK
<1>2. \/ threads' = [threads EXCEPT ![e].pc = "report", ![e].outcome = "failure"]
      \/ /\ threads[e].task \in attempted'
         /\ \E o \in Outcomes \ {"failure", "timeout"} :
              threads' = [threads EXCEPT ![e].pc = "store", ![e].outcome = o]
      \/ threads' = [threads EXCEPT ![e] = NextAttempt(threads[e])]
  BY DEF Attempt
<1>3. CASE threads' = [threads EXCEPT ![e].pc = "report", ![e].outcome = "failure"]
  BY <1>1, <1>3 DEF TypeOK, Thread
<1>4. CASE /\ threads[e].task \in attempted'
           /\ \E o \in Outcomes \ {"failure", "timeout"} :
                threads' = [threads EXCEPT ![e].pc = "store", ![e].outcome = o]
  BY <1>1, <1>4 DEF TypeOK, Thread
<1>5. CASE threads' = [threads EXCEPT ![e] = NextAttempt(threads[e])]
  BY <1>1, <1>5 DEF TypeOK, Thread, NextAttempt
<1> QED BY <1>2, <1>3, <1>4, <1>5

-----------------------------------------------------------------------------
(* The order of the DAG.  A record past PENDING is copied by the passes, the   *)
(* polls and the threads, and any copy may be written back at any time later.  *)
(* All of them are of tasks whose upstream results are stored, and a result is *)
(* never deleted.                                                              *)

Ready(t) == Upstream[t] \subseteq result

Copies ==
    /\ check.pc = "write" => Ready(check.task)
    /\ \A w \in Workers : poll[w].pc # "idle" => Ready(poll[w].task)
    /\ \A e \in Execs : threads[e].pc # "free" => Ready(threads[e].task)

History ==
    /\ \A t \in attempted : Ready(t)
    /\ result \subseteq attempted
    /\ \A e \in Execs : threads[e].pc = "store" => threads[e].task \in attempted

OrderInv == TypeOK /\ Busy /\ UpstreamReady /\ Copies /\ History

LEMMA SetDataReady ==
    ASSUME TypeOK, UpstreamReady, NEW t \in Tasks, NEW rec, SetData(t, rec), Ready(t),
           UNCHANGED result
    PROVE  UpstreamReady'
BY DEF SetData, TypeOK, UpstreamReady, Ready

LEMMA InitOrder == Init => OrderInv
BY InitType
   DEF Init, OrderInv, UpstreamReady, Copies, History, Absent, IdlePoll, IdleCheck, FreeThread

LEMMA MasterOrderStep == OrderInv /\ MasterNext => OrderInv'
<1> SUFFICES ASSUME OrderInv, MasterNext PROVE OrderInv'
  OBVIOUS
<1>a. TypeOK /\ Busy /\ UpstreamReady /\ Copies /\ History /\ TypeOK'
  BY MasterTypeStep DEF OrderInv
<1>b. UNCHANGED <<running, result, workerVars, attempted>>
  BY DEF MasterNext, SchedBegin, SchedRead, SchedCreate, SchedVisit, CheckBegin, CheckRead,
         CheckWrite, MasterFailover
<1>c. History'
  BY <1>a, <1>b DEF History, Ready, workerVars
<1>d. ASSUME UNCHANGED runtime PROVE UpstreamReady'
  BY <1>a, <1>b, <1>d DEF UpstreamReady
<1>e. ASSUME check'.pc = "write" => check'.task \in Tasks /\ Ready(check'.task),
             UpstreamReady'
      PROVE  OrderInv'
  BY <1>a, <1>b, <1>c, <1>e DEF OrderInv, Busy, Copies, Ready, workerVars
<1>f. check.pc = "write" => check.task \in Tasks /\ Ready(check.task)
  BY <1>a DEF Busy, Copies
<1>1. CASE SchedBegin
  BY <1>1, <1>d, <1>e, <1>f DEF SchedBegin
<1>2. ASSUME NEW t \in Tasks, SchedRead(t) PROVE OrderInv'
  BY <1>2, <1>d, <1>e, <1>f DEF SchedRead
<1>3. ASSUME NEW t \in Tasks, SchedCreate(t) PROVE OrderInv'
  <2>1. UpstreamReady'
    BY <1>3, <1>a, <1>b DEF SchedCreate, CreatePersistent, UpstreamReady, TypeOK, Rec
  <2> QED BY <1>3, <2>1, <1>e, <1>f DEF SchedCreate
<1>4. ASSUME NEW t \in Tasks, SchedVisit(t) PROVE OrderInv'
  <2>1. CASE SetData(t, Rec("RUNNING", map[t].retry)) /\ Upstream[t] \subseteq result
    <3>1. UpstreamReady'
      BY <2>1, <1>a, <1>b, SetDataReady DEF Ready
    <3> QED BY <1>4, <3>1, <1>e, <1>f DEF SchedVisit
  <2>2. CASE UNCHANGED runtime
    BY <1>4, <2>2, <1>d, <1>e, <1>f DEF SchedVisit
  <2> QED BY <1>4, <2>1, <2>2 DEF SchedVisit, Eligible
<1>g. ASSUME NEW t \in Tasks, CheckNext(t) PROVE check'.pc # "write"
  BY <1>g DEF CheckNext, IdleCheck
<1>5. CASE CheckBegin
  <2>1. check'.pc # "write" /\ UNCHANGED runtime
    BY <1>5 DEF CheckBegin, IdleCheck
  <2> QED BY <2>1, <1>d, <1>e
<1>6. ASSUME NEW t \in Tasks, CheckRead(t) PROVE OrderInv'
  <2>1. UNCHANGED runtime
    BY <1>6 DEF CheckRead
  <2>2. CASE CheckNext(t)
    BY <2>1, <2>2, <1>g, <1>d, <1>e
  <2>3. CASE /\ runtime[t].status = "RUNNING"
             /\ check' = [check EXCEPT !.pc = "write", !.task = t, !.rec = runtime[t]]
    <3>1. check'.task = t
      BY <2>3, <1>a DEF TypeOK, Check
    <3>2. Ready(t)
      BY <2>3, <1>a DEF UpstreamReady, Ready
    <3> QED BY <2>1, <3>1, <3>2, <1>d, <1>e
  <2> QED BY <1>6, <2>2, <2>3 DEF CheckRead
<1>7. CASE CheckWrite
  <2>1. check.task \in Tasks /\ Ready(check.task) /\ CheckNext(check.task)
    BY <1>7, <1>f DEF CheckWrite
  <2>2. CASE SetData(check.task, Crashed(check.rec, MaxRetries[check.task]))
    <3>1. UpstreamReady'
      BY <2>1, <2>2, <1>a, <1>b, SetDataReady
    <3> QED BY <2>1, <3>1, <1>g, <1>e
  <2>3. CASE runtime' = [runtime EXCEPT ![check.task] = Crashed(check.rec, 3)]
    <3>1. UpstreamReady'
      BY <2>1, <2>3, <1>a, <1>b DEF UpstreamReady, TypeOK, Ready
    <3> QED BY <2>1, <3>1, <1>g, <1>e
  <2> QED BY <1>7, <2>2, <2>3 DEF CheckWrite
<1>8. CASE MasterFailover
  <2>1. check'.pc # "write" /\ UNCHANGED runtime
    BY <1>8 DEF MasterFailover, IdleCheck
  <2> QED BY <2>1, <1>d, <1>e
<1> QED
  BY <1>1, <1>2, <1>3, <1>4, <1>5, <1>6, <1>7, <1>8 DEF MasterNext

\* A thread that starts, goes on or ends, stays with a task that is ready.
LEMMA WorkerOrderStep == OrderInv /\ WorkerNext => OrderInv'
<1> SUFFICES ASSUME OrderInv, WorkerNext PROVE OrderInv'
  OBVIOUS
<1>a. TypeOK /\ Busy /\ UpstreamReady /\ Copies /\ History /\ TypeOK'
  BY WorkerTypeStep DEF OrderInv
<1>b. UNCHANGED check
  BY DEF WorkerNext, PollRead, PollAcquire, PollSkip, PollStart, Attempt, StoreResult, Report,
         Unmark, Release, ScanDrops, Terminate, HookRelease, Kill,
         SessionEnds, OverdueEnds, masterVars
<1> DEFINE PollOK(p) == p.pc # "idle" => p.task \in Tasks /\ Ready(p.task)
           ThreadOK(th) == th.pc # "free" => /\ th.task \in Tasks /\ th.worker \in Workers
                                             /\ Ready(th.task)
                                             /\ th.pc = "store" => th.task \in attempted
<1>c. /\ \A w \in Workers : PollOK(poll[w])
      /\ \A e \in Execs : ThreadOK(threads[e])
  BY <1>a DEF Busy, Copies, History
<1>d. ASSUME UNCHANGED <<result, attempted>>, UpstreamReady',
             \A w \in Workers : PollOK(poll'[w]),
             \A e \in Execs : ThreadOK(threads'[e])
      PROVE  OrderInv'
  BY <1>a, <1>b, <1>d DEF OrderInv, Busy, Copies, History, Ready
<1>e. UNCHANGED <<runtime, result>> => UpstreamReady'
  BY <1>a DEF UpstreamReady
<1>1. ASSUME NEW w \in Workers, NEW t \in Tasks, PollRead(w, t) PROVE OrderInv'
  <2>1. Ready(t)
    BY <1>1, <1>a DEF PollRead, UpstreamReady, Ready
  <2>2. \A v \in Workers : PollOK(poll'[v])
    BY <1>1, <2>1, <1>a, <1>c DEF PollRead, TypeOK
  <2> QED BY <1>1, <2>2, <1>c, <1>d, <1>e DEF PollRead
<1>2. ASSUME NEW w \in Workers, PollAcquire(w) PROVE OrderInv'
  <2>1. \A v \in Workers : PollOK(poll'[v])
    BY <1>2, <1>a, <1>c DEF PollAcquire, TypeOK, Poll
  <2> QED BY <1>2, <2>1, <1>c, <1>d, <1>e DEF PollAcquire
<1>3. ASSUME NEW w \in Workers, PollSkip(w) PROVE OrderInv'
  <2>1. \A v \in Workers : PollOK(poll'[v])
    BY <1>3, <1>a, <1>c DEF PollSkip, TypeOK, IdlePoll
  <2> QED BY <1>3, <2>1, <1>c, <1>d, <1>e DEF PollSkip
<1>4. ASSUME NEW w \in Workers, PollStart(w) PROVE OrderInv'
  <2>1. poll[w].task \in Tasks /\ Ready(poll[w].task)
    BY <1>4, <1>c DEF PollStart
  <2>2. UpstreamReady'
    BY <1>4, <2>1, <1>a, SetDataReady DEF PollStart
  <2>3. \A v \in Workers : PollOK(poll'[v])
    BY <1>4, <1>a, <1>c DEF PollStart, TypeOK, IdlePoll
  <2>4. \A e \in Execs : ThreadOK(threads'[e])
    BY <1>4, <2>1, <1>a, <1>c DEF PollStart, TypeOK, FreeThread
  <2> QED BY <1>4, <2>2, <2>3, <2>4, <1>d DEF PollStart
<1>5. ASSUME NEW e \in Execs, Attempt(e) PROVE OrderInv'
  <2>1. threads[e] \in Thread /\ threads[e].task \in Tasks /\ Ready(threads[e].task)
    BY <1>5, <1>a, <1>c DEF Attempt, TypeOK
  <2>2. attempted' \in {attempted, attempted \cup {threads[e].task}}
    BY <1>5 DEF Attempt
  <2>3. /\ \A f \in Execs \ {e} : threads'[f] = threads[f]
        /\ threads'[e].task = threads[e].task /\ threads'[e].worker = threads[e].worker
        /\ threads'[e].pc = "store" => threads'[e].task \in attempted'
    BY <1>5, <2>1, <1>a, AttemptStep
  <2>4. threads'[e].pc \in {"attempt", "store", "report"}
    BY <1>5, <2>1, <1>a, AttemptStep
  <2>6. UpstreamReady' /\ UNCHANGED <<result, poll>>
    BY <1>5, <1>e DEF Attempt
  <2>7. Busy'
    BY <2>1, <2>3, <2>6, <1>5, <1>a, <1>b DEF Busy, Attempt
  <2>8. Copies'
    BY <2>1, <2>3, <2>6, <1>5, <1>a, <1>b DEF Copies, Ready, Attempt
  <2>9. History'
    BY <2>1, <2>2, <2>3, <2>6, <1>a DEF History, Ready
  <2> QED BY <2>6, <2>7, <2>8, <2>9, <1>a DEF OrderInv
<1>6. ASSUME NEW e \in Execs, StoreResult(e) PROVE OrderInv'
  <2>1. /\ threads[e].task \in attempted
        /\ result' \in {result, result \cup {threads[e].task}}
    BY <1>6, <1>c DEF StoreResult
  <2>2. \A t : Ready(t) => Ready(t)'
    BY <2>1 DEF Ready
  <2>3. UpstreamReady'
    BY <1>6, <2>1, <1>a DEF StoreResult, UpstreamReady
  <2>4. threads' = [threads EXCEPT ![e].pc = "report"] /\ UNCHANGED <<poll, attempted>>
    BY <1>6 DEF StoreResult
  <2>6. Busy'
    BY <2>4, <1>6, <1>a, <1>b DEF Busy, TypeOK, Thread, StoreResult
  <2>7. Copies'
    BY <2>2, <2>4, <1>6, <1>a, <1>b DEF Copies, TypeOK, Thread, StoreResult
  <2>8. History'
    BY <2>1, <2>2, <2>4, <1>a DEF History, TypeOK, Thread
  <2> QED BY <2>3, <2>6, <2>7, <2>8, <1>a DEF OrderInv
<1>f. ASSUME NEW e \in Execs, NEW pc \in {"unmark", "release"},
             threads[e].pc # "free", threads' = [threads EXCEPT ![e].pc = pc]
      PROVE  \A f \in Execs : ThreadOK(threads'[f])
  BY <1>f, <1>a, <1>c DEF TypeOK, Thread
<1>7. ASSUME NEW e \in Execs, Report(e) PROVE OrderInv'
  <2>1. threads[e].task \in Tasks /\ Ready(threads[e].task)
    BY <1>7, <1>c DEF Report
  <2>2. UpstreamReady'
    BY <1>7, <2>1, <1>a, <1>e, SetDataReady DEF Report
  <2> QED BY <1>7, <2>2, <1>c, <1>d, <1>f DEF Report
<1>8. ASSUME NEW e \in Execs, Unmark(e) PROVE OrderInv'
  BY <1>8, <1>c, <1>d, <1>e, <1>f DEF Unmark
<1>9. ASSUME NEW e \in Execs, Release(e) PROVE OrderInv'
  <2>1. \A f \in Execs : ThreadOK(threads'[f])
    BY <1>9, <1>a, <1>c DEF Release, TypeOK, FreeThread
  <2> QED BY <1>9, <2>1, <1>c, <1>d, <1>e DEF Release
<1>10. ASSUME NEW w \in Workers, ScanDrops(w) PROVE OrderInv'
  BY <1>10, <1>c, <1>d, <1>e DEF ScanDrops
<1>11. ASSUME NEW w \in Workers, Terminate(w) PROVE OrderInv'
  BY <1>11, <1>c, <1>d, <1>e DEF Terminate
<1>12. ASSUME NEW w \in Workers, NEW t \in Tasks, HookRelease(w, t) PROVE OrderInv'
  BY <1>12, <1>c, <1>d, <1>e DEF HookRelease
<1>13. ASSUME NEW w \in Workers, Kill(w) \/ SessionEnds(w) PROVE OrderInv'
  <2>1. Cleared(w) /\ UNCHANGED <<runtime, result, attempted>>
    BY <1>13 DEF Kill, SessionEnds
  <2>2. \A v \in Workers : PollOK(poll'[v])
    BY <2>1, <1>a, <1>c DEF Cleared, TypeOK, IdlePoll
  <2>3. \A e \in Execs : ThreadOK(threads'[e])
    BY <2>1, <1>a, <1>c DEF Cleared, TypeOK, FreeThread
  <2> QED BY <2>1, <2>2, <2>3, <1>d, <1>e
<1>14. ASSUME NEW w \in Workers, NEW t \in Tasks, OverdueEnds(w, t) PROVE OrderInv'
  BY <1>14, <1>a DEF OverdueEnds, OrderInv, Busy, UpstreamReady, Copies, History, Ready,
                     workerVars, masterVars
<1> QED
  BY <1>1, <1>2, <1>3, <1>4, <1>5, <1>6, <1>7, <1>8, <1>9, <1>10, <1>11, <1>12, <1>13, <1>14
     DEF WorkerNext

LEMMA OrderInvHolds == Spec => []OrderInv
<1>1. OrderInv /\ [Next]_vars => OrderInv'
  <2>1. OrderInv /\ UNCHANGED vars => OrderInv'
    <3> SUFFICES ASSUME OrderInv, UNCHANGED vars PROVE OrderInv'
      OBVIOUS
    <3>1. TypeOK' /\ Busy'
      BY DEF OrderInv, TypeOK, Busy, vars, workerVars, masterVars
    <3>2. UpstreamReady' /\ Copies' /\ History'
      BY DEF OrderInv, UpstreamReady, Copies, History, Ready, vars, workerVars, masterVars
    <3> QED BY <3>1, <3>2 DEF OrderInv
  <2> QED BY <2>1, MasterOrderStep, WorkerOrderStep DEF Next
<1> QED BY <1>1, InitOrder, PTL DEF Spec

\* The model's variables keep their types, whatever the DAG and the bounds.
THEOREM TypeCorrect == Spec => []TypeOK
<1>1. OrderInv => TypeOK
  BY DEF OrderInv
<1> QED BY <1>1, OrderInvHolds, PTL

\* No task gets past PENDING before the results of all its upstream tasks are
\* stored, however stale the copy of its record that is written back.
THEOREM NothingRunsEarly == Spec => []UpstreamReady
<1>1. OrderInv => UpstreamReady
  BY DEF OrderInv
<1> QED BY <1>1, OrderInvHolds, PTL

\* The orchestrator implements DagOrder: an execution's first attempt is Start,
\* its first stored result is Finish, every other step is a stutter.
THEOREM OrderRefinement == Spec => InOrder
<1>1. Init => DO!Init
  BY DEF Init, DO!Init
<1>2. ASSUME OrderInv, [Next]_vars
      PROVE  [DO!Next]_<<attempted, result>>
  <2>a. TypeOK /\ Busy /\ Copies /\ History
    BY <1>2 DEF OrderInv
  <2>1. ASSUME NEW e \in Execs, Attempt(e) PROVE [DO!Next]_<<attempted, result>>
    <3> DEFINE t == threads[e].task
    <3>1. t \in Tasks /\ Ready(t)
      BY <2>1, <2>a DEF Attempt, Busy, Copies
    <3>2. CASE attempted' = attempted \/ t \in attempted
      BY <2>1, <3>2 DEF Attempt
    <3>3. CASE attempted' = attempted \cup {t} /\ t \notin attempted
      BY <2>1, <3>1, <3>3 DEF Attempt, DO!Next, DO!Start, Ready
    <3> QED BY <2>1, <3>2, <3>3 DEF Attempt
  <2>2. ASSUME NEW e \in Execs, StoreResult(e) PROVE [DO!Next]_<<attempted, result>>
    <3> DEFINE t == threads[e].task
    <3>1. t \in Tasks /\ t \in attempted
      BY <2>2, <2>a DEF StoreResult, Busy, History
    <3>2. CASE result' = result \/ t \in result
      BY <2>2, <3>2 DEF StoreResult
    <3>3. CASE result' = result \cup {t} /\ t \notin result
      BY <2>2, <3>1, <3>3 DEF StoreResult, DO!Next, DO!Finish
    <3> QED BY <2>2, <3>2, <3>3 DEF StoreResult
  <2>3. CASE MasterNext
    BY <2>3
       DEF MasterNext, SchedBegin, SchedRead, SchedCreate, SchedVisit, CheckBegin, CheckRead,
           CheckWrite, MasterFailover
  <2>4. CASE UNCHANGED vars
    BY <2>4 DEF vars
  <2> QED
    BY <1>2, <2>1, <2>2, <2>3, <2>4
       DEF Next, WorkerNext, PollRead, PollAcquire, PollSkip, PollStart, Report, Unmark,
           Release, ScanDrops, Terminate, HookRelease, Kill, SessionEnds, OverdueEnds
<1>3. Spec => DO!Init /\ [][DO!Next]_<<attempted, result>>
  BY <1>1, <1>2, OrderInvHolds, PTL DEF Spec
<1> QED BY <1>3 DEF InOrder, DO!Spec

-----------------------------------------------------------------------------
(* The retry counter.  Every copy of a record is within the bound too, so that *)
(* writing an old one back cannot exceed it.                                   *)

Cap == [t \in Tasks |-> RetryLimit(t)]

RetryInv ==
    /\ \A t \in Tasks : Within(t, runtime[t]) /\ Within(t, map[t])
    /\ check.pc = "write" => check.rec.retry <= Cap[check.task]
    /\ \A w \in Workers : poll[w].pc # "idle" => poll[w].rec.retry <= Cap[poll[w].task]
    /\ \A e \in Execs : threads[e].pc # "free" => threads[e].retry <= Cap[threads[e].task]

LEMMA FaultsGrow == TypeOK /\ [Next]_vars => faults' \in {faults, faults + 1}
BY DEF Next, MasterNext, SchedBegin, SchedRead, SchedCreate, SchedVisit, CheckBegin, CheckRead,
       CheckWrite, MasterFailover, WorkerNext, PollRead, PollAcquire, PollSkip, PollStart,
       Attempt, StoreResult, Report, Unmark, Release, ScanDrops, Terminate, HookRelease, Kill,
       SessionEnds, OverdueEnds, SetData, CreatePersistent, DeleteNode, Fails, vars

\* The limit only grows.
LEMMA LimitGrows ==
    ASSUME TypeOK, faults' \in {faults, faults + 1}, NEW t \in Tasks
    PROVE  /\ RetryLimit(t) \in Nat /\ RetryLimit(t)' \in Nat
           /\ RetryLimit(t) <= RetryLimit(t)'
           /\ MaxRetries[t] <= RetryLimit(t) /\ MaxRetries[t] \in Nat
           /\ faults' = faults + 1 => 3 <= RetryLimit(t)'
<1>1. MaxRetries[t] \in Nat /\ faults \in Nat
  BY LimitsAssumption DEF TypeOK
<1> QED BY <1>1 DEF RetryLimit

LEMMA CapGrows ==
    ASSUME TypeOK, faults' \in {faults, faults + 1}, NEW t \in Tasks
    PROVE  /\ Cap[t] = RetryLimit(t) /\ Cap'[t] = RetryLimit(t)'
           /\ Cap[t] \in Nat /\ Cap'[t] \in Nat /\ Cap[t] <= Cap'[t]
           /\ MaxRetries[t] <= Cap[t] /\ MaxRetries[t] \in Nat
           /\ faults' = faults + 1 => 3 <= Cap'[t]
<1>1. Cap[t] = RetryLimit(t) /\ Cap'[t] = RetryLimit(t)'
  BY DEF Cap
<1> QED BY <1>1, LimitGrows

LEMMA WithinStays ==
    ASSUME TypeOK, faults' \in {faults, faults + 1}, NEW t \in Tasks, NEW rec \in Record,
           Within(t, rec)
    PROVE  Within(t, rec)'
<1>1. rec.retry \in Nat
  BY DEF Record
<1>2. /\ RetryLimit(t) \in Nat /\ RetryLimit(t)' \in Nat
      /\ RetryLimit(t) <= RetryLimit(t)'
  BY LimitGrows
<1> QED BY <1>1, <1>2 DEF Within

LEMMA SetDataWithin ==
    ASSUME TypeOK, faults' \in {faults, faults + 1},
           \A u \in Tasks : Within(u, runtime[u]),
           NEW t \in Tasks, NEW rec \in Record, Within(t, rec)',
           runtime' \in {runtime, [runtime EXCEPT ![t] = rec]}
    PROVE  \A u \in Tasks : Within(u, runtime[u])'
<1> SUFFICES ASSUME NEW u \in Tasks PROVE Within(u, runtime[u])'
  OBVIOUS
<1>1. Within(u, runtime[u]) /\ runtime[u] \in Record
  BY DEF TypeOK
<1>2. CASE runtime'[u] = runtime[u]
  BY <1>1, <1>2, WithinStays DEF Within
<1>3. CASE u = t /\ runtime' = [runtime EXCEPT ![t] = rec]
  <2>1. runtime'[u] = rec
    BY <1>3 DEF TypeOK
  <2> QED BY <1>3, <2>1 DEF Within
<1> QED BY <1>2, <1>3 DEF TypeOK

LEMMA InitRetry == Init => RetryInv
<1> SUFFICES ASSUME Init PROVE RetryInv
  OBVIOUS
<1>1. \A t \in Tasks : RetryLimit(t) \in Nat
  BY LimitsAssumption DEF RetryLimit
<1>2. \A t \in Tasks : Within(t, runtime[t]) /\ Within(t, map[t])
  BY <1>1 DEF Init, Within, Absent, NoMap
<1> QED BY <1>2 DEF Init, RetryInv, IdlePoll, IdleCheck, FreeThread

LEMMA MasterRetryStep == OrderInv /\ OrderInv' /\ RetryInv /\ MasterNext => RetryInv'
<1> SUFFICES ASSUME OrderInv, OrderInv', RetryInv, MasterNext PROVE RetryInv'
  OBVIOUS
<1>a. TypeOK /\ TypeOK' /\ Busy /\ UNCHANGED workerVars
  BY DEF OrderInv, MasterNext, SchedBegin, SchedRead, SchedCreate, SchedVisit, CheckBegin,
         CheckRead, CheckWrite, MasterFailover
<1>b. faults' \in {faults, faults + 1}
  BY <1>a, FaultsGrow DEF Next
<1>c. \A t \in Tasks, n \in Nat : n <= Cap[t] => n <= Cap'[t]
  BY <1>a, <1>b, CapGrows
<1>n. \A t \in Tasks : Cap[t] = RetryLimit(t) /\ Cap'[t] = RetryLimit(t)' /\ Cap'[t] \in Nat
  BY <1>a, <1>b, CapGrows
<1>d. /\ \A w \in Workers : poll[w].pc # "idle" => poll[w].rec.retry <= Cap'[poll[w].task]
      /\ \A e \in Execs : threads[e].pc # "free" => threads[e].retry <= Cap'[threads[e].task]
  <2>1. ASSUME NEW w \in Workers, poll[w].pc # "idle"
        PROVE  poll[w].rec.retry <= Cap'[poll[w].task]
    <3>1. poll[w].task \in Tasks /\ poll[w].rec.retry \in Nat
      BY <1>a, <2>1 DEF Busy, TypeOK, Poll, Record
    <3> QED BY <2>1, <3>1, <1>c DEF RetryInv
  <2>2. ASSUME NEW e \in Execs, threads[e].pc # "free"
        PROVE  threads[e].retry <= Cap'[threads[e].task]
    <3>1. threads[e].task \in Tasks /\ threads[e].retry \in Nat
      BY <1>a, <2>2 DEF Busy, TypeOK, Thread
    <3> QED BY <2>2, <3>1, <1>c DEF RetryInv
  <2> QED BY <2>1, <2>2
<1>e. ASSUME \A t \in Tasks : Within(t, runtime[t])',
             \A t \in Tasks : Within(t, map[t])',
             check'.pc = "write" => check'.rec.retry <= Cap'[check'.task]
      PROVE  RetryInv'
  BY <1>a, <1>d, <1>e DEF RetryInv, workerVars
<1>f. UNCHANGED runtime => \A t \in Tasks : Within(t, runtime[t])'
  BY <1>a, <1>b, WithinStays DEF RetryInv, TypeOK, Within
<1>g. \A t \in Tasks : Within(t, map[t])
  BY DEF RetryInv
<1>h. \A t \in Tasks, rec \in Record : Within(t, rec) => Within(t, rec)'
  BY <1>a, <1>b, WithinStays
<1>i. UNCHANGED map => \A t \in Tasks : Within(t, map[t])'
  BY <1>a, <1>g, <1>h DEF TypeOK, Within
<1>j. \A t \in Tasks : Within(t, Absent)' /\ Within(t, Rec("PENDING", 0))'
  BY <1>a, <1>b, LimitGrows DEF Within, Absent, Rec
<1>k. map' = NoMap => \A t \in Tasks : Within(t, map[t])'
  BY <1>j DEF NoMap, Within
<1>l. UNCHANGED check => (check'.pc = "write" => check'.rec.retry <= Cap'[check'.task])
  <2> SUFFICES ASSUME UNCHANGED check, check.pc = "write"
               PROVE  check.rec.retry <= Cap'[check.task]
    OBVIOUS
  <2>1. check.task \in Tasks /\ check.rec.retry \in Nat
    BY <1>a DEF Busy, TypeOK, Check, Record
  <2> QED BY <2>1, <1>c DEF RetryInv
<1>1. CASE SchedBegin
  BY <1>1, <1>e, <1>f, <1>i, <1>l DEF SchedBegin
<1>2. ASSUME NEW t \in Tasks, SchedRead(t) PROVE RetryInv'
  <2>1. PICK rec \in {runtime[t], Absent} : map' \in {NoMap, [map EXCEPT ![t] = rec]}
    BY <1>2 DEF SchedRead
  <2>2. Within(t, rec)'
    BY <2>1, <1>h, <1>j DEF RetryInv, TypeOK, OrderInv
  <2>3. \A u \in Tasks : Within(u, map[u])'
    <3>1. CASE map' = [map EXCEPT ![t] = rec]
      <4> SUFFICES ASSUME NEW u \in Tasks PROVE Within(u, map[u])'
        OBVIOUS
      <4>1. Within(u, map[u])  /\ map[u] \in Record
        BY <1>a, <1>g DEF TypeOK
      <4>2. Within(u, map[u]) => (u # t => Within(u, map[u])')
        BY <3>1, <4>1, <1>a, <1>h DEF Within, TypeOK
      <4> QED BY <2>2, <3>1, <4>1, <4>2, <1>a DEF Within, TypeOK
    <3> QED BY <2>1, <3>1, <1>k
  <2> QED BY <1>2, <2>3, <1>e, <1>f, <1>l DEF SchedRead
<1>3. ASSUME NEW t \in Tasks, SchedCreate(t) PROVE RetryInv'
  <2>1. Rec("PENDING", 0) \in Record
    BY RecType DEF Statuses
  <2>2. \A u \in Tasks : Within(u, runtime[u])'
    BY <1>3, <2>1, <1>a, <1>b, <1>j, SetDataWithin DEF SchedCreate, CreatePersistent, RetryInv
  <2>3. \A u \in Tasks : Within(u, map[u])'
    <3> SUFFICES ASSUME NEW u \in Tasks PROVE Within(u, map[u])'
      OBVIOUS
    <3>1. CASE u = t
      BY <1>3, <3>1, <1>a, <1>j DEF SchedCreate, Within, TypeOK
    <3>2. CASE u # t
      BY <1>3, <3>2, <1>a, <1>g, <1>h DEF SchedCreate, Within, TypeOK
    <3> QED BY <3>1, <3>2
  <2> QED BY <1>3, <2>2, <2>3, <1>e, <1>l DEF SchedCreate
<1>4. ASSUME NEW t \in Tasks, SchedVisit(t) PROVE RetryInv'
  <2>1. \A u \in Tasks : Within(u, map[u])'
    BY <1>4, <1>i, <1>k DEF SchedVisit
  <2>2. CASE SetData(t, Rec("RUNNING", map[t].retry)) /\ map[t].status \in {"PENDING", "RETRYING"}
    <3>1. map[t].retry \in Nat /\ map[t].retry <= RetryLimit(t)
      BY <2>2, <1>a, <1>g DEF Within, TypeOK, Record
    <3>2. Rec("RUNNING", map[t].retry) \in Record
      BY <3>1, RecType DEF Statuses
    <3>3. Within(t, Rec("RUNNING", map[t].retry))
      BY <3>1 DEF Within, Rec
    <3>4. runtime' \in {runtime, [runtime EXCEPT ![t] = Rec("RUNNING", map[t].retry)]}
      BY <2>2 DEF SetData
    <3> DEFINE rec == Rec("RUNNING", map[t].retry)
    <3>5. PICK r \in Record : r = rec
      BY <3>2
    <3>6. Within(t, r)'
      BY <3>3, <3>5, <1>h
    <3>7. \A u \in Tasks : Within(u, runtime[u])'
      BY <3>4, <3>5, <3>6, <1>a, <1>b, SetDataWithin DEF RetryInv
    <3> QED BY <1>4, <3>7, <2>1, <1>e, <1>l DEF SchedVisit
  <2>3. CASE UNCHANGED runtime
    BY <1>4, <2>1, <2>3, <1>e, <1>f, <1>l DEF SchedVisit
  <2> QED BY <1>4, <2>2, <2>3 DEF SchedVisit, Eligible
<1>m. ASSUME NEW t \in Tasks, CheckNext(t) PROVE check'.pc # "write"
  BY <1>m DEF CheckNext, IdleCheck
<1>5. CASE CheckBegin
  <2>1. check'.pc # "write" /\ UNCHANGED <<runtime, map>>
    BY <1>5 DEF CheckBegin, IdleCheck
  <2> QED BY <2>1, <1>e, <1>f, <1>i
<1>6. ASSUME NEW t \in Tasks, CheckRead(t) PROVE RetryInv'
  <2>1. UNCHANGED <<runtime, map>>
    BY <1>6 DEF CheckRead
  <2>2. CASE CheckNext(t)
    BY <2>1, <2>2, <1>m, <1>e, <1>f, <1>i
  <2>3. CASE /\ runtime[t].status = "RUNNING"
             /\ check' = [check EXCEPT !.pc = "write", !.task = t, !.rec = runtime[t]]
    <3>1. check'.task = t /\ check'.rec = runtime[t]
      BY <2>3, <1>a DEF TypeOK, Check
    <3>2. runtime[t].retry \in Nat /\ runtime[t].retry <= Cap[t]
      BY <2>3, <1>a, <1>n DEF RetryInv, Within, TypeOK, Record
    <3>3. check'.rec.retry <= Cap'[t]
      BY <3>1, <3>2, <1>c
    <3> QED BY <2>1, <3>1, <3>3, <1>e, <1>f, <1>i
  <2> QED BY <1>6, <2>2, <2>3 DEF CheckRead
<1>7. CASE CheckWrite
  <2>1. PICK t \in Tasks, n \in Nat :
          /\ t = check.task /\ n = check.rec.retry
          /\ n <= Cap[t] /\ CheckNext(t)
    BY <1>7, <1>a DEF CheckWrite, Busy, RetryInv, TypeOK, Check, Record
  <2>2. PICK limit \in {MaxRetries[t], 3} :
          /\ runtime' \in {runtime, [runtime EXCEPT ![t] = Crashed(check.rec, limit)]}
          /\ limit # MaxRetries[t] => faults' = faults + 1
    BY <1>7, <2>1 DEF CheckWrite, SetData, Fails
  <2>3. limit \in Nat /\ limit <= Cap'[t] /\ n <= Cap'[t] /\ Cap'[t] \in Nat
    <3>1. /\ Cap[t] \in Nat /\ Cap'[t] \in Nat /\ Cap[t] <= Cap'[t]
          /\ MaxRetries[t] <= Cap[t] /\ MaxRetries[t] \in Nat
          /\ faults' = faults + 1 => 3 <= Cap'[t]
      BY <1>a, <1>b, CapGrows
    <3> QED BY <2>1, <2>2, <3>1
  <2>4. PICK rec \in Record : rec = Crashed(check.rec, limit)
    BY <2>1, RecType DEF Crashed, Statuses
  <2>5. Within(t, rec)'
    <3>1. \/ rec.status = "FAILED" /\ rec.retry = n + 1
          \/ rec.status = "RETRYING" /\ rec.retry = n + 1 /\ ~(n + 1 >= limit)
      BY <2>1, <2>4 DEF Crashed, Rec
    <3>2. Cap'[t] = RetryLimit(t)'
      BY <1>n
    <3> QED BY <3>1, <3>2, <2>1, <2>3 DEF Within
  <2>6. \A u \in Tasks : Within(u, runtime[u])'
    BY <2>1, <2>2, <2>4, <2>5, <1>a, <1>b, SetDataWithin DEF RetryInv
  <2> QED BY <1>7, <2>1, <2>6, <1>m, <1>e, <1>i DEF CheckWrite
<1>8. CASE MasterFailover
  <2>1. check'.pc # "write" /\ UNCHANGED runtime /\ map' = NoMap
    BY <1>8 DEF MasterFailover, IdleCheck
  <2> QED BY <2>1, <1>e, <1>f, <1>k
<1> QED
  BY <1>1, <1>2, <1>3, <1>4, <1>5, <1>6, <1>7, <1>8 DEF MasterNext

LEMMA WorkerRetryStep == OrderInv /\ OrderInv' /\ RetryInv /\ WorkerNext => RetryInv'
<1> SUFFICES ASSUME OrderInv, OrderInv', RetryInv, WorkerNext PROVE RetryInv'
  OBVIOUS
<1>a. TypeOK /\ TypeOK' /\ Busy /\ Busy' /\ UNCHANGED <<map, check>>
  BY DEF OrderInv, WorkerNext, PollRead, PollAcquire, PollSkip, PollStart, Attempt, StoreResult,
         Report, Unmark, Release, ScanDrops, Terminate, HookRelease, Kill,
         SessionEnds, OverdueEnds, masterVars
<1>b. faults' \in {faults, faults + 1}
  BY <1>a, FaultsGrow DEF Next
<1>c. \A t \in Tasks, n \in Nat : n <= Cap[t] => n <= Cap'[t]
  BY <1>a, <1>b, CapGrows
<1>n. \A t \in Tasks : /\ Cap[t] = RetryLimit(t) /\ Cap'[t] = RetryLimit(t)'
                       /\ Cap[t] \in Nat /\ Cap'[t] \in Nat
                       /\ Limit(t) \in Nat /\ Limit(t) <= Cap'[t]
  <2> SUFFICES ASSUME NEW t \in Tasks
               PROVE  /\ Cap[t] = RetryLimit(t) /\ Cap'[t] = RetryLimit(t)'
                      /\ Cap[t] \in Nat /\ Cap'[t] \in Nat
                      /\ Limit(t) \in Nat /\ Limit(t) <= Cap'[t]
    OBVIOUS
  <2>1. /\ Cap[t] = RetryLimit(t) /\ Cap'[t] = RetryLimit(t)'
        /\ Cap[t] \in Nat /\ Cap'[t] \in Nat /\ Cap[t] <= Cap'[t]
        /\ MaxRetries[t] <= Cap[t] /\ MaxRetries[t] \in Nat
    BY <1>a, <1>b, CapGrows
  <2> QED BY <2>1 DEF Limit, GlobalRetries
<1> DEFINE PollOK(p) == p.pc # "idle" => p.rec.retry <= Cap'[p.task]
           ThreadOK(th) == th.pc # "free" => th.retry <= Cap'[th.task]
<1>d. \A w \in Workers : PollOK(poll[w])
  <2> SUFFICES ASSUME NEW w \in Workers, poll[w].pc # "idle"
               PROVE  poll[w].rec.retry <= Cap'[poll[w].task]
    OBVIOUS
  <2>1. poll[w].task \in Tasks /\ poll[w].rec.retry \in Nat
    BY <1>a DEF Busy, TypeOK, Poll, Record
  <2> QED BY <2>1, <1>c DEF RetryInv
<1>e. \A e \in Execs : ThreadOK(threads[e])
  <2> SUFFICES ASSUME NEW e \in Execs, threads[e].pc # "free"
               PROVE  threads[e].retry <= Cap'[threads[e].task]
    OBVIOUS
  <2>1. threads[e].task \in Tasks /\ threads[e].retry \in Nat
    BY <1>a DEF Busy, TypeOK, Thread
  <2> QED BY <2>1, <1>c DEF RetryInv
<1>f. \A t \in Tasks : Within(t, map[t])'
  BY <1>a, <1>b, WithinStays DEF RetryInv, TypeOK, Within
<1>g. check'.pc = "write" => check'.rec.retry <= Cap'[check'.task]
  <2> SUFFICES ASSUME check.pc = "write" PROVE check.rec.retry <= Cap'[check.task]
    BY <1>a
  <2>1. check.task \in Tasks /\ check.rec.retry \in Nat
    BY <1>a DEF Busy, TypeOK, Check, Record
  <2> QED BY <2>1, <1>c DEF RetryInv
<1>h. ASSUME \A t \in Tasks : Within(t, runtime[t])',
             \A w \in Workers : PollOK(poll'[w]),
             \A e \in Execs : ThreadOK(threads'[e])
      PROVE  RetryInv'
  BY <1>f, <1>g, <1>h DEF RetryInv
<1>i. UNCHANGED runtime => \A t \in Tasks : Within(t, runtime[t])'
  BY <1>a, <1>b, WithinStays DEF RetryInv, TypeOK, Within
<1>j. ASSUME NEW t \in Tasks, NEW rec \in Record, SetData(t, rec),
             rec.retry <= Cap'[t]
      PROVE  \A u \in Tasks : Within(u, runtime[u])'
  <2>1. Within(t, rec)'
    <3>1. rec.retry \in Nat /\ RetryLimit(t)' \in Nat /\ rec.retry <= RetryLimit(t)'
      BY <1>j, <1>n DEF Record
    <3> QED BY <3>1 DEF Within
  <2> QED BY <2>1, <1>j, <1>a, <1>b, SetDataWithin DEF RetryInv, SetData
<1>1. ASSUME NEW w \in Workers, NEW t \in Tasks, PollRead(w, t) PROVE RetryInv'
  <2>1. runtime[t].retry \in Nat /\ runtime[t].retry <= Cap'[t]
    <3>1. runtime[t].retry \in Nat /\ runtime[t].status # "FAILED" /\ Within(t, runtime[t])
      BY <1>1, <1>a DEF PollRead, TypeOK, Record, RetryInv
    <3> QED BY <3>1, <1>c, <1>n DEF Within
  <2>2. \A v \in Workers : PollOK(poll'[v])
    BY <1>1, <2>1, <1>a, <1>d DEF PollRead, TypeOK
  <2> QED BY <1>1, <2>2, <1>e, <1>h, <1>i DEF PollRead
<1>2. ASSUME NEW w \in Workers, PollAcquire(w) PROVE RetryInv'
  <2>1. \A v \in Workers : PollOK(poll'[v])
    BY <1>2, <1>a, <1>d DEF PollAcquire, TypeOK, Poll
  <2> QED BY <1>2, <2>1, <1>e, <1>h, <1>i DEF PollAcquire
<1>3. ASSUME NEW w \in Workers, PollSkip(w) PROVE RetryInv'
  <2>1. \A v \in Workers : PollOK(poll'[v])
    BY <1>3, <1>a, <1>d DEF PollSkip, TypeOK, IdlePoll
  <2> QED BY <1>3, <2>1, <1>e, <1>h, <1>i DEF PollSkip
<1>4. ASSUME NEW w \in Workers, PollStart(w) PROVE RetryInv'
  <2>1. PICK t \in Tasks, n \in Nat : t = poll[w].task /\ n = poll[w].rec.retry /\ n <= Cap'[t]
    BY <1>4, <1>a, <1>d DEF PollStart, Busy, TypeOK, Poll, Record
  <2>2. Rec("RUNNING", n) \in Record /\ Rec("RUNNING", n).retry = n
    BY <2>1, RecType DEF Statuses, Rec
  <2>3. SetData(t, Rec("RUNNING", n))
    BY <1>4, <2>1 DEF PollStart
  <2>4. \A u \in Tasks : Within(u, runtime[u])'
    BY <2>1, <2>2, <2>3, <1>j
  <2>5. \A v \in Workers : PollOK(poll'[v])
    BY <1>4, <1>a, <1>d DEF PollStart, TypeOK, IdlePoll
  <2>6. \A e \in Execs : ThreadOK(threads'[e])
    BY <1>4, <2>1, <1>a, <1>e DEF PollStart, TypeOK, FreeThread
  <2> QED BY <2>4, <2>5, <2>6, <1>h
<1>5. ASSUME NEW e \in Execs, Attempt(e) PROVE RetryInv'
  <2>1. PICK t \in Tasks, n \in Nat :
          t = threads[e].task /\ n = threads[e].retry /\ n <= Cap'[t] /\ threads[e] \in Thread
    BY <1>5, <1>a, <1>e DEF Attempt, Busy, TypeOK, Thread
  <2>2. /\ \A f \in Execs \ {e} : threads'[f] = threads[f]
        /\ threads'[e].task = t
        /\ threads'[e].retry = n \/ (threads'[e].retry = n + 1 /\ ~(n + 1 >= Limit(t)))
    BY <1>5, <2>1, <1>a, AttemptStep
  <2>3. threads'[e].retry <= Cap'[t]
    BY <2>1, <2>2, <1>n
  <2>4. \A f \in Execs : ThreadOK(threads'[f])
    BY <2>2, <2>3, <1>e
  <2> QED BY <1>5, <2>4, <1>d, <1>h, <1>i DEF Attempt
<1>k. ASSUME NEW e \in Execs, NEW pc \in {"report", "unmark", "release"},
             threads[e].pc # "free", threads' = [threads EXCEPT ![e].pc = pc]
      PROVE  \A f \in Execs : ThreadOK(threads'[f])
  BY <1>k, <1>a, <1>e DEF TypeOK, Thread
<1>6. ASSUME NEW e \in Execs, StoreResult(e) PROVE RetryInv'
  BY <1>6, <1>d, <1>h, <1>i, <1>k DEF StoreResult
<1>7. ASSUME NEW e \in Execs, Report(e) PROVE RetryInv'
  <2>1. PICK t \in Tasks, n \in Nat : t = threads[e].task /\ n = threads[e].retry /\ n <= Cap'[t]
    BY <1>7, <1>a, <1>e DEF Report, Busy, TypeOK, Thread
  <2>2. PICK rec \in Record : rec = Reported(threads[e]) /\ rec.retry <= Cap'[t]
    <3>1. Limit(t) \in Nat /\ Limit(t) <= Cap'[t] /\ Cap'[t] \in Nat
      BY <1>n
    <3>2. \/ Reported(threads[e]) = Rec("SUCCESS", n)
          \/ Reported(threads[e]) = Rec("FAILED", n)
          \/ Reported(threads[e]) = Rec("RETRYING", n + 1) /\ ~(n >= Limit(t))
      BY <2>1 DEF Reported
    <3>3. /\ Rec("SUCCESS", n) \in Record /\ Rec("FAILED", n) \in Record
          /\ Rec("RETRYING", n + 1) \in Record
      BY <2>1, RecType DEF Statuses
    <3>4. /\ Rec("SUCCESS", n).retry = n /\ Rec("FAILED", n).retry = n
          /\ Rec("RETRYING", n + 1).retry = n + 1
      BY DEF Rec
    <3>5. Reported(threads[e]).retry <= Cap'[t]
      BY <2>1, <3>1, <3>2, <3>4
    <3> QED BY <3>2, <3>3, <3>5
  <2>3. \A u \in Tasks : Within(u, runtime[u])'
    BY <1>7, <2>1, <2>2, <1>i, <1>j DEF Report
  <2> QED BY <1>7, <2>3, <1>d, <1>h, <1>k DEF Report
<1>8. ASSUME NEW e \in Execs, Unmark(e) PROVE RetryInv'
  BY <1>8, <1>d, <1>h, <1>i, <1>k DEF Unmark
<1>9. ASSUME NEW e \in Execs, Release(e) PROVE RetryInv'
  <2>1. \A f \in Execs : ThreadOK(threads'[f])
    BY <1>9, <1>a, <1>e DEF Release, TypeOK, FreeThread
  <2> QED BY <1>9, <2>1, <1>d, <1>h, <1>i DEF Release
<1>10. ASSUME NEW w \in Workers, ScanDrops(w) \/ Terminate(w) PROVE RetryInv'
  BY <1>10, <1>d, <1>e, <1>h, <1>i DEF ScanDrops, Terminate
<1>11. ASSUME NEW w \in Workers, NEW t \in Tasks, HookRelease(w, t) PROVE RetryInv'
  BY <1>11, <1>d, <1>e, <1>h, <1>i DEF HookRelease
<1>12. ASSUME NEW w \in Workers, Kill(w) \/ SessionEnds(w) PROVE RetryInv'
  <2>1. Cleared(w) /\ UNCHANGED runtime
    BY <1>12 DEF Kill, SessionEnds
  <2>2. \A v \in Workers : PollOK(poll'[v])
    BY <2>1, <1>a, <1>d DEF Cleared, TypeOK, IdlePoll
  <2>3. \A e \in Execs : ThreadOK(threads'[e])
    BY <2>1, <1>a, <1>e DEF Cleared, TypeOK, FreeThread
  <2> QED BY <2>1, <2>2, <2>3, <1>h, <1>i
<1>13. ASSUME NEW w \in Workers, NEW t \in Tasks, OverdueEnds(w, t) PROVE RetryInv'
  BY <1>13, <1>d, <1>e, <1>h, <1>i DEF OverdueEnds, workerVars
<1> QED
  BY <1>1, <1>2, <1>3, <1>4, <1>5, <1>6, <1>7, <1>8, <1>9, <1>10, <1>11, <1>12, <1>13
     DEF WorkerNext

\* The retry count of a record never exceeds the task's limit (and one more when
\* the master fails it), however the increments of the master and the workers meet.
THEOREM RetriesBounded == Spec => []RetryBound
<1>1. OrderInv /\ OrderInv' /\ RetryInv /\ [Next]_vars => RetryInv'
  <2>1. ASSUME RetryInv, UNCHANGED vars PROVE RetryInv'
    BY <2>1 DEF RetryInv, Within, RetryLimit, Cap, vars, workerVars, masterVars
  <2> QED BY <2>1, MasterRetryStep, WorkerRetryStep DEF Next
<1>2. RetryInv => RetryBound
  BY DEF RetryInv, RetryBound
<1> QED BY <1>1, <1>2, InitRetry, OrderInvHolds, PTL DEF Spec

-----------------------------------------------------------------------------
(* One execution per worker and task.  executingTasks holds what the threads   *)
(* run and what the poll has just acquired; the poll's two steps are why a key *)
(* is acquired only when nothing runs it.                                      *)

Marked ==
    /\ \A e \in Execs, w \in Workers, t \in Tasks : Runs(e, w, t) => t \in executing[w]
    /\ \A w \in Workers :
         /\ poll[w].pc = "acquire" => poll[w].task \notin executing[w]
         /\ poll[w].pc = "start" => /\ poll[w].task \in executing[w]
                                    /\ \A e \in Execs : ~Runs(e, w, poll[w].task)
    /\ \A e, f \in Execs, w \in Workers, t \in Tasks : Runs(e, w, t) /\ Runs(f, w, t) => e = f

ExecInv == ~UnderscoreIds /\ faults = 0 => Marked

LEMMA InitExec == Init => ExecInv
BY DEF Init, ExecInv, Marked, Runs, IdlePoll, FreeThread

\* Steps that leave executingTasks, the poll and who runs what alone.
LEMMA MarkedStays ==
    ASSUME Marked, UNCHANGED <<executing, poll>>,
           \A e \in Execs, w \in Workers, t \in Tasks : Runs(e, w, t)' => Runs(e, w, t),
           TypeOK, Busy
    PROVE  Marked'
<1>1. \A w \in Workers : poll[w].pc = "start" => poll[w].task \in Tasks
  BY DEF Busy
<1>2. \A e \in Execs, w \in Workers, t \in Tasks : Runs(e, w, t)' => t \in executing'[w]
  BY DEF Marked
<1>3. \A w \in Workers :
         /\ poll'[w].pc = "acquire" => poll'[w].task \notin executing'[w]
         /\ poll'[w].pc = "start" => /\ poll'[w].task \in executing'[w]
                                     /\ \A e \in Execs : ~Runs(e, w, poll[w].task)'
  BY <1>1 DEF Marked
<1>4. \A e, f \in Execs, w \in Workers, t \in Tasks : Runs(e, w, t)' /\ Runs(f, w, t)' => e = f
  BY DEF Marked
<1> QED BY <1>2, <1>3, <1>4 DEF Marked, Runs

LEMMA MarkedStep ==
    ASSUME TypeOK, TypeOK', Busy, Marked, Next, ~UnderscoreIds, faults = 0, faults' = 0
    PROVE  Marked'
<1>a. ASSUME UNCHANGED <<executing, poll, threads>> PROVE Marked'
  BY <1>a, MarkedStays DEF Runs
<1>1. CASE MasterNext
  BY <1>1, <1>a
     DEF MasterNext, SchedBegin, SchedRead, SchedCreate, SchedVisit, CheckBegin, CheckRead,
         CheckWrite, MasterFailover, workerVars
<1>2. ASSUME NEW w \in Workers, NEW t \in Tasks, PollRead(w, t) PROVE Marked'
  <2>1. /\ UNCHANGED <<executing, threads>> /\ t \notin executing[w]
        /\ \A v \in Workers \ {w} : poll'[v] = poll[v]
        /\ poll'[w].pc = "acquire" /\ poll'[w].task = t
    BY <1>2 DEF PollRead, TypeOK
  <2> QED BY <2>1 DEF Marked, Runs
<1>3. ASSUME NEW w \in Workers, PollAcquire(w) PROVE Marked'
  <2> DEFINE t == poll[w].task
  <2>1. /\ UNCHANGED threads /\ t \notin executing[w] /\ t \in Tasks
        /\ \A v \in Workers \ {w} : poll'[v] = poll[v] /\ executing'[v] = executing[v]
        /\ executing'[w] = executing[w] \cup {t}
        /\ poll'[w].pc = "start" /\ poll'[w].task = t
    BY <1>3 DEF PollAcquire, TypeOK, Poll, Marked, Busy
  <2>2. \A e \in Execs : ~Runs(e, w, t)
    BY <2>1 DEF Marked
  <2> QED BY <2>1, <2>2 DEF Marked, Runs
<1>4. ASSUME NEW w \in Workers, PollSkip(w) PROVE Marked'
  <2>1. /\ UNCHANGED <<executing, threads>>
        /\ \A v \in Workers \ {w} : poll'[v] = poll[v]
        /\ poll'[w].pc = "idle"
    BY <1>4 DEF PollSkip, TypeOK, IdlePoll
  <2> QED BY <2>1 DEF Marked, Runs
<1>5. ASSUME NEW w \in Workers, PollStart(w) PROVE Marked'
  <2> DEFINE t == poll[w].task
  <2>1. /\ t \in executing[w] /\ UNCHANGED executing
        /\ \A v \in Workers \ {w} : poll'[v] = poll[v]
        /\ poll'[w].pc = "idle"
    BY <1>5 DEF PollStart, TypeOK, IdlePoll, Marked
  <2>2. \A e \in Execs : ~Runs(e, w, t)
    BY <1>5 DEF PollStart, Marked
  <2>3. PICK e \in Execs : /\ \A f \in Execs \ {e} : threads'[f] = threads[f]
                           /\ threads'[e].worker = w /\ threads'[e].task = t
    BY <1>5 DEF PollStart, TypeOK, FreeThread
  <2> QED BY <2>1, <2>2, <2>3 DEF Marked, Runs
<1>b. ASSUME NEW e \in Execs, UNCHANGED <<executing, poll>>,
             \A f \in Execs \ {e} : threads'[f] = threads[f],
             \/ threads'[e].pc \in {"free", "release"}
             \/ /\ threads[e].pc \in {"attempt", "store", "report"}
                /\ threads'[e].worker = threads[e].worker
                /\ threads'[e].task = threads[e].task
      PROVE  Marked'
  BY <1>b, MarkedStays DEF Runs
<1>6. ASSUME NEW e \in Execs, Attempt(e) \/ StoreResult(e) \/ Report(e) PROVE Marked'
  <2>1. /\ UNCHANGED <<executing, poll>>
        /\ threads[e].pc \in {"attempt", "store", "report"}
    BY <1>6 DEF Attempt, StoreResult, Report
  <2>2. CASE Attempt(e)
    BY <2>1, <2>2, <1>b, AttemptStep
  <2>3. CASE StoreResult(e) \/ Report(e)
    BY <2>1, <2>3, <1>b DEF StoreResult, Report, TypeOK, Thread
  <2> QED BY <1>6, <2>2, <2>3
<1>7. ASSUME NEW e \in Execs, Unmark(e) PROVE Marked'
  <2>1. PICK w \in Workers, t \in Tasks : Runs(e, w, t)
    BY <1>7 DEF Unmark, Busy, Runs
  <2>2. /\ UNCHANGED poll
        /\ \A v \in Workers \ {w} : executing'[v] = executing[v]
        /\ executing'[w] = executing[w] \ {t}
        /\ \A f \in Execs \ {e} : threads'[f] = threads[f]
        /\ threads'[e].pc = "release"
    BY <1>7, <2>1 DEF Unmark, TypeOK, Thread, Runs
  <2>3. poll[w].pc = "start" => poll[w].task # t
    BY <2>1 DEF Marked
  <2>4. \A f \in Execs, v \in Workers, u \in Tasks : Runs(f, v, u)' => Runs(f, v, u) /\ f # e
    BY <2>2 DEF Runs
  <2>5. \A f \in Execs, v \in Workers, u \in Tasks : Runs(f, v, u)' => u \in executing'[v]
    BY <2>1, <2>2, <2>4 DEF Marked
  <2>6. \A v \in Workers : poll[v].pc = "start" => poll[v].task \in Tasks
    BY DEF Busy
  <2>7. \A v \in Workers :
          /\ poll'[v].pc = "acquire" => poll'[v].task \notin executing'[v]
          /\ poll'[v].pc = "start" => /\ poll'[v].task \in executing'[v]
                                      /\ \A f \in Execs : ~Runs(f, v, poll[v].task)'
    BY <2>2, <2>3, <2>4, <2>6 DEF Marked
  <2> QED BY <2>2, <2>4, <2>5, <2>7 DEF Marked, Runs
<1>8. ASSUME NEW e \in Execs, Release(e) PROVE Marked'
  <2>1. /\ UNCHANGED <<executing, poll>>
        /\ \A f \in Execs \ {e} : threads'[f] = threads[f]
        /\ threads'[e].pc = "free"
    BY <1>8 DEF Release, TypeOK, FreeThread
  <2> QED BY <2>1, <1>b
<1>9. ASSUME NEW w \in Workers, ScanDrops(w) PROVE FALSE
  BY <1>9 DEF ScanDrops, Fails
<1>10. ASSUME NEW w \in Workers, Terminate(w) \/ \E t \in Tasks : HookRelease(w, t)
       PROVE  Marked'
  BY <1>10, <1>a DEF Terminate, HookRelease
<1>11. ASSUME NEW w \in Workers, Kill(w) \/ SessionEnds(w) PROVE Marked'
  <2>1. Cleared(w)
    BY <1>11 DEF Kill, SessionEnds
  <2>2. /\ \A v \in Workers \ {w} : executing'[v] = executing[v] /\ poll'[v] = poll[v]
        /\ poll'[w].pc = "idle"
    BY <2>1 DEF Cleared, TypeOK, IdlePoll
  <2>3. \A e \in Execs, v \in Workers, t \in Tasks : Runs(e, v, t)' => v # w /\ Runs(e, v, t)
    BY <2>1 DEF Cleared, Runs, FreeThread, TypeOK
  <2>4. \A v \in Workers : poll[v].pc = "start" => poll[v].task \in Tasks
    BY DEF Busy
  <2>5. \A v \in Workers :
          /\ poll'[v].pc = "acquire" => poll'[v].task \notin executing'[v]
          /\ poll'[v].pc = "start" => /\ poll'[v].task \in executing'[v]
                                      /\ \A f \in Execs : ~Runs(f, v, poll[v].task)'
    BY <2>2, <2>3, <2>4 DEF Marked
  <2>6. \A e \in Execs, v \in Workers, t \in Tasks : Runs(e, v, t)' => t \in executing'[v]
    BY <2>2, <2>3 DEF Marked
  <2>7. \A e, f \in Execs, v \in Workers, t \in Tasks : Runs(e, v, t)' /\ Runs(f, v, t)' => e = f
    BY <2>3 DEF Marked
  <2> QED BY <2>2, <2>5, <2>6, <2>7 DEF Marked, Runs
<1>12. ASSUME NEW w \in Workers, NEW t \in Tasks, OverdueEnds(w, t) PROVE Marked'
  BY <1>12, <1>a DEF OverdueEnds, workerVars
<1> QED
  BY <1>1, <1>2, <1>3, <1>4, <1>5, <1>6, <1>7, <1>8, <1>9, <1>10, <1>11, <1>12
     DEF Next, WorkerNext

\* While the timeout scan can read the records, no worker has two execution threads
\* on one task, for any number of workers, threads and lost sessions.  (A command
\* given up at its timeout is no longer a thread's: it may run beside the next.)
THEOREM OneThreadEach == Spec => []OneThreadPerTask
<1>1. OrderInv /\ OrderInv' /\ ExecInv /\ [Next]_vars => ExecInv'
  <2> SUFFICES ASSUME OrderInv, OrderInv', ExecInv, [Next]_vars, ~UnderscoreIds, faults' = 0
               PROVE  Marked'
    BY DEF ExecInv
  <2>1. TypeOK /\ TypeOK' /\ Busy
    BY DEF OrderInv
  <2>2. faults = 0 /\ Marked
    <3>1. faults \in Nat
      BY <2>1 DEF TypeOK
    <3>2. faults' \in {faults, faults + 1}
      BY <2>1, FaultsGrow
    <3>3. faults = 0
      BY <3>1, <3>2
    <3> QED BY <3>3 DEF ExecInv
  <2>3. CASE Next
    BY <2>1, <2>2, <2>3, MarkedStep
  <2>4. CASE UNCHANGED vars
    BY <2>1, <2>2, <2>4, MarkedStays DEF vars, workerVars, Runs
  <2> QED BY <2>3, <2>4
<1>2. ExecInv => OneThreadPerTask
  BY DEF ExecInv, Marked, OneThreadPerTask
<1> QED BY <1>1, <1>2, InitExec, OrderInvHolds, PTL DEF Spec

-----------------------------------------------------------------------------
(* The result before the record.  Only Report writes SUCCESS: the two passes   *)
(* and the poll write their copies back under another status, so that a stale  *)
(* copy can hide a SUCCESS but never bring one about.                          *)

\* A thread that reports a success has stored its output, or has one that is too
\* large for the record as well.
Stored ==
    /\ \A t \in Tasks : runtime[t].status = "SUCCESS" => t \in result
    /\ \A e \in Execs :
         /\ threads[e].pc = "store" =>
                threads[e].outcome \in {"output", "oversized"}
         /\ threads[e].pc = "report" =>
                \/ threads[e].outcome \in {"failure", "oversized"}
                \/ threads[e].outcome = "output" /\ threads[e].task \in result

StoredInv == ("empty" \notin Outcomes /\ faults = 0) => Stored

LEMMA InitStored == Init => StoredInv
BY DEF Init, StoredInv, Stored, Absent, FreeThread

\* A record written under another status, or after its result, is no exception.
LEMMA RecordStored ==
    ASSUME TypeOK, Stored, UNCHANGED <<result, threads>>, NEW t \in Tasks, NEW rec,
           rec.status # "SUCCESS" \/ t \in result,
           SetData(t, rec) \/ runtime' = [runtime EXCEPT ![t] = rec] \/ UNCHANGED runtime
    PROVE  Stored'
BY DEF SetData, Stored, TypeOK

LEMMA MasterStored ==
    ASSUME TypeOK, Busy, Stored, MasterNext
    PROVE  Stored'
<1>a. UNCHANGED <<result, threads>>
  BY DEF MasterNext, SchedBegin, SchedRead, SchedCreate, SchedVisit, CheckBegin, CheckRead,
         CheckWrite, MasterFailover, workerVars
<1>1. ASSUME UNCHANGED runtime PROVE Stored'
  BY <1>1, <1>a DEF Stored
<1>2. ASSUME NEW t \in Tasks, SchedCreate(t) PROVE Stored'
  <2>1. Rec("PENDING", 0).status # "SUCCESS"
    BY DEF Rec
  <2>2. runtime' = [runtime EXCEPT ![t] = Rec("PENDING", 0)] \/ UNCHANGED runtime
    BY <1>2 DEF SchedCreate, CreatePersistent
  <2> QED BY <1>a, <2>1, <2>2, RecordStored
<1>3. ASSUME NEW t \in Tasks, SchedVisit(t) PROVE Stored'
  BY <1>3, <1>a, <1>1, RecordStored DEF SchedVisit, Rec
<1>4. CASE CheckWrite
  <2>1. check.task \in Tasks
    BY <1>4 DEF CheckWrite, Busy
  <2>2. \A limit : Crashed(check.rec, limit).status # "SUCCESS"
    BY DEF Crashed, Rec
  <2> QED BY <1>4, <1>a, <2>1, <2>2, RecordStored DEF CheckWrite
<1> QED
  BY <1>1, <1>2, <1>3, <1>4
     DEF MasterNext, SchedBegin, SchedRead, CheckBegin, CheckRead, MasterFailover

LEMMA WorkerStored ==
    ASSUME TypeOK, Busy, Stored, WorkerNext, "empty" \notin Outcomes, faults' = faults,
           faults \in Nat
    PROVE  Stored'
<1>0. ~Fails
  BY DEF Fails
<1>1. ASSUME UNCHANGED <<runtime, result, threads>> PROVE Stored'
  BY <1>1 DEF Stored
<1>2. ASSUME NEW w \in Workers, PollStart(w) PROVE Stored'
  <2>1. poll[w].task \in Tasks
    BY <1>2 DEF PollStart, Busy
  <2>2. \A t \in Tasks : runtime'[t].status = "SUCCESS" => t \in result
    <3>1. \/ runtime' = runtime
          \/ runtime' = [runtime EXCEPT ![poll[w].task] = Rec("RUNNING", poll[w].rec.retry)]
      BY <1>2 DEF PollStart, SetData
    <3> QED BY <2>1, <3>1 DEF Stored, TypeOK, Rec
  <2>3. \A e \in Execs : threads'[e] = threads[e] \/ threads'[e].pc = "attempt"
    BY <1>2 DEF PollStart, TypeOK, FreeThread
  <2>4. result' = result
    BY <1>2 DEF PollStart
  <2> QED BY <2>2, <2>3, <2>4 DEF Stored
<1>3. ASSUME NEW e \in Execs, Attempt(e) PROVE Stored'
  <2>1. /\ UNCHANGED <<runtime, result>>
        /\ \A f \in Execs \ {e} : threads'[f] = threads[f]
    BY <1>3 DEF Attempt, TypeOK
  <2>2. \/ threads'[e].pc = "attempt"
        \/ threads'[e].pc = "report" /\ threads'[e].outcome = "failure"
        \/ threads'[e].pc = "store" /\ threads'[e].outcome \in {"output", "oversized"}
    BY <1>3, AttemptStep, LimitsAssumption DEF AllOutcomes
  <2> QED BY <2>1, <2>2 DEF Stored
<1>4. ASSUME NEW e \in Execs, StoreResult(e) PROVE Stored'
  <2>1. /\ runtime' = runtime /\ result \subseteq result'
        /\ threads[e].outcome = "output" => threads[e].task \in result'
        /\ threads[e].outcome \in {"output", "oversized"}
    BY <1>4, <1>0 DEF StoreResult, Stored
  <2>2. /\ \A f \in Execs \ {e} : threads'[f] = threads[f]
        /\ threads'[e].pc = "report" /\ threads'[e].outcome = threads[e].outcome
        /\ threads'[e].task = threads[e].task
    BY <1>4 DEF StoreResult, TypeOK, Thread
  <2> QED BY <2>1, <2>2 DEF Stored
<1>5. ASSUME NEW e \in Execs, Report(e) PROVE Stored'
  <2>1. /\ result' = result
        /\ \A f \in Execs \ {e} : threads'[f] = threads[f]
        /\ threads'[e].pc = "unmark"
    BY <1>5 DEF Report, TypeOK, Thread
  <2>2. threads[e].task \in Tasks
    BY <1>5 DEF Report, Busy
  <2>3. \/ runtime' = runtime
        \/ /\ runtime' = [runtime EXCEPT ![threads[e].task] = Reported(threads[e])]
           /\ threads[e].outcome # "oversized"
    BY <1>5 DEF Report, SetData
  <2>4. Reported(threads[e]).status = "SUCCESS" /\ threads[e].outcome # "oversized"
            => threads[e].task \in result
    BY <1>5 DEF Report, Reported, Rec, Stored
  <2>5. \A t \in Tasks : runtime'[t].status = "SUCCESS" => t \in result
    BY <2>2, <2>3, <2>4 DEF Stored, TypeOK
  <2> QED BY <2>1, <2>5 DEF Stored
<1>6. ASSUME NEW e \in Execs, Unmark(e) \/ Release(e) PROVE Stored'
  <2>1. /\ UNCHANGED <<runtime, result>>
        /\ \A f \in Execs \ {e} : threads'[f] = threads[f]
        /\ threads'[e].pc \in {"release", "free"}
    BY <1>6 DEF Unmark, Release, TypeOK, Thread, FreeThread
  <2> QED BY <2>1 DEF Stored
<1>7. ASSUME NEW w \in Workers, Kill(w) \/ SessionEnds(w) PROVE Stored'
  <2>1. UNCHANGED <<runtime, result>> /\ Cleared(w)
    BY <1>7 DEF Kill, SessionEnds
  <2>2. \A e \in Execs : threads'[e] = threads[e] \/ threads'[e].pc = "free"
    BY <2>1 DEF Cleared, FreeThread
  <2> QED BY <2>1, <2>2 DEF Stored
<1>8. ASSUME NEW w \in Workers, NEW t \in Tasks, PollRead(w, t) \/ HookRelease(w, t)
      PROVE  Stored'
  BY <1>1, <1>8 DEF PollRead, HookRelease
<1>9. ASSUME NEW w \in Workers,
             PollAcquire(w) \/ PollSkip(w) \/ ScanDrops(w) \/ Terminate(w)
      PROVE  Stored'
  BY <1>1, <1>9 DEF PollAcquire, PollSkip, ScanDrops, Terminate
<1>10. ASSUME NEW w \in Workers, NEW t \in Tasks, OverdueEnds(w, t) PROVE Stored'
  BY <1>10 DEF OverdueEnds, Stored, workerVars
<1> QED
  BY <1>2, <1>3, <1>4, <1>5, <1>6, <1>7, <1>8, <1>9, <1>10 DEF WorkerNext

\* Where every command prints something and no call fails, a task whose record
\* says SUCCESS has its result stored, for any DAG, workers, threads and crashes.
THEOREM SuccessIsStored == Spec => []SuccessHasResult
<1>1. OrderInv /\ OrderInv' /\ StoredInv /\ [Next]_vars => StoredInv'
  <2> SUFFICES ASSUME OrderInv, OrderInv', StoredInv, [Next]_vars,
                      "empty" \notin Outcomes, faults' = 0
               PROVE  Stored'
    BY DEF StoredInv
  <2>1. TypeOK /\ Busy /\ faults \in Nat
    BY DEF OrderInv, TypeOK
  <2>2. faults' \in {faults, faults + 1}
    BY <2>1, FaultsGrow
  <2>3. faults = 0 /\ Stored
    BY <2>1, <2>2 DEF StoredInv
  <2>4. CASE Next
    BY <2>1, <2>3, <2>4, MasterStored, WorkerStored DEF Next
  <2>5. CASE UNCHANGED vars
    BY <2>3, <2>5 DEF vars, workerVars, Stored
  <2> QED BY <2>4, <2>5
<1>2. StoredInv => SuccessHasResult
  BY DEF StoredInv, Stored, SuccessHasResult
<1> QED BY <1>1, <1>2, InitStored, OrderInvHolds, PTL DEF Spec
=============================================================================
