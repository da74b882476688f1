-------------------------- MODULE TaskOrchestrator --------------------------
(***************************************************************************)
(* One DAG of the task orchestrator (src/36): the leading master's two     *)
(* scheduled passes, the workers' poll, the threads that execute tasks,    *)
(* and the znodes they meet in.  Every pass reads records, works on its    *)
(* copies and writes them back unconditionally (setData with version -1),  *)
(* and every read and write is a step of its own here.                     *)
(*                                                                         *)
(* There is one leader: MasterElection shows that no two masters can write *)
(* at once.  A worker whose session ends does nothing more that ZooKeeper  *)
(* sees, and a restarted worker has a new id: it is a new element.         *)
(* ZkService swallows exceptions, so a failed read looks like a missing    *)
(* node and a failed write like a success; faults counts such failures.    *)
(***************************************************************************)
EXTENDS Integers, FiniteSets

CONSTANTS Tasks, NoTask,
          Workers, NoWorker,
          Execs,              \* bound: execution threads that exist at once
          Deps,               \* Deps[t]: tasks t depends on
          Refs,               \* Refs[t]: tasks whose output t's params name
          MaxRetries,         \* MaxRetries[t]: the task's maxRetries
          Outcomes,           \* what a command may end with
          UnderscoreIds,      \* the DAG's id contains "_"
          MaxCrashes,         \* bound: sessions lost, workers killed or stopped
          MaxFaults           \* bound: ZooKeeper calls that fail

\* oversized: too large for the record, if not for the result node.  timeout: the
\* executor gives the command up, which goes on all the same.
AllOutcomes == {"output", "empty", "oversized", "failure", "timeout"}

ASSUME SetsAssumption ==
    /\ NoTask \notin Tasks /\ NoWorker \notin Workers
    /\ Deps \in [Tasks -> SUBSET Tasks] /\ Refs \in [Tasks -> SUBSET Tasks]
ASSUME LimitsAssumption ==
    /\ MaxRetries \in [Tasks -> Nat]
    /\ MaxCrashes \in Nat /\ MaxFaults \in Nat
    /\ UnderscoreIds \in BOOLEAN /\ Outcomes \subseteq AllOutcomes

GlobalRetries == 3      \* MAX_GLOBAL_RETRIES

VARIABLES
    runtime,    \* runtime[t]: the record under /dags/<dag>/tasks
    running,    \* running[t]: the owner of the node under /running-tasks
    result,     \* tasks with a node under /results
    alive,      \* alive[w]: what is left of worker w
    executing,  \* executing[w]: w's executingTasks
    hook,       \* hook[w]: keys w's shutdown hook has yet to release
    poll,       \* poll[w]: the poll's step, task and copy of the record
    threads,    \* threads[e]: an execution thread
    sched,      \* scheduleDagTasks: step, tasks to do, task just created
    map,        \* map[t]: its runtimeMap
    check,      \* checkCrashedWorkers: step, nodes listed, tasks to do, record
    crashes, faults,
    overdue,    \* overdue[w]: tasks of which w runs a command given up at its timeout
    attempted   \* tasks whose command has been run (history)

masterVars == <<sched, map, check>>
workerVars == <<alive, executing, hook, poll, threads>>
vars == <<runtime, running, result, workerVars, masterVars, crashes, faults,
          overdue, attempted>>

Statuses == {"PENDING", "RUNNING", "SUCCESS", "FAILED", "RETRYING"}
Record == [status : Statuses \cup {"ABSENT"}, retry : Nat]
Absent == [status |-> "ABSENT", retry |-> 0]

Alive == {"up", "stopping", "killed", "gone"}
Poll == [pc : {"idle", "acquire", "start"}, task : Tasks \cup {NoTask}, rec : Record]
IdlePoll == [pc |-> "idle", task |-> NoTask, rec |-> Absent]
Thread == [pc : {"free", "attempt", "store", "report", "unmark", "release"},
           worker : Workers \cup {NoWorker}, task : Tasks \cup {NoTask},
           retry : Nat, outcome : AllOutcomes \cup {"none"}]
FreeThread == [pc |-> "free", worker |-> NoWorker, task |-> NoTask,
               retry |-> 0, outcome |-> "none"]
Sched == [pc : {"idle", "read", "visit"}, todo : SUBSET Tasks, created : Tasks \cup {NoTask}]
IdleSched == [pc |-> "idle", todo |-> {}, created |-> NoTask]
Check == [pc : {"idle", "scan", "write"}, nodes : SUBSET Tasks, todo : SUBSET Tasks,
          task : Tasks \cup {NoTask}, rec : Record]
IdleCheck == [pc |-> "idle", nodes |-> {}, todo |-> {}, task |-> NoTask, rec |-> Absent]
NoMap == [t \in Tasks |-> Absent]

TypeOK ==
    /\ runtime \in [Tasks -> Record]
    /\ running \in [Tasks -> Workers \cup {NoWorker}]
    /\ result \subseteq Tasks
    /\ alive \in [Workers -> Alive]
    /\ executing \in [Workers -> SUBSET Tasks]
    /\ hook \in [Workers -> SUBSET Tasks]
    /\ poll \in [Workers -> Poll]
    /\ threads \in [Execs -> Thread]
    /\ sched \in Sched
    /\ map \in [Tasks -> Record]
    /\ check \in Check
    /\ crashes \in 0..MaxCrashes
    /\ faults \in 0..MaxFaults
    /\ overdue \in [Workers -> SUBSET Tasks]
    /\ attempted \subseteq Tasks

\* handleSubmit stored the DAG and its empty tasks directory.
Init ==
    /\ runtime = [t \in Tasks |-> Absent]
    /\ running = [t \in Tasks |-> NoWorker]
    /\ result = {}
    /\ alive = [w \in Workers |-> "up"]
    /\ executing = [w \in Workers |-> {}]
    /\ hook = [w \in Workers |-> {}]
    /\ poll = [w \in Workers |-> IdlePoll]
    /\ threads = [e \in Execs |-> FreeThread]
    /\ sched = IdleSched
    /\ map = NoMap
    /\ check = IdleCheck
    /\ crashes = 0
    /\ faults = 0
    /\ overdue = [w \in Workers |-> {}]
    /\ attempted = {}

-----------------------------------------------------------------------------
(* ZooKeeper, as ZkService uses it *)

Fails == faults < MaxFaults /\ faults' = faults + 1

\* Mutant of Rec: the retry count is written one too low.
RecOneLess(s, n) == [status |-> s, retry |-> n - 1]

Rec(s, n) == [status |-> s, retry |-> n]

\* setData: writes whatever is there by now, and nothing on a missing node.
SetData(t, rec) ==
    \/ /\ runtime[t] # Absent
       /\ runtime' = [runtime EXCEPT ![t] = rec]
       /\ UNCHANGED faults
    \/ /\ runtime[t] = Absent
       /\ UNCHANGED <<runtime, faults>>
    \/ UNCHANGED runtime /\ Fails

\* createPersistent: creates the node, or overwrites the one that exists.
CreatePersistent(t, rec) ==
    \/ runtime' = [runtime EXCEPT ![t] = rec] /\ UNCHANGED faults
    \/ UNCHANGED runtime /\ Fails

\* delete with version -1: whoever owns the node by now.
DeleteNode(t) ==
    \/ running' = [running EXCEPT ![t] = NoWorker] /\ UNCHANGED faults
    \/ UNCHANGED running /\ Fails

Upstream == [t \in Tasks |-> Deps[t] \cup Refs[t]]

-----------------------------------------------------------------------------
(* scheduleDagTasks, on the leader *)

Terminal(rec) == rec.status \in {"SUCCESS", "FAILED"}
Completed == {t \in Tasks : map[t].status = "SUCCESS"}

\* The records are read one by one; a failed listing reads as an empty one.
SchedBegin ==
    /\ sched.pc = "idle"
    /\ \/ /\ sched' = [IdleSched EXCEPT !.pc = "read", !.todo = Tasks]
          /\ UNCHANGED faults
       \/ /\ sched' = [IdleSched EXCEPT !.pc = "visit", !.todo = Tasks]
          /\ Fails
    /\ UNCHANGED <<runtime, running, result, workerVars, map, check, crashes, overdue, attempted>>

\* After the last read: return if all records read are terminal, else visit the
\* DAG's tasks.
SchedRead(t) ==
    /\ sched.pc = "read" /\ t \in sched.todo
    /\ \E rec \in {runtime[t], Absent} :
         LET read == [map EXCEPT ![t] = rec]
             seen == {u \in Tasks : read[u] # Absent}
             allDone == seen # {} /\ \A u \in seen : Terminal(read[u])
         IN  /\ IF rec = runtime[t] THEN UNCHANGED faults ELSE Fails
             /\ IF sched.todo # {t}
                  THEN /\ map' = read
                       /\ sched' = [IdleSched EXCEPT !.pc = "read", !.todo = sched.todo \ {t}]
                ELSE IF allDone
                  THEN /\ map' = NoMap
                       /\ sched' = IdleSched
                ELSE   /\ map' = read
                       /\ sched' = [IdleSched EXCEPT !.pc = "visit", !.todo = Tasks]
    /\ UNCHANGED <<runtime, running, result, workerVars, check, crashes, overdue, attempted>>

\* A task without a record, as far as the pass knows, gets a new one.
SchedCreate(t) ==
    /\ sched.pc = "visit" /\ t \in sched.todo /\ sched.created = NoTask
    /\ map[t] = Absent
    /\ CreatePersistent(t, Rec("PENDING", 0))
    /\ map' = [map EXCEPT ![t] = Rec("PENDING", 0)]
    /\ sched' = [sched EXCEPT !.created = t]
    /\ UNCHANGED <<running, result, workerVars, check, crashes, overdue, attempted>>

\* Mutant of Eligible: without checkUpstreamResults.
EligibleByStatus(t) ==
    map[t].status \in {"PENDING", "RETRYING"} /\ Deps[t] \subseteq Completed

\* The dependencies are complete in the map and every upstream result is there.
Eligible(t) ==
    /\ map[t].status \in {"PENDING", "RETRYING"}
    /\ Deps[t] \subseteq Completed
    /\ Upstream[t] \subseteq result

\* ... and is marked RUNNING when it is eligible.  No worker has it yet.
SchedVisit(t) ==
    /\ sched.pc = "visit" /\ t \in sched.todo /\ sched.created \in {NoTask, t}
    /\ map[t] # Absent
    /\ \/ /\ Eligible(t)
          /\ SetData(t, Rec("RUNNING", map[t].retry))
       \/ /\ ~Eligible(t)
          /\ UNCHANGED <<runtime, faults>>
       \/ \* hasResult failed
          /\ map[t].status \in {"PENDING", "RETRYING"} /\ Upstream[t] # {}
          /\ UNCHANGED runtime /\ Fails
    /\ IF sched.todo = {t}
         THEN sched' = IdleSched /\ map' = NoMap
         ELSE /\ sched' = [IdleSched EXCEPT !.pc = "visit", !.todo = sched.todo \ {t}]
              /\ UNCHANGED map
    /\ UNCHANGED <<running, result, workerVars, check, crashes, overdue, attempted>>

-----------------------------------------------------------------------------
(* checkCrashedWorkers, on the leader *)

\* The running nodes are listed before any record is read.
CheckBegin ==
    /\ check.pc = "idle"
    /\ \E nodes \in {{t \in Tasks : running[t] # NoWorker}, {}} :
         /\ IF \A t \in Tasks : running[t] # NoWorker => t \in nodes
              THEN UNCHANGED faults ELSE Fails
         /\ check' = [IdleCheck EXCEPT !.pc = "scan", !.nodes = nodes, !.todo = Tasks]
    /\ UNCHANGED <<runtime, running, result, workerVars, sched, map, crashes, overdue, attempted>>

CheckNext(t) ==
    check' = IF check.todo = {t} THEN IdleCheck
             ELSE [IdleCheck EXCEPT !.pc = "scan", !.nodes = check.nodes, !.todo = check.todo \ {t}]

CheckRead(t) ==
    /\ check.pc = "scan" /\ t \in check.todo
    /\ \/ /\ runtime[t].status = "RUNNING" /\ t \notin check.nodes
          /\ check' = [check EXCEPT !.pc = "write", !.task = t, !.rec = runtime[t]]
          /\ UNCHANGED faults
       \/ /\ runtime[t].status # "RUNNING" \/ t \in check.nodes
          /\ CheckNext(t)
          /\ UNCHANGED faults
       \/ /\ runtime[t] # Absent
          /\ CheckNext(t)
          /\ Fails
    /\ UNCHANGED <<runtime, running, result, workerVars, sched, map, crashes, overdue, attempted>>

\* Mutant of Crashed: a crash never fails the task.
CrashedAgain(rec, limit) == Rec("RETRYING", rec.retry + 1)

\* handleWorkerCrash: one more retry, or the end.
Crashed(rec, limit) ==
    Rec(IF rec.retry + 1 >= limit THEN "FAILED" ELSE "RETRYING", rec.retry + 1)

CheckWrite ==
    /\ check.pc = "write"
    /\ \/ SetData(check.task, Crashed(check.rec, MaxRetries[check.task]))
       \/ \* getTaskNode failed: the limit is 3
          /\ runtime' = [runtime EXCEPT ![check.task] = Crashed(check.rec, 3)]
          /\ Fails
    /\ CheckNext(check.task)
    /\ UNCHANGED <<running, result, workerVars, sched, map, crashes, overdue, attempted>>

\* The leader's session ends, its two passes write nothing more, and the next
\* leader starts with passes of its own.
MasterFailover ==
    /\ crashes < MaxCrashes
    /\ sched.pc # "idle" \/ check.pc # "idle"
    /\ crashes' = crashes + 1
    /\ sched' = IdleSched /\ map' = NoMap /\ check' = IdleCheck
    /\ UNCHANGED <<runtime, running, result, workerVars, faults, overdue, attempted>>

-----------------------------------------------------------------------------
(* pollAndExecuteTasks and executeTask, on a worker *)

Working(w) == alive[w] \in {"up", "stopping"}

\* Mutants of PollRead: executingTasks is not looked at; a PENDING task is taken.
PollReadAny(w, t) ==
    /\ Working(w) /\ poll[w].pc = "idle"
    /\ runtime[t].status \in {"RUNNING", "RETRYING"}
    /\ poll' = [poll EXCEPT ![w] = [pc |-> "acquire", task |-> t, rec |-> runtime[t]]]
    /\ UNCHANGED <<runtime, running, result, alive, executing, hook, threads, masterVars,
                   crashes, faults, overdue, attempted>>
PollReadPending(w, t) ==
    /\ Working(w) /\ poll[w].pc = "idle"
    /\ t \notin executing[w]
    /\ runtime[t].status \in {"PENDING", "RUNNING", "RETRYING"}
    /\ poll' = [poll EXCEPT ![w] = [pc |-> "acquire", task |-> t, rec |-> runtime[t]]]
    /\ UNCHANGED <<runtime, running, result, alive, executing, hook, threads, masterVars,
                   crashes, faults, overdue, attempted>>

\* The poll copies the record of a task that w is not executing.
PollRead(w, t) ==
    /\ Working(w) /\ poll[w].pc = "idle"
    /\ t \notin executing[w]
    /\ runtime[t].status \in {"RUNNING", "RETRYING"}
    /\ poll' = [poll EXCEPT ![w] = [pc |-> "acquire", task |-> t, rec |-> runtime[t]]]
    /\ UNCHANGED <<runtime, running, result, alive, executing, hook, threads, masterVars,
                   crashes, faults, overdue, attempted>>

\* createEphemeralIfAbsent: create the running node, or find it is w's already.
PollAcquire(w) ==
    LET t == poll[w].task
    IN  /\ Working(w) /\ poll[w].pc = "acquire"
        /\ running[t] \in {NoWorker, w}
        /\ running' = [running EXCEPT ![t] = w]
        /\ executing' = [executing EXCEPT ![w] = @ \cup {t}]
        /\ poll' = [poll EXCEPT ![w].pc = "start"]
        /\ UNCHANGED <<runtime, result, alive, hook, threads, masterVars, crashes, faults,
                       overdue, attempted>>

\* Another worker's node, or a call failed: the create may have been applied.
PollSkip(w) ==
    LET t == poll[w].task
    IN  /\ Working(w) /\ poll[w].pc = "acquire"
        /\ \/ running[t] \notin {NoWorker, w} /\ UNCHANGED <<running, faults>>
           \/ running[t] \in {NoWorker, w} /\ UNCHANGED running /\ Fails
           \/ running[t] = NoWorker /\ running' = [running EXCEPT ![t] = w] /\ Fails
        /\ poll' = [poll EXCEPT ![w] = IdlePoll]
        /\ UNCHANGED <<runtime, result, alive, executing, hook, threads, masterVars, crashes,
                       overdue, attempted>>

\* Write the copy back as RUNNING and start a thread that keeps it.
PollStart(w) ==
    LET t == poll[w].task
    IN  /\ Working(w) /\ poll[w].pc = "start"
        /\ SetData(t, Rec("RUNNING", poll[w].rec.retry))
        /\ \E e \in Execs :
             /\ threads[e] = FreeThread
             /\ threads' = [threads EXCEPT ![e] = [FreeThread EXCEPT
                               !.pc = "attempt", !.worker = w, !.task = t,
                               !.retry = poll[w].rec.retry]]
        /\ poll' = [poll EXCEPT ![w] = IdlePoll]
        /\ UNCHANGED <<running, result, alive, executing, hook, masterVars, crashes,
                       overdue, attempted>>

\* executeWithTimeoutAndRetry: no attempt is left, or one is made.
Limit(t) == IF MaxRetries[t] < GlobalRetries THEN MaxRetries[t] ELSE GlobalRetries

\* A command that failed or outlived its timeout: the next attempt, if one is left.
NextAttempt(th) ==
    IF th.retry + 1 >= Limit(th.task)
      THEN [th EXCEPT !.pc = "report", !.outcome = "failure"]
      ELSE [th EXCEPT !.retry = @ + 1]

\* cancel(true) and shutdownNow() only interrupt: the thread that reads the
\* command's output reads on, beside the next attempt.
Attempt(e) ==
    LET th == threads[e]
    IN  /\ th.pc = "attempt"
        /\ \/ /\ th.retry >= Limit(th.task)
              /\ threads' = [threads EXCEPT ![e].pc = "report", ![e].outcome = "failure"]
              /\ UNCHANGED <<overdue, attempted>>
           \/ /\ th.retry < Limit(th.task)
              /\ attempted' = attempted \cup {th.task}
              /\ \/ /\ \E o \in Outcomes \ {"failure", "timeout"} :
                         threads' = [threads EXCEPT ![e].pc = "store", ![e].outcome = o]
                    /\ UNCHANGED overdue
                 \/ /\ "failure" \in Outcomes
                    /\ threads' = [threads EXCEPT ![e] = NextAttempt(th)]
                    /\ UNCHANGED overdue
                 \/ /\ "timeout" \in Outcomes
                    /\ threads' = [threads EXCEPT ![e] = NextAttempt(th)]
                    /\ overdue' = [overdue EXCEPT ![th.worker] = @ \cup {th.task}]
        /\ UNCHANGED <<runtime, running, result, alive, executing, hook, poll, masterVars,
                       crashes, faults>>

\* The last such command of t ends by itself; nobody waits for what it returns.
OverdueEnds(w, t) ==
    /\ t \in overdue[w]
    /\ overdue' = [overdue EXCEPT ![w] = @ \ {t}]
    /\ UNCHANGED <<runtime, running, result, workerVars, masterVars, crashes, faults, attempted>>

\* Mutant of StoreResult: it returns before the node is written.
StoreResultLater(e) ==
    /\ threads[e].pc = "store"
    /\ threads' = [threads EXCEPT ![e].pc = "report"]
    /\ UNCHANGED <<runtime, running, result, alive, executing, hook, poll, masterVars, crashes,
                   faults, overdue, attempted>>

\* storeResult: an empty output is skipped, one over ZooKeeper's limit rejected;
\* an output just under it may fit here and be too large for the record.
StoreResult(e) ==
    LET th == threads[e]
    IN  /\ th.pc = "store"
        /\ \/ th.outcome # "empty" /\ result' = result \cup {th.task} /\ UNCHANGED faults
           \/ th.outcome = "output" /\ UNCHANGED result /\ Fails
           \/ th.outcome # "output" /\ UNCHANGED <<result, faults>>
        /\ threads' = [threads EXCEPT ![e].pc = "report"]
        /\ UNCHANGED <<runtime, running, alive, executing, hook, poll, masterVars, crashes,
                       overdue, attempted>>

\* Mutant of Reported: a failed execution is always retried.
ReportedAgain(th) ==
    IF th.outcome # "failure" THEN Rec("SUCCESS", th.retry) ELSE Rec("RETRYING", th.retry + 1)

\* The record after an execution; it carries the output, so that an oversized
\* one keeps it from being written.
Reported(th) ==
    IF th.outcome # "failure" THEN Rec("SUCCESS", th.retry)
    ELSE IF th.retry >= Limit(th.task) THEN Rec("FAILED", th.retry)
    ELSE Rec("RETRYING", th.retry + 1)

Report(e) ==
    LET th == threads[e]
    IN  /\ th.pc = "report"
        /\ IF th.outcome = "oversized" THEN UNCHANGED <<runtime, faults>>
                                       ELSE SetData(th.task, Reported(th))
        /\ threads' = [threads EXCEPT ![e].pc = "unmark"]
        /\ UNCHANGED <<running, result, alive, executing, hook, poll, masterVars, crashes,
                       overdue, attempted>>

\* finally: executingTasks.remove, then delete of the running node.
Unmark(e) ==
    LET th == threads[e]
    IN  /\ th.pc = "unmark"
        /\ executing' = [executing EXCEPT ![th.worker] = @ \ {th.task}]
        /\ threads' = [threads EXCEPT ![e].pc = "release"]
        /\ UNCHANGED <<runtime, running, result, alive, hook, poll, masterVars, crashes,
                       faults, overdue, attempted>>

Release(e) ==
    /\ threads[e].pc = "release"
    /\ DeleteNode(threads[e].task)
    /\ threads' = [threads EXCEPT ![e] = FreeThread]
    /\ UNCHANGED <<runtime, result, alive, executing, hook, poll, masterVars, crashes,
                   overdue, attempted>>

\* checkExecutionTimeouts drops a key whose record it cannot read.  It splits
\* the key at its first "_", and so reads no record at all of a DAG whose id
\* contains one.
ScanDrops(w) ==
    /\ Working(w) /\ executing[w] # {}
    /\ \E dropped \in IF UnderscoreIds THEN {executing[w]} ELSE {{t} : t \in executing[w]} :
         executing' = [executing EXCEPT ![w] = @ \ dropped]
    /\ IF UnderscoreIds THEN UNCHANGED faults ELSE Fails
    /\ UNCHANGED <<runtime, running, result, alive, hook, poll, threads, masterVars, crashes,
                   overdue, attempted>>

-----------------------------------------------------------------------------
(* The end of a worker *)

Costs == crashes < MaxCrashes /\ crashes' = crashes + 1

\* What is left of a worker that no longer acts.  (The processes a dead worker
\* leaves behind are left out: nothing of them comes back to the program.)
Cleared(w) ==
    /\ overdue' = [overdue EXCEPT ![w] = {}]
    /\ executing' = [executing EXCEPT ![w] = {}]
    /\ hook' = [hook EXCEPT ![w] = {}]
    /\ poll' = [poll EXCEPT ![w] = IdlePoll]
    /\ threads' = [e \in Execs |-> IF threads[e].worker = w THEN FreeThread ELSE threads[e]]

\* SIGTERM: the shutdown hook runs beside the worker's other threads and
\* deletes the nodes of the tasks they are executing.
Terminate(w) ==
    /\ alive[w] = "up" /\ Costs
    /\ alive' = [alive EXCEPT ![w] = "stopping"]
    /\ hook' = [hook EXCEPT ![w] = executing[w]]
    /\ UNCHANGED <<runtime, running, result, executing, poll, threads, masterVars, faults,
                   overdue, attempted>>

HookRelease(w, t) ==
    /\ alive[w] = "stopping" /\ t \in hook[w]
    /\ DeleteNode(t)
    /\ hook' = [hook EXCEPT ![w] = @ \ {t}]
    /\ UNCHANGED <<runtime, result, alive, executing, poll, threads, masterVars, crashes,
                   overdue, attempted>>

\* The process is gone at once, its session and its nodes are not.
Kill(w) ==
    /\ Working(w)
    /\ IF alive[w] = "up" THEN Costs ELSE UNCHANGED crashes
    /\ alive' = [alive EXCEPT ![w] = "killed"]
    /\ Cleared(w)
    /\ UNCHANGED <<runtime, running, result, masterVars, faults, attempted>>

\* Mutant of SessionEnds: the running nodes are persistent.
SessionEndsOnly(w) ==
    /\ alive[w] # "gone"
    /\ IF alive[w] = "up" THEN Costs ELSE UNCHANGED crashes
    /\ alive' = [alive EXCEPT ![w] = "gone"]
    /\ Cleared(w)
    /\ UNCHANGED <<runtime, running, result, masterVars, faults, attempted>>

\* Timeout of a killed or partitioned worker's session, or close by shutdown.
SessionEnds(w) ==
    /\ alive[w] # "gone"
    /\ IF alive[w] = "up" THEN Costs ELSE UNCHANGED crashes
    /\ alive' = [alive EXCEPT ![w] = "gone"]
    /\ Cleared(w)
    /\ running' = [t \in Tasks |-> IF running[t] = w THEN NoWorker ELSE running[t]]
    /\ UNCHANGED <<runtime, result, masterVars, faults, attempted>>

-----------------------------------------------------------------------------

MasterNext ==
    \/ SchedBegin \/ CheckBegin \/ CheckWrite \/ MasterFailover
    \/ \E t \in Tasks : SchedRead(t) \/ SchedCreate(t) \/ SchedVisit(t) \/ CheckRead(t)

WorkerNext ==
    \/ \E w \in Workers : \/ PollAcquire(w) \/ PollSkip(w) \/ PollStart(w) \/ ScanDrops(w)
                          \/ Terminate(w) \/ Kill(w) \/ SessionEnds(w)
                          \/ \E t \in Tasks : PollRead(w, t) \/ HookRelease(w, t)
                                             \/ OverdueEnds(w, t)
    \/ \E e \in Execs : Attempt(e) \/ StoreResult(e) \/ Report(e) \/ Unmark(e) \/ Release(e)

Next == MasterNext \/ WorkerNext

Spec == Init /\ [][Next]_vars

\* Both passes are run again and again and visit every task, and so does the
\* poll of a worker that is up; an attempt ends, at its timeout if not before;
\* ZooKeeper ends the session of a killed worker.
Fairness ==
    /\ WF_vars(SchedBegin \/ \E t \in Tasks : SchedRead(t) \/ SchedCreate(t) \/ SchedVisit(t))
    /\ WF_vars(CheckBegin \/ CheckWrite \/ \E t \in Tasks : CheckRead(t))
    /\ \A w \in Workers :
         /\ WF_vars(alive[w] = "up" /\ (PollAcquire(w) \/ PollSkip(w) \/ PollStart(w)))
         /\ \A t \in Tasks : WF_vars(alive[w] = "up" /\ PollRead(w, t))
         /\ WF_vars(alive[w] # "up" /\ SessionEnds(w))
    /\ \A e \in Execs : WF_vars(Attempt(e) \/ StoreResult(e) \/ Report(e) \/ Unmark(e) \/ Release(e))

FairSpec == Spec /\ Fairness

-----------------------------------------------------------------------------
(* Properties *)

\* No stale map, copied record or rewritten node lets a task get past PENDING
\* before every upstream result is stored: the worker needs it to resolve the
\* parameters (checkUpstreamResults, ParameterResolver).
UpstreamReady ==
    \A t \in Tasks : runtime[t].status \notin {"ABSENT", "PENDING"} => Upstream[t] \subseteq result

\* SUCCESS is never read before the result can be: where every command prints
\* something and no call fails, whatever threads, crashes and stale writes come
\* between storeResult and the record, the dependents of a task in SUCCESS find
\* its result (an empty output is the known exception: it stores no node).
SuccessHasResult ==
    ("empty" \notin Outcomes /\ faults = 0) =>
        \A t \in Tasks : runtime[t].status = "SUCCESS" => t \in result

\* However the master's and the workers' increments interleave, a record that is
\* not final stays within maxRetries and a final one is at most one over: the
\* retry count cannot run away.  (A master that cannot read the DAG allows 3.)
RetryLimit(t) == IF faults = 0 \/ MaxRetries[t] > 3 THEN MaxRetries[t] ELSE 3
Within(t, rec) == rec.retry <= IF rec.status = "FAILED" THEN RetryLimit(t) + 1 ELSE RetryLimit(t)
RetryBound == \A t \in Tasks : Within(t, runtime[t])

\* executingTasks keeps a worker from having two execution threads for one task at
\* once, whichever of its nodes are deleted under it, as long as the timeout scan
\* can read the records: no two of its threads attempt, store or report the same
\* task.  (Of the commands themselves two can run at once: a thread does not wait
\* for one it has given up at its timeout, see overdue.)
Runs(e, w, t) ==
    /\ threads[e].worker = w /\ threads[e].task = t
    /\ threads[e].pc \in {"attempt", "store", "report", "unmark"}
OneThreadPerTask ==
    ~UnderscoreIds /\ faults = 0 =>
        \A e, f \in Execs, w \in Workers, t \in Tasks :
            Runs(e, w, t) /\ Runs(f, w, t) => e = f

\* The order of the DAG, as DagOrder states it.
DO == INSTANCE DagOrder WITH started <- attempted, done <- result
InOrder == DO!Spec

\* Crash recovery: once the crashes are over and a worker is left, a scheduled task
\* ends, whatever dead workers or a lost leader were in the middle of: an abandoned
\* execution is found, and the master's premature retries (it calls a task crashed
\* that no worker has taken yet) run out.  Not so where an output does not fit its
\* record: that stays RUNNING and is executed for ever.  Nor where commands fail
\* and two workers are left: each may write its stale copy over the retry count of
\* the other, time and again.
Settled ==
    LET up == {w \in Workers : alive[w] = "up"}
    IN  /\ crashes = MaxCrashes /\ faults = MaxFaults
        /\ "oversized" \notin Outcomes
        /\ \/ Cardinality(up) = 1
           \/ up # {} /\ Outcomes \cap {"failure", "timeout"} = {}
RecoveryCompletes ==
    \A t \in Tasks :
        (Settled /\ runtime[t].status \in {"RUNNING", "RETRYING"}) ~> Terminal(runtime[t])

-----------------------------------------------------------------------------
(* What the documentation says and the code does not do *)

\* README.md of src/36: a node under /running-tasks exists while a worker executes
\* the task.  Here: while one of its threads runs the command, whoever owns it.
NodeWhileExecuting ==
    \A e \in Execs :
        threads[e].pc = "attempt" /\ alive[threads[e].worker] = "up"
            => running[threads[e].task] # NoWorker

\* README.md of src/36: SUCCESS ends a task.  No step takes it back.
SuccessIsFinal ==
    [][\A t \in Tasks : runtime[t].status = "SUCCESS" => runtime'[t].status = "SUCCESS"]_vars

\* README.md and the error message of handleWorkerCrash: a task FAILED after
\* retries of executions that crashed or failed.  Some execution there was.
FailedOnlyAfterAttempt ==
    \A t \in Tasks : runtime[t].status = "FAILED" => t \in attempted \/ crashes > 0
=============================================================================
