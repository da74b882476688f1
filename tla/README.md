# Formal models of the programs under `src/`

TLA+ specifications of the concurrent and stateful cores of this repository, the TLC
configurations that model-check them, and TLAPS proofs about them.

`PROJECT.json` is the index: which module models which lines, what every run
checks, which hazard of the code each property is about, what is proved.

```
tlc -workers 2 -config orch_chain.cfg MCTaskOrchestrator.tla   # a run
tlc -workers 2 -config programs.cfg MCPrograms.tla
tlapm TaskOrchestratorProofs.tla                               # the proofs
```

## 1. The repository

`src/` holds 120 independent programs, `src/1` to `src/120`, in Go, Java, Python,
Rust, C, C++, C# and JavaScript: about 430 000 lines of their own. They share no
code. Most are request handlers over a database, numeric or graphic tools, or
forwarding proxies, whose difficulty is not in their interleavings. The ones
whose own logic is a protocol between processes or threads, and that break when
steps meet in an unforeseen order, come first:

| program | what it is | why it is modelled, or when |
|---|---|---|
| `src/36` | distributed task orchestrator, Java over ZooKeeper | **modelled**: election, crash recovery, retries, unconditional writes of stale copies |
| `src/57` | MySQL backups from LVM snapshots to S3, Python | **modelled**: a workflow of commands that fail or are killed at any step, and the restore of what they left |
| `src/109` | DDoS diversion by BGP FlowSpec, Python asyncio | **modelled**: queued tasks against the API, upgrades and expiry |
| `src/71` | NAS audit service over SMB, Python threads | **modelled**: catching up with missed changes; quarantine by copy and delete |
| `src/68` | P4 switch controller, Python threads | **modelled**: blocking and unblocking in two tables; retraining of thresholds |
| `src/65` | distributed memory pool, C++ | next: locks with leases, slabs, node recovery, concurrent handlers |
| `src/46` | database proxy, Rust | then: connection pool limits, replica failover |
| `src/116` | video rights monitor, Python | candidate: feed entries marked as seen and never examined |
| `src/30`, `34`, `6`, `60`, `39`, `99`, `103` | schedulers, retry and dead letter queues, single flight caches | candidates after those |
| the others | web applications, tools, front ends, daemons | not planned; grouped by kind, with the reason, in `PROJECT.json` |

### The task orchestrator (`src/36/src/main/java/com/orchestrator`)

A DAG of tasks is stored in ZooKeeper. Several masters elect a leader, which
marks tasks RUNNING as their dependencies complete; workers poll for RUNNING
tasks, take them by creating an ephemeral node, run the command in a thread and
write the record back. There is no other communication.

| component | state | operations | what makes it correct |
|---|---|---|---|
| election (`MasterScheduler.tryElection`, `checkLeadership`) | ephemeral sequential nodes under `/masters`, `isLeader`, one-shot watches | register, evaluate (main thread and event thread), watch, end of session | at most one leader, the smallest; leadership is stable; it is handed over |
| scheduling (`MasterScheduler.scheduleDagTasks`) | its `runtimeMap`, the task records | read records, create PENDING, mark RUNNING | nothing starts before its upstream results exist |
| crash check (`checkCrashedWorkers`, `handleWorkerCrash`) | list of running nodes, copy of a record | list, read, write RETRYING or FAILED | abandoned tasks end; retries are bounded; a finished task stays finished |
| worker (`WorkerNode`) | `executingTasks`, threads, running nodes | poll, acquire, execute, report, release, timeout scan, shutdown hook | one execution thread per task at a time; the running node tells the truth |
| executor (`TaskExecutor`) | the shared `TaskRuntime`, commands given up and still running | retry loop, timeout | no more than three attempts |
| results (`ResultStore`, `ParameterResolver`) | nodes under `/results` | store, test | a result once stored stays; empty and too large outputs |
| access (`ZkService`) | session | every call, its exceptions swallowed | a failed call must not be taken for an answer that breaks the above |
| command line, `DAGParser` | none of their own | submit; `topologicalSort` has no caller | not modelled |

What is hard here: every pass works on copies and writes with version -1; the two
passes of the leader, the polls and the task threads interleave at every
ZooKeeper call; a call that fails looks like a missing node, an empty list or a
success; workers and leaders end at any point; watches are one-shot; a timeout ends an
attempt and not its command.

### The Python programs

| component | state | operations | what makes it correct |
|---|---|---|---|
| 57 backup (`backup.py`, `lvm.py`, `mysql_client.py`, `storage.py`) | global read lock, snapshot, mount, archive and encrypted archive on the host, bucket, manifests | snapshot, lock, position, unlock, mount, dump, pack, encrypt, manifest, two uploads, manifest again, cleanup; kill | a manifest in the bucket has its archive; the binlog position is not beyond the dump; nothing is left behind |
| 57 restore (`restore.py`) | archive files on the host, unpacked directory, new volume | fetch, verify, decrypt, unpack, verify files, create volume, apply, cleanup; kill | what it reports as restored is the backup asked for, whole |
| 109 rules (`rule_manager.py`, `anomaly_detector.py`, `api_server.py`) | active rules, destination to rule, queued asyncio tasks | trigger, apply, check and upgrade, upgrade for an attack type, create, escalate, revoke, expire | an entry names an active rule; a rule is only made stricter |
| 109 routes (`flowspec_controller.py`) | the router's routes, the ExaBGP socket | announce, withdraw; a socket that breaks | no route outlives its rule |
| 71 monitor (`smb_monitor.py`, `state_manager.py`) | session, notifier threads and their handles, last snapshot in memory and on disk | start, notify, lose the connection, reconnect, list, compare, store, stop, crash | a change is reported before the snapshot contains it |
| 71 quarantine (`dlp_pipeline.py`, `quarantine_manager.py`) | queue of events, files, quarantine names | scan, move, copy and delete, restore | no content is lost |
| 68 blocker (`auto_blocker.py`, `p4_controller.py`) | packet statistics, blacklist, four switch tables, the controller's dictionaries | record a packet, block, unblock, REST calls; a write that fails | the switch drops what the monitor blocks; who was unblocked can be blocked again |
| 68 thresholds (`adaptive_manager.py`, `ml_model.py`) | thresholds computed, pending, in use; mode, bounds | train, apply, check, adjust, approve, reject, set mode and bounds | what nobody approved is not in use; bounds are kept |

The parts of one program share memory or call each other, the programs share
nothing. What is hard: in 57 the order of a dozen commands against commits, kills
and failing cleanups, and files that an earlier attempt left; in 109 tasks that run
after the state they were created for has changed; in 71 threads that outlive the
connection they served, a listing that ages while it is compared, and a copy and
a delete that other threads and users come between; in 68 two table writes under a
lock that the REST calls do not take, and thresholds read, then applied, without it.

## 2. Modules

| module | models |
|---|---|
| `MasterElection` | election of the leader: main thread, event thread, ZooKeeper's nodes and watches |
| `Leadership` | abstract: candidates lead one at a time, in the order in which they came forward |
| `MCMasterElection` | constants and symmetry for TLC |
| `MasterElectionProofs` | inductive invariant and theorems |
| `DagOrder` | abstract: a task starts after its upstream tasks have produced their results, results stay |
| `TaskOrchestrator` | one DAG: leader's two passes, workers, execution threads, results |
| `MCTaskOrchestrator` | a chain of two tasks, and one task, for TLC |
| `TaskOrchestratorProofs` | four inductive invariants and theorems |
| `MySqlBackup` | `src/57`: backup and restore |
| `BackupCatalog` | abstract: what a keeper of backups may rely on: immutable, archived before stored, restored whole or not |
| `DiversionRules` | `src/109`: rules, queued tasks and routes |
| `NasMonitor` | `src/71`: monitor threads, reconnection, catch-up, state file |
| `NasQuarantine` | `src/71`: scan workers, quarantine and restore |
| `P4Gateway` | `src/68`: traffic monitor, callbacks, switch tables |
| `AdaptiveThresholds` | `src/68`: retraining, adjustment, approval |
| `MCPrograms` | the six of them in one run |
| `MySqlBackupProofs`, `DiversionRulesProofs`, `NasAuditProofs`, `P4GatewayProofs`, `AdaptiveThresholdsProofs` | an inductive invariant and the theorems of each (`NasAuditProofs`: of both NAS modules) |
| `ProgramsProofs` | that the run of the six is as good as six runs, and so has their theorems |

`TaskOrchestrator` assumes one leader, which is what `AtMostOneLeader` of
`MasterElection` establishes: no two masters whose session is open lead. A master
whose session has ended may still believe it leads (`isLeader` is never reset by
an expiry) but all its calls fail. A change of leader is `MasterFailover`: the
passes under way write nothing more, new ones start.

### MasterElection and the code

A znode is named by the master that owns it and ordered by `seq`; a restarted
master has a new session and is a new element. `main` and `event` are the two
threads; each splits `checkLeadership` where the code does, between `getChildren`
(`MainCheck`, `EventCheck`) and what follows from the list (`Decide`). Sorting the
children is `IsSmallestOf`: the names have a fixed width, so their order is that
of the numbers (until the 32-bit counter of ZooKeeper wraps, which is not modelled).
`pending` counts fired watches not yet handled; ZooKeeper delivers them on one
thread. Whether a watch's event type is the one the handler wants is built into
`FireChildWatches` and `FireDeletion`. `faults` counts the calls that fail on an
open session: an empty list, no watch, or a null path, the last one with or
without the node (a connection lost after the server had created it).

`Leadership` says what the passes need of this, without znodes, watches and threads: a
candidate is a master whose znode exists, `arrival` its sequence number, and `leading`
the masters that lead with an open session. `LeadInTurn` is that refinement. It says
more than `AtMostOneLeader`: whoever leads came forward first of all that have not
left, the lead is taken only while nobody has it, and who has left never leads again.
A `null` path (the node created, its owner unaware) is a candidate all the same: it
waits, and those behind it with it, until its session ends.

### TaskOrchestrator and the code

| variable | code |
|---|---|
| `runtime` | the `TaskRuntime` records: status and retry count; `ABSENT` before creation |
| `running` | owner of the node under `/running-tasks` |
| `result` | nodes under `/results` |
| `executing` | `executingTasks` of each worker |
| `poll`, `threads` | the polling thread's copy of a record; the threads `executeTask` starts, each with the retry count of the copy it keeps |
| `sched`, `map` | `scheduleDagTasks`: reading or visiting; `runtimeMap` |
| `check` | `checkCrashedWorkers`: nodes listed, tasks still to look at, copy to write |
| `hook`, `alive` | shutdown hook of a terminated worker; up, stopping, killed (its session still open), gone |
| `overdue` | tasks of which a worker still runs a command it gave up at its timeout |
| `attempted` | history: tasks whose command has been run |

Every ZooKeeper call that can matter to another process is a step of its own. A
few calls are merged where no other step can tell: the tests before `acquireTask`
(its create decides), `exists` and `create` in `createPersistent` (only the leader
creates records), the result tests of one task (results are only added).
Sets of tasks are visited in any order, as hash maps and child lists are.

Data that the properties do not tell apart is left out: parameters, outputs
(an output is there, empty or too large), times, error messages. A command
ends with any of `Outcomes`. `oversized` is an output that
keeps the record, which carries it, from being written; the result node, a little
smaller, may still fit.

A timeout does not stop the command. `TaskExecutor.java:60-74` cancels the future and
shuts the pool down, both of which only interrupt; the thread is in `readLine`
(`ShellTaskExecutor.java:42`), and the process is destroyed after its output has ended.
The next attempt starts two seconds later in a thread of its own, so one worker can run
a command twice at once. `overdue` holds such commands until they end (`OverdueEnds`),
which nothing waits for and nothing bounds; what they return is dropped.
`OneThreadPerTask` is therefore about execution threads, and says nothing of commands.

`ScanDrops` is `checkExecutionTimeouts`: it never interrupts an execution, it
drops keys whose record it could not read. It splits `dagId_taskId` at the first
underscore, so of a DAG whose id has one it reads no record; `UnderscoreIds` says
which kind of id the DAG has. Ids generated by the command line have one.

### MySqlBackup and the code

`job.pc` is the next command of `BackupWorkflow.run`, `restore.pc` that of
`RestoreWorkflow.run`; each command is one action that works, fails
(`BackupFault`), or is interrupted by `KillBackup` or `KillRestore`. The two nested
`finally` blocks are the steps `unmount` and `remove`, taken after any failure and
not after a kill. `writes` counts committed transactions, so a binlog position and
the content of a dump are numbers that can be compared. The README of `src/57`
describes a global lock around the snapshot and a dump from the mounted
snapshot. The code takes the snapshot first, then the lock, the position, unlocks,
and dumps from the live server: the model follows the code, which is
why the dump may hold more than the position says, and never less.
A file is missing, partial (a process died writing it), corrupt, or whole. The local
manifest is written twice, before the uploads and after them (`backup.py:206-208`), in
place each time: `write_manifest` truncates the file (`OpenManifest`), then fills it
(`WriteManifest`, `RewriteManifest`). A kill or a full disk in between leaves it `cut`.
`_resolve_manifest` takes a local manifest before the one in the bucket, cut or not, and
fails to parse it: a backup stored whole can then not be restored on this host, although
`src/57/README.md:76` describes the manifest as taken from S3. Names
matter once: `tar` stores `dump/<file>` and the manifest `<file>`, so paths are
sequences there. Backup 0 has a manifest without file checksums, as earlier
versions wrote it; the code accepts it, and it is the one whose restore succeeds.

`BackupCatalog` is the same program seen by whoever keeps its backups. A backup enters
the catalogue with its local manifest, never changes after, is archived before it is
stored, and survives the loss of the host if it is stored. Once after it was stored it
may leave the catalogue, and whether it returns before the host is lost is not promised
(`Reopen`, `PutBack`): that is the second write of its manifest. A restore ends with a
whole backup of the catalogue or nothing. `CatalogueKept` is that refinement: `archived`
and `stored` are the objects in the bucket, `catalog` is the manifests that
`_resolve_manifest` can return and that parse, `reopening` the run about to rewrite its
manifest, the rest of the state is the program's business. (A
damaged object is a fault of the bucket, not a step of the catalogue: the restore
finds it out and delivers nothing.)

### DiversionRules and the code

The handlers are coroutines, but nothing in them suspends, so one action is one
handler, and what interleaves is `tasks`, the coroutines given to `create_task` and
not yet run. A task holds a rule id, a destination and a strategy, as its arguments
do. Rates are tiers. `routes` is keyed by the match. `Withdrawn` omits the port as the code
does: a route with a port (HTTP and DNS floods) is never withdrawn, which
`NoOrphanRoute` leaves out and the hazard list names. After the socket broke once,
announcements and withdrawals are lost (`linkUp`), and nothing is promised of
routes. `ml_classifier.py` has a syntax error at line 223, so the service as
committed does not start; the classifier's verdict is any attack type.

### NasMonitor, NasQuarantine and the code

`mon.pc` is the place of the one thread that starts, reconnects and stops,
`notifiers` the threads of `_notify_loop`, each with the session it was started in.
`connect()` raises `_connected` before the session exists, so threads of the old
session and of the new one live together, and the handle filed under a path
(`handleOwner`) may be closed by the wrong one. `emitted` is the last change of each file
handed to the event buffer; the buffer, which a crash loses, is left out. `blind`
collects the changes swallowed by the three places that store a listing without
comparing it. In `NasQuarantine` each SMB request of `_smb_move` and
`_smb_copy_and_delete` is an action; path 0 is the user's, the others are the
quarantine names. `exposed` collects what was written to a path that a thread had
read and was about to delete: the code loses it, and `ContentKept` says that
nothing else is lost.

### P4Gateway, AdaptiveThresholds and the code

The monitor's lock is `gw`: from the block or unblock of a source until its
callbacks have written their two tables. REST calls and failing writes come between.
`table` is what the switch holds, `tracked` what the controller thinks it holds.
The L1 and L2 meters never exist, since `hashlib.crc32` does not. Nothing in `src/68`
calls `AutoBlocker.record_packet`, its entry point for packets: the model calls it with
any source. The calls of `p4runtime_sh`, which is not in the repository, are assumed to
work as the code expects, or to raise.

In `AdaptiveThresholds` a training holds the model's lock (`ModelFree`), but what comes
after does not: the mode is read (`ReadMode`), then the thresholds (`ReadThresholds`),
then they are applied type by type; the check does it in the other order
(`CheckThresholds`, `CheckMode`). A threshold is a level and whether it was approved;
what a training computes is any level. Only an adjustment is
clamped to the bounds of its type: `WithinBounds` leaves out thresholds a retraining
set, and types whose bounds were changed after, which do go outside their bounds.

### MCPrograms

A run of the sum costs as many states as the six programs together, not their
product: `program` names the one that moves, the others stay in one initial state.
Every action is the program's own, with all its variables.

## 3. Runs

| run | instance | shows |
|---|---|---|
| `election_safety` | 3 masters, 1 failing call, sessions end freely | type, `AtMostOneLeader`, `LeaderIsSmallest`, `LeadershipIsStable`, `LeadInTurn` |
| `election_handover` | 3 masters, no failing call, fair | `HandoverCompletes` |
| `election_stuck` | 2 masters, no failing call, fair | **violated** `LeaderIsElected` |
| `orch_chain` | 2 tasks, 1 worker, 2 threads, every outcome | type, `UpstreamReady`, `RetryBound`, `OneThreadPerTask`, `InOrder` |
| `orch_faults` | 2 tasks, 1 worker, 1 thread, 1 failing call | `UpstreamReady`, `RetryBound`, `InOrder` |
| `orch_doubled` | 1 task, underscore id, 2 threads, 2 retries, timeouts | `RetryBound` |
| `orch_recovery` | 1 task, 2 workers with 1 thread between them, 2 retries, 1 crash, fair | `SuccessHasResult`, `RecoveryCompletes` |
| `orch_node` | 1 task, underscore id | **violated** `NodeWhileExecuting` |
| `orch_final` | 1 task, 1 worker, 3 retries | **violated** `SuccessIsFinal` |
| `orch_unattempted` | 1 task, 1 worker, no crash | **violated** `FailedOnlyAfterAttempt` |
| `programs` | see the bounds below | types; 57: `ManifestHasArchive`, `PositionNotBeyondDump`, `NothingLeftBehind`, `RestoredIsBackedUp`, `CatalogueKept`; 109: `NoOrphanRoute`, `EntriesAreActive`, `OnlyStricter`; 71: `StoredIsReported`, `ContentKept`; 68: `SwitchFollowsMonitor`, `BlockedHasEntry`, `OnlyWantedWrites`, `OnlyApprovedInUse`, `WithinBounds` |
| `backup_intact` | 1 backup, 1 write, 1 fault allowed | **violated** `IntactBackupRestores` |

The five violated properties quote the READMEs of `src/36` and `src/57` or an error
message. None of them needs a crash or a failing call:

* `LeaderIsElected`: a master reads that another is smallest; that one's session
  ends; the watch is then set, by `exists`, on a node that is gone and will not be
  created again, and the child watch is not yet set or already consumed.
* `NodeWhileExecuting`: the scan drops the key, the poll takes the task a second
  time (the node is the worker's own), the first thread's `finally` deletes the
  node, the second goes on.
* `SuccessIsFinal`: a pass of the leader writes RUNNING or RETRYING from what it
  read before the worker reported.
* `FailedOnlyAfterAttempt`: RUNNING is set by the leader before any worker has a
  node; the crash check takes that for a crash.
* `IntactBackupRestores`: `tar -C <parent> dump` names every member `dump/<file>`,
  the manifest names it `<file>`, and the restore looks for the latter under the
  unpacked directory: every file is missing, and the restore of every backup that
  has file checksums fails.

What does hold in spite of the stale copies is the more useful half: the order of
the DAG, the bound on retries, one execution thread per task and worker (when the scan
can read the records), and that an abandoned task ends, within the limits below.
The bound on retries is `maxRetries` as the DAG states it, which the master does not cap
(`MasterScheduler.java:221`); the README of `src/36` speaks of at most three, which
holds of a worker's attempts only.

**Bounds.** Two tasks are what the order needs: the second depends on the first and
takes its output as a parameter. Two threads are what double
execution needs, two workers what a crash that another worker repairs needs. One
crash and one failing call are each allowed at every step. `maxRetries` is 1 in the
chain, since 2 multiplies its states (2.0 million) beyond the time a run should take; 2
in `orch_doubled`, where the counters race, and in `orch_recovery`, where the crash
check's first retry is RETRYING and its second FAILED; the theorems hold for every value.
`orch_recovery` has 207 thousand states. Its crash may be spent on a worker or on the
leader, and its workers share one execution thread: while one of them executes, the
other polls and acquires but does not start. Three variants were checked as well and
are not kept, since together they exceed the time of a run: two crashes, so that worker
and leader can both be lost (569 thousand states); two threads with one retry, so that
both workers execute at once; and one worker whose commands may fail or time out while
the leader is lost. `RecoveryCompletes` holds in all of them. In
`MasterElection` three masters give a leader, a follower that watches it and one
that joins; nothing else is bounded there but the failing calls. Threads and
masters are interchangeable, and only safety is checked under symmetry.

In `programs`, one backup beside the old one and two commits let a dump differ from
its position; one fault is one failing command, kill or damaged object at any
step, and the cleanup that fails after another failure is covered by the proof. Two
rule ids let a destination get a second rule while a task of the first is queued;
`UpgradeThreshold` is 2, so that one check that asks for an upgrade is not enough. Two files, two changes, two notifier
threads and two outages give a reconnection with a thread of the old session alive
and a crash after it. One worker and the API are two movers over two contents and two
quarantine names. One source with two flood types has the callbacks of one type meet
the flags of the other. Two trainers, three levels and two trainings let one apply what
the other has replaced. The theorems hold without these bounds.

**Deadlock.** The orchestrator's runs check it: the passes never stop. The
election may: every master may be done, closed, or waiting for an event. So may
`programs` and `backup_intact`, whose inputs (commits, changes, trainings, faults)
are bounded: when they are used up the program waits for the next.

**Fairness.** `scheduleAtFixedRate` runs both passes and the poll again and again,
and a pass visits every task, so each pass, and the poll of each task by a worker
that is up, is weakly fair. An attempt ends at its timeout if not before; the command
it gives up need not end, and nothing here relies on it. ZooKeeper ends the session of
a killed worker. In the election the threads of a running process keep running. Nothing
is assumed of failing calls, of sessions that end, of the timeout scan, or of which worker takes a task.

`RecoveryCompletes` starts when the crashes are over and a worker is left, and leaves
out two cases in which the code does not end (`Settled`). An output that does not fit
its record keeps it RUNNING: the task is executed for ever. And two workers whose
commands fail may each go on overwriting the other's retry count; where commands
succeed, two may be left.

Every property of a passing run is accompanied by a mutant of the model (an
operator beside the one it replaces) under which TLC finds it violated.

## 4. Proofs

For every value of the constants (every number of masters, tasks, workers, threads,
backups, rules, files, sources and levels, every bound on crashes and failing calls,
every DAG and every `maxRetries`), from the assumptions stated with them:

| theorem | states |
|---|---|
| `MasterElectionProofs!TypeCorrect` | `TypeOK` |
| `LeaderOwnsSmallest` | `LeaderIsSmallest` |
| `OneLeader` | `AtMostOneLeader` |
| `LeadershipStable` | `LeadershipIsStable` |
| `ElectionImplementsLeadership` | `LeadInTurn`: every step of the election is one of `Leadership`, or a stutter |
| `TaskOrchestratorProofs!TypeCorrect` | `TypeOK` |
| `NothingRunsEarly` | `UpstreamReady` |
| `OrderRefinement` | `InOrder`: every step starts a task in order, finishes one, or stutters |
| `RetriesBounded` | `RetryBound` |
| `OneThreadEach` | `OneThreadPerTask` |
| `SuccessIsStored` | `SuccessHasResult` |
| `MySqlBackupProofs!BackupTypeCorrect` | `BackupTypeOK` |
| `PublishedIsStored` | `ManifestHasArchive` |
| `PositionIsSafe` | `PositionNotBeyondDump` |
| `CleanedUp` | `NothingLeftBehind` |
| `RestoreIsSound` | `RestoredIsBackedUp` |
| `ProgramImplementsCatalogue` | `CatalogueKept`: every step is one of `BackupCatalog`, or a stutter |
| `DiversionRulesProofs!DiversionTypeCorrect` | `DiversionTypeOK` |
| `EntriesStayActive` | `EntriesAreActive` |
| `RoutesAreOwned` | `NoOrphanRoute` |
| `StricterOnly` | `OnlyStricter` |
| `NasAuditProofs!NasMonitorTypeCorrect` | `NasMonitorTypeOK` |
| `StoredReported` | `StoredIsReported` |
| `NasQuarantineTypeCorrect` | `NasQuarantineTypeOK` |
| `NothingLost` | `ContentKept` |
| `P4GatewayProofs!GatewayTypeCorrect` | `GatewayTypeOK` |
| `SwitchFollows` | `SwitchFollowsMonitor` |
| `BlockedListed` | `BlockedHasEntry` |
| `CallbacksInTime` | `OnlyWantedWrites` |
| `AdaptiveThresholdsProofs!AdaptiveTypeCorrect` | `AdaptiveTypeOK` |
| `ApprovedBeforeUse` | `OnlyApprovedInUse` |
| `ThresholdsWithinBounds` | `WithinBounds` |
| `ProgramsProofs!EachProgramIsItself` | each program of `ProgramsSpec` satisfies its own specification |
| `ProgramsTypeCorrect` | `ProgramsTypeOK` |
| `ProgramsAreSafe` | everything else the run `programs` checks |
| `NoBehaviourLost` | a program that moves alone is a behaviour of `ProgramsSpec` |

*Election.* `AtMostOneLeader` is not inductive: the flag is set from a list read
earlier. `ElectionInv` adds that znode numbers grow (`Znodes`), that a master that
knows its path owns a znode until its session ends (`Owns`), that the event thread
is idle until the main thread is past its own check (`Quiet`), and that a list in
which a master with an open session came first is still right about it
(`Snapshots`), since nobody can get in front of the smallest.

*The election as a service.* Most steps leave candidates and leaders alone
(`ServiceStutters`). Those that matter: a registration is a candidate of a new, larger
number (`RegisterImplements`, for which `Owns` says that a master that has not started
has no number yet); a decision to lead is taken while nobody leads and by the smallest
(`DecideImplements`, from `Snapshots`); the end of a session takes candidate and lead
away together (`CloseImplements`).

*Order.* `UpstreamReady` speaks of records; what must be kept is the same of every
copy of one: the map of the scheduler, the copy of the crash check, of the poll and
of each thread. `OrderInv` states it of all of them, and holds because results are
never removed. `OrderRefinement` needs it where a thread runs a command.

*Retries.* Each counter is an increment of a copy; `RetryInv` bounds each copy by
what its next write may add. A copy that is not final stays within the limit, and
only a FAILED record is one over.

*One execution thread.* `ExecInv` says that a key stays in `executingTasks` from the
acquisition until its only thread is past `executingTasks.remove`. Commands that
outlive their timeout are not part of it: they are `overdue`, beside that thread.

*Success.* Only a thread's report writes SUCCESS; the poll, the map and the crash check
write their copies back under another status, so a stale copy can hide a success but
not bring one about. `Stored` therefore speaks of the records and of the threads only:
one that is about to report a success has stored its output, and no step removes a
result. The hypothesis is that commands print something and no call fails:
an empty output stores no node, and a failed write of the node is swallowed.

*Backups.* `BackupInv` has one part per property. The position the job keeps is at
most `writes`, and from the dump to the manifest at most the dump (`PositionPart`).
Snapshots and mounts belong to the running job, at the steps between their creation
and their removal, or to a run in `stray` (`VolumePart`). The file a manifest names is
there from the step that makes it, and in the bucket before the manifest is
(`ArchivePart`). Each step of a restore says what has been made sure of by then, and
a backup that can be restored is not one whose files are still being made, which
is what lets a restore run beside a backup (`RestorePart`). `CleanupPart` says the
same of the volume of a restore. For `CatalogueKept`, `RecordPart` adds that the run whose
archive and manifest are uploaded is in the catalogue by then, and that what it recorded
is within what was committed; that it never changes again is the numbering of runs.
It also follows the cut manifest: between opening and filling it the run's manifest is
cut, whole from there to its upload, and in the bucket before it is opened again. So a
backup leaves the catalogue by that second `OpenManifest` or with the host, and
`RewriteManifest` puts it back.

*Diversion.* A task runs after the trigger that made it. `TaskFits` says what still
holds then of its rule, if that is active: its routes are for the task's
destination, and an upgrade to another strategy is for a rule that follows one. Ids
are not used again, so a rule that is gone is not another's (`TaskPart`). A rule that
is active has routes, from which an upgrade takes its source (`RulePart`).

*NAS.* `StoredIsReported` is inductive with the types: the lemma
`ComparedIsReported` says that comparing a listing reports every change in it, and
changes only grow. For the quarantine, `InUse`, `OwnSlot` and `HasRead` say that the name
a thread fills is its own and still empty and that no other thread reads it,
and `SafeCopy` that every content that counts is at a path no thread is about to
delete.

*Gateway.* `SwitchFollowsMonitor` says nothing of the entries still to be written, so
it is not inductive. `Settled` says exactly which those are, `CallbackKnows` that the
running callback has the type the monitor has, `Expiring` that whoever is to be
unblocked is blocked. `OnlyWantedWrites` follows step by step: a callback writes
what it decided under the lock, and `CallbackKnows` says the monitor still wants it.

*The run of six.* `ProgramsSpec` lets one program move. `EachProgramIsItself` projects
a behaviour of it on each program: a step is one of the program's or leaves its
variables alone, so every theorem of a program is one of the run. `NoBehaviourLost`
is the converse for each of them: the program moves, the others stay where they
start, and the run allows it. Together they say that one run shows what six would.

*Thresholds.* Both trainers and the checker hold thresholds they read before. What
they hold is as good as what is in use: approved (`OnlyApproved`), and, if it is an
adjustment, inside bounds that are still those of its type (`ClampedAdjustments`).

Only model-checked: liveness (`HandoverCompletes`, `RecoveryCompletes`), which is
out of the prover's reach, and the five properties that are violated. Every safety
property and every refinement that a passing run checks is proved.

## 5. Not modelled

**In `src/36`.** Several DAGs at once, and so the ambiguity of the key `dagId_taskId` between DAGs;
resubmission of an id, which overwrites the definition and
leaves the records (`CliMain.java:118`); the exception that ends the iteration over
`executingTasks` (the scan and the hook may stop at any time in the model, which
covers it); the node under `/workers`, which nothing reads; the shell, HTTP and SQL
executors; substitution of placeholders; `DAGParser`, which nothing calls: a cyclic
DAG is accepted and waits for ever. Two starvations follow from the code and are
promised away nowhere: dependents of a FAILED task, and of a task with an empty
output, stay PENDING for ever.

**In the Python programs.** 57: incremental backups (they dump everything all the
same; only the choice of the parent differs), the choice of a backup by time stamp,
the size of snapshots. 71: the matcher, alerts, the event store, the event buffer and
the duplicate window. 68: counters, metrics, the statistics behind a threshold, meters.
109: the classifier. Each is a pure computation, input or output, or never takes
effect.

**Programs that cannot run as committed**, so that there is no behaviour to model:
48 (`services/transcode.py` imports a module that is not there), 110 (relative imports
in `gateway/__init__.py` lead out of the package), 98 (`app.py:36` uses a name not
imported, `magnet_parser.py:171` is a syntax error), 80 (`web_api.py:42` likewise), 73
in its distributed mode (`cli.py:171`), 10 (an exception at its first `clear`).

**The other programs** are grouped by kind, with the reason, in `PROJECT.json`. 16, 17,
18 and 20 are numeric, 96 never advances its frame. The groups were judged from
their structure, not line by line.

**116.** Its API handlers run whole in one event loop. A scan by cron marks feed
entries as seen and examines none, a scan by hand marks all and examines five
(`main.py:846`, `:972`): nothing promises otherwise, and there is little else that
steps of different threads could break.

**Coverage.** The models cover the stateful cores of five programs of 120. They are a
small share of the repository's lines, most of which are request handlers, front
ends and numeric code, of programs that have nothing to do with each other; the
programs in Java, C++ and Rust are the ones with the hardest protocols.

## 6. Plan

The six modules of the Python programs are done. Next:

1. `src/65`: `SlabAllocator` (slabs, free lists; no offset handed out twice,
   proved), `MemoryPool` (blocks, data states, leases, node recovery) and
   `LockManager` (lock table against the lock word in the block, timeouts, the
   deadlock callback), composed under the handlers of the service. Properties: lock
   exclusivity, agreement of table and word, one writer per block, release only by
   the owner. Abstract specification: a lock service.
2. `src/46`: the pool (permits, idle connections, waiters) and the replica manager
   (failover, lag), with a theorem on the pool's bound.
3. `src/36`: two DAGs sharing a key; Kahn's algorithm of `DAGParser` against its
   definition (a permutation that respects the dependencies, or a cycle).
4. `src/116`: feeds, jobs and live streams, with the threads of a stream that
   outlive the five seconds `stop` waits for them.
5. More proofs: an abstract specification of a task's life (which records may follow
   which, given that stale copies are written back) implemented by `TaskOrchestrator`;
   the gateway and the diversion as a set of decisions that the tables and routes
   follow with a delay; that the controller's `tracked` dictionaries agree with the
   switch while no write fails; later the refinement of the lock service.
