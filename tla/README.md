# DataOps Studio: TLA+ models, checks and proofs

TLA+ modules of DataOps Studio, the TLC configurations that check them on small
instances, and TLAPS proofs of what matters most: the job queue, the plan of a
workflow run, the runtime of a console session, the registry above it and the
connections below it, the reading of results, the updater and the bootstrap of an
installation.
Names follow the source (`app/...` is `src/app/...`); `PROJECT.json` maps every
definition to the lines it models.

## 1. The system

A FastAPI process (the *API*) serves the Vue front end, one or more *worker*
processes serve a job queue in PostgreSQL, a *launcher* supervises them, an
*updater* replaces installed versions. Two ways lead SQL to a customer's
database: the interactive consoles (threads inside the API process, the *session
broker*) and queued jobs (the workers).

| Component | State | Operations | Interacts with |
|---|---|---|---|
| Session broker, runtime of a session (`broker/core.py`, `broker/state.py`, `domain/console_session.py`) | `_SessionRuntime` under one lock: session and statement states, mailbox, `pending_count`, cancel fence, close flags; a lane thread; a control-lane thread with its own queue | submit, cancel, close, shutdown, `run_timers_once`, the lane loop, control reports | interactive connections, results, registry |
| Broker registry and rows (`broker/core.py`, `broker/store.py`, `routes/sessions.py`) | dictionaries of the process; `console_sessions`, `console_statements`, epochs, boot ids | attach, reuse, take-over, limits, delete console, startup_sweep | API start-up, runtime |
| Interactive connections (`dbclients/interactive/`) | one data connection, one control connection, a soft-cancel flag | open, execute, stream, cancel, destroy | database servers |
| Statement results, result store (`broker/results.py`, `infrastructure/resultstore/`, `infrastructure/compare_result_inputs.py`) | catalog rows, spool files, snapshots | register, evict, publish, finalize, GC, capture | broker, worker, compare |
| Job queue (`infrastructure/jobbackend/`) | `jobs` rows | enqueue, claim_next, heartbeat, request_cancel, complete / fail / mark_cancelled, requeue, retry, reap | API, workers |
| Worker (`worker.py`) | the claimed job, a heartbeat thread | run_once, one execution per job kind | queue, result store, adapters |
| Paged queries and exports (`routes/core.py`, `worker.py`) | root job, page jobs, manifest, download tokens | execute, page, export, download | queue, result store |
| Workflow planning (`domain/workflow*.py`) | none: a function of the spec and the node jobs | plan_workflow_step | the advancing worker |
| Scheduler (`services/workflow_scheduler.py`) | fire anchors, check anchors, cooldowns | cron tick, sensor tick, sensor check, manual trigger | queue, workflow rows |
| Gate and license (`api/middleware/`, `api/services.py`, `infrastructure/license/`) | license file, row, cached mode, rate windows | admit a request, upload, boot | every request |
| Accounts (`routes/account.py`, `routes/admin.py`) | users, factors, recovery codes, projects, members | login, enrol, verify, disable, logout, administer | secret store |
| Datasources, secrets (`routes/core.py`, `infrastructure/secretstore/`) | rows, secrets, metadata cache | create, change password, delete, connect | jobs, secret store |
| Compare (`domain/compare*.py`, `routes/core.py`, `worker.py`) | tasks, uploads, runs, buckets | draft, probe, patch, run, trace upstream | result store, lineage |
| Lineage (`domain/lineage/`, `routes/core.py`, `worker.py`) | runs, edges, verdicts | analyse, refresh, infer, review, walk | metadata cache, AI |
| AI calls (`services/ai/`), notifications (`services/notify/`) | configuration and key; targets and their secrets | complete; send, announce | providers, workflow runs |
| Adapters (`dbclients/*_adapter.py`) | one connection, a watcher thread | connect, execute, cancel, stream, commit | database servers |
| Launcher (`launcher.py`), updater (`updater/core.py`) | pid files, child processes; version directories, pointers | up, stop; install, complete, roll back | operating system |
| SQL workbench (`routes/core.py`) | consoles as documents, templates; the history is read off jobs and statements | create, save, delete; list the history | job queue, broker |
| Bootstrap (`launcher.py`, `infrastructure/bootstrap/`, `infrastructure/secretstore/`) | secret files, the metadata cluster, the store of secrets, its audit | init, pg-up, pg-stop, alembic-up; open, store, reveal | every process |
| Tools (`tools/`) | tables of a new instance; tasks and workflows through the API | migrate; generate, apply | secret store, API |

What is hard in it:

* **The cancel fence.** A cancel is sent over another connection than the
  statement it is for, by another thread, and there is no statement id on that
  wire: it hits whatever runs. The broker must not start the next statement
  while a cancel is on its way, and must not wait for ever for a server that
  does not answer.
* **Lock, queue, driver.** The lane takes commands from a bounded queue outside
  the lock that protects the counter of that queue, and calls drivers that may
  hang, fail, or return late, after the control lane already ended the statement.
* **Ownership of a job.** A worker that stalls past the heartbeat timeout is
  taken for dead; it may come back while another worker executes the same job,
  or after the outcome was recorded. Everything it still writes must be fenced.
* **Writes to the customer's database** are committed before the outcome is
  recorded in another database; a crash, a stall or a cancel falls in between.
* **Runs that come back to the queue.** A workflow run is a job that advances
  one step and requeues itself, in the same queue its nodes wait in; only its
  last write is guarded by the ownership of the run.
* **Two stores, no common transaction.** Secrets, spools and files are changed
  outside the transaction that changes the row which names them.
* **Read, then write.** Most endpoints read a row without a lock and write it
  later in the same request; two requests overlap freely.
* **Several schedulers, two commands, a power failure.** Ticks, `up` against
  `stop`, and a sequence of file operations have to be right at every cut.

The hazards are listed with their lines in `PROJECT.json`.

## 2. Modules

| Module | Models | Checked in run |
|---|---|---|
| `SessionLane` | one console session: lane, control lane, timer, API threads, server | `session` |
| `SessionLaneProofs` | theorems about `SessionLane` | |
| `InteractiveSeam` | one connection and its cancel channel, below the broker, for MySQL and DM | `console`, `seam_unlimited` |
| `ConsoleRegistry` | who owns which console: attach, epochs, limits, crash and sweep | `console` |
| `ConsoleRegistryProofs` | theorem about it | |
| `ResultSets` | result sets of a console, spools, eviction, GC, snapshots | `console` |
| `ResultReads` | a client that polls, pages and exports a result while it is produced | `console` |
| `StatementProofs` | theorems about `InteractiveSeam`, `ResultSets`, `ResultReads` | |
| `JobLifecycle` | the contract of the queue: leases and outcomes | `server` (as the refined specification) |
| `JobQueue` | jobs table, workers, reaper, crashes | `server`, `processes`, `queue_write_once` |
| `JobQueueProofs` | theorems about `JobQueue`, `AdapterCall` | |
| `WorkflowRun` | one run: planner, advancing workers, cancel request, node jobs, reaper | `workflow_plan`, `workflow_finish` |
| `WorkflowRunProofs` | theorems about it | |
| `ApiGate` | authentication, license, rate limit in front of every handler | `server` |
| `Launcher` | `up` and `stop` over pid files and signals, POSIX and Windows | `processes` |
| `AdapterCall` | one call into a business database, by dialect | `processes` |
| `PayloadUpdater` | install, activate, complete, roll back, prune, with power failures | `processes` |
| `Bootstrap` | secrets, metadata cluster and secret store of an installation | `processes` |
| `InstallationProofs` | theorems about `PayloadUpdater`, `Bootstrap`, `Launcher` | |
| `CompareDraft` | column mapping, keys, suggestions, probes | `data` |
| `CompareRun` | the comparison itself, all rows or by hashed ranges, and its diff profile | `data` |
| `UpstreamTrace` | from differing rows up the column lineage | `data` |
| `LineageWalk` | the read side of lineage: one recursive walk, five endpoints | `data` |
| `LineageBatch` | a batch analysis of an uploaded archive, with restarts of its job | `data` |
| `MigrateV1` | migration from 1.x | `data` |
| `DidaImport` | import of compare tasks through the API | `data` |
| `CompareTasks` | compare tasks, uploads, temporary files | `studio` |
| `NotifyTargets` | notification targets and their secrets against frozen runs | `studio` |
| `Accounts` | users, second factors, tokens, projects | `studio` |
| `AiCalls` | calls to the AI provider, egress, configuration | `studio` |
| `StudioProofs` | theorems about `AiCalls`, `CompareTasks`, `MigrateV1`, `DidaImport` | |
| `SqlWorkbench` | consoles and templates as documents, the execution history | `studio` |
| `PagedQuery` | query pages, totals, exports, download tokens | `services` |
| `Datasources` | datasources, passwords, metadata cache, connecting jobs | `services` |
| `ServicesProofs` | theorems about `PagedQuery`, `Datasources`, `WorkflowTriggers`, `LineageStore`, `ApiGate` | |
| `LineageStore` | lineage runs, cache, refresh, inferred edges, review | `services`, `lineage_lookup` |
| `WorkflowTriggers` | cron, sensor and manual triggers, two schedulers | `services` |

`SessionLane` and `InteractiveSeam` are checked as they are; `MCJobQueue` and
`MCWorkflowRun` instantiate one module.
`MCServer`, `MCProcesses`, `MCConsole`, `MCData`, `MCStudio` and `MCServices` put
several modules side by side that share no state in the code: a variable `part`
says which of them a behaviour is about, the others rest in one initial state.
This is a way to check them in one run, not a claim that they never run at once;
where parts do interact, the interaction is inside a module (the worker and the
reaper in `PagedQuery`, the GC and the compares in `ResultSets`, the runs in
`NotifyTargets`, the jobs in `Datasources`, and so on).

Each module states its safety properties as named parts, with what they mean in
front of them, and conjoins them with its type invariant to one invariant
(`RegistryInv`, `PagedInv`, ...). Parts that hold only as long as two requests
do not overlap say so in their statement, with a history variable that records
the overlap: such a clause is a statement about the code, not about the model,
and what happens beyond it is told in section 5.

A definition marked "Mutant of X" is X with a plausible bug in it. It is used by
no specification: it documents, for a property, a change of the code the
property would catch.

### SessionLane

`rt` is the `_SessionRuntime`, everything the broker lock protects. A `_locked`
method of the source is an operator from runtime to runtime (`BeginCancel`,
`Settle`, `Lose`, `QueueClose`, ...), so a critical section is one action that
composes them in the order of the code. `lane` and `ctl` are the program
counters and locals of the two threads, `srv` is what the database server does
for the session's connection, `stray` is a history of control commands that hit
another statement than the one they were sent for.

The lane is split exactly where the code leaves the lock: the `get` of the
mailbox and the decrement of `pending_count` are two steps, so are the start of
a statement, the soft-cancel check inside `execute`, the driver call and the
critical section that records its outcome. The driver call ends in any way the
classification in `dbclients/interactive` tells apart (success, statement error,
server-side time limit, interruption confirmed by the server, soft cancel,
connection lost) or never.

Abstractions. A statement is its `client_request_id` (a repeated id returns the
first receipt and changes nothing). Deadlines are not clocks: a timer round finds
any set of them passed, except that the grace of a cancel begun in that round
cannot be over. `OUTCOME_UNKNOWN` and `SKIPPED` are for write statements, which
`submit` never creates (`is_write` stays False). A destroy that reached the
server, like a dropped connection, ends what runs there. Epochs, limits and the
reuse of a session by attach belong to `ConsoleRegistry`; stored rows
follow `rt` at once, because the code writes them in the same critical section.

### JobQueue

`job` is the jobs table, `rs` the state of the job's result set, `wk` each
worker's program counter and locals, `applied` counts the commits of a write in
the customer's database. Every SQL statement the backend sends is one
transaction, so one action; a worker's transactions interleave with everybody
else's. `wk[w].stands` is a history bit: the reaper has not taken the claim `w`
is executing. `stale` says that the heartbeat is older than the timeout; it may
become true of any running row at any time (the worker is gone, stalled or cut
off), and a late heartbeat of the owner takes it back.

Abstractions. A worker process is its `worker_id`, distinct for live processes;
a restarted process has the id of the one that died. The three statements of
the reaper are one step (each stale row is treated by exactly one of them, and
the LIMIT only delays the others). Of the order of `claim_next`, the priority is
kept (runs -1, everything else 0) and the times are not: any pending job of the
highest priority may be claimed. `update_result_ref` is left out: it writes a
progress reference under the same guard. `JobStatus.TIMEOUT` is never written.
The job kinds other than SQL queries, SQL writes and workflow runs are executions
with any outcome. What a run does to its nodes (enqueue, retry, cancel) may
happen at any time its transaction allows: more behaviours than the plan has. The
notification of a finished run changes no state of the queue and is left out.

`JobLifecycle` is what the queue promises: phases of a job, and leases that are
stored nowhere. `Lifecycle` in `JobQueue` instantiates it with the row's status as
the phase and `Leases` (a worker that executes a job with a standing claim) as
the leases; `ImplementsLifecycle` says that every step of the queue is a step of
the contract or changes neither: only a lease holder records an outcome, and a job
is leased to one worker at a time.

### WorkflowRun

`run` is the row of the run and `node` the rows of its node jobs (`absent` until
enqueued); `adv` is each worker as an advancer: its program counter and what is
left of its plan; `api` is the request `cancel_workflow_run`, which reads once and
then writes row by row. `PlanWorkflowStep` is `plan_workflow_step`: a node's state
comes from its row or, if it has none, from the decisions of its incoming edges
(`StateOf`); `NodeStates` is the recursive function along the edges, which is what
the topological order of the code computes. The early returns of the planner are
nested `IF`s: their conditions overlap, and a `CASE` would not say which comes
first. What is shown of a run is more than the planner's reading of the rows: a
plan that aborts rewrites every unfinished node to `cancelled` in the node states it
stores (`PlannedStates`), and the API relabels what a run that is over left
unfinished (`Relabelled`, `NodeItems`); `DecisionsStand` is about these. `_execute_workflow_run` is cut at each of its transactions:
claim, list, cancel check, one write per node, then the requeue or the outcome.
`adv[w].stands` is a history bit as in `JobQueue`, `late` another: an advancer
without a standing claim changed a row. The safety properties are stated up to
such a write, because only the last write of an advance is fenced; what a late
write can do is told in section 5.

Abstractions. A spec's conditions are replaced by what they evaluate to (true,
false, error) and a node's `when` and payload by whether it runs, is skipped or
cannot be evaluated; `ValidSpec` is the validation of the DAG and of the routes.
`request_cancel` and `cancel_pending_job` on one row are one step: a claim in
between leaves the same row as a claim before. A stored output is always one the
planner accepts, since the worker copies only scalars. The `run_index` row of a
compare node (`_register_compare_run_child`) is left out: the planner does not
read it. A node job starts, ends in any way, or loses its worker; its execution
and its fencing are `JobQueue`'s. The delay of a requeued run is not kept: it may
be claimed at any time. A stall that costs an advancer its claim and a crash count
against `MaxFaults`.

### The other modules

`ConsoleRegistry` keeps two copies of the truth, the rows and the process's
dictionaries, and loses the second in a crash. A session's lane is a few coarse
steps here. `ResultSets` has four actors without a common lock: the submitting
request (which inserts the row of its result set in one transaction, evicts older
ones in a second, and may fail in either), the lane, which publishes between the
two, the worker's GC (which computes what it protects, then deletes) and the compare
requests. A statement cancelled while it waits in the mailbox, or whose registration
failed, is over with a row that says `streaming` (`unrun`). `InteractiveSeam` goes below `SessionLane`: the
server's sessions are numbered, and the lane's connection, the control connection
and the server each have their own idea of which one is meant and which time limit
is in force. `ResultReads` reads manifest, catalog row and job state in the order
of the routes, while the producer writes them in its own, and may find its statement
or job cancelled before it began. For the results it is about, a query that is read
to its end or to its cap, the manifest's `has_more` equals its `truncated` and is no
field of its own; results that grow page by page are `PagedQuery`'s.

`ApiGate`: one reader of the cached license mode at a time holds the lock from
before its read; upload and boot write the row. `Launcher`: a process is named by
the `up` that started it; `up` and `stop` take a step per file, signal or wait.
`AdapterCall`: connect, arm the timeout, execute, stream or commit, clean up, by
dialect, against the database, the user and PostgreSQL's watcher thread, which ends
in silence when its look at the job's cancel flag fails (`WatcherGivesUp`).
`PayloadUpdater`: a step per pointer replaced or directory removed. `Bootstrap`: a
command takes a step per file or server call and may be killed between two; the
content of a secret file is the number of times it was generated.

`CompareRun` starts from every pair of small tables: a table maps a key to the
values of the rows with that key, `NullKey` stands for rows without one; row
hashes are free of collisions. Its profile (ranges of missing keys, counts per
column) is folded over the rows as they are found and compared with the tables.
`LineageBatch` goes through an archive member by member, may die and be requeued. `UpstreamTrace` and `LineageWalk` start from every
small graph. `CompareDraft` starts from every pair of small column lists and
indexes. `MigrateV1` goes table by table, secrets outside the transaction, and
may be killed, aborted (in its global precondition too) and run again; a job that
was pending in 1.x stays pending and the new instance's workers will claim it, one
that was running or being cancelled arrives as failed. `DidaImport` sends request after request,
each of which may fail before or after it was carried out.

`CompareTasks`, `NotifyTargets`, `Accounts`, `AiCalls`, `Datasources`: a request
reads in one step and writes in another, as the endpoints do; the secret or the
file it replaces is deleted in a third, and an update may be refused after it stored
its secret (`Datasources.UpdateRefused`, the `valid` of
`NotifyTargets.UpdateNotification`). In `NotifyTargets` a run's notify node may be
skipped (a false `when`, a branch not taken), and a sensor check freezes the
definition for the run it may fire. `LineageStore`: analyses by API and
worker, whose lookups differ, and a synchronisation of any of the schemas. `WorkflowTriggers`: a scheduler reads its candidates
in one statement and claims a row in a later, guarded update. `PagedQuery`: every
page is a job whose id follows from root and offset and which appends to the
root's spool; the reaper requeues what a dead worker left. A newer query of the
console closes the older result and deletes its spool, the worker's GC deletes a
spool by age, both whoever waits for it. `SqlWorkbench`: the
limit of consoles is counted and the console inserted in one transaction that
locks nothing; the history is merged from two queries with a window each.

## 3. Runs

| Run | Bounds | Shows |
|---|---|---|
| `session` | 2 statements, one of them without time limit, mailbox 2 | `LaneInv`, `LegalTransitions` over every interleaving; `CancelSettles`, `CloseCompletes` |
| `workflow_plan` | 7 specs of 3 nodes, 2 workers, 1 fault | `PlanInv`, `DecisionsStand` |
| `workflow_finish` | the same specs, 1 worker, 1 fault | `RunFinishes` |
| `server` | a direct write and a node, 2 workers, reaper budget 1, 1 node retry; gate: 2 callers, 2 uploads, clock 0..2 | `QueueInv`, `OutcomesStand`, `ImplementsLifecycle`; `GateInv` |
| `processes` | queue: a run and a node, 2 workers; launcher: 2 `up`, 2 `stop`, 1 kill; adapter: 6 dialects, 3 calls; updater: 2 releases, 2 builds, 2 crashes; bootstrap: 4 commands, 2 processes | `JobsFinish`; `LauncherInv`, `PgOutlivesChildren`, `StopReturns`; `AdapterInv`, `CancelEndsStatement`; `UpdaterInv`; `BootstrapInv` |
| `console` | 2 consoles, 2 windows, 2 datasources, epochs to 2, 2 boots, limits 2 and 1; 2 result sets, 1 kept, spools of 2 rows; MySQL and DM, 2 statements, 3 logins; results of 0, 2 and 4 rows, caps 3, pages of 1 | `RegistryInv`; `ResultsInv`, `RightOnesGo`; `SeamInv`; `ReadsInv` |
| `data` | columns of 4 names, 2 per table; keys 0..3 with 2 values; graphs of 3 tables, 2 edges with columns; depths 1, 2; migration of 2 users, 1 project, 1 datasource, 1 flow, a job that was pending, running or cancelled, 2 runs; import of 2 tables by 2 operators; archives of up to 2 files | `DraftInv`, `CompareInv`, `TraceInv`, `WalkInv`, `MigrateInv`, `ImportInv`, `BatchInv` |
| `studio` | 3 requests at once on 2 tasks / 2 targets / 2 users; 2 administrators; 3 documents of 2 owners, 2 executions, windows of 1 | `TasksInv`, `AdministrationInv`, `AiInv`, `WorkbenchInv` |
| `services` | 2 requests at once; tables of 2, 4 and 6 rows, LIMIT absent, 0, 3 or 4, pages of 3, 1 export; 2 schedulers, clock 0..3; 1 script, 2 relations in 2 schemas | `PagedInv`, `DatasourcesInv`, `LineageInv`, `VerdictIsFinal`, `TriggersInv` |
| `queue_write_once` | one job, 2 workers | a violation, see section 5 |
| `lineage_lookup` | as `services` | a violation, see section 5 |
| `seam_unlimited` | MySQL, 1 statement, 2 logins | a violation, see section 5 |

What the invariants say, part by part:

* `LaneInv`: `MailboxNeverDiverges` (submit's "broker mailbox accounting
  diverged" is unreachable although counter and queue change at different
  moments), `FenceBlocksNext`, `CancelWasRequested`, `ClosedMeansSettled` (a
  close, even one that found the mailbox full, leaves no statement behind),
  `HonestCancel` (what is reported cancelled or timed out no longer runs on the
  server). `LegalTransitions`: the two `transition_*` functions never raise.
* `RegistryInv`: one window's epoch is accepted per console, epochs grow across
  restarts, one live session per console, rows say what runtimes say, no
  statement row is left executing by a crash or a loss, a repeated request starts
  a statement once, the limits bound the open connections.
* `ResultsInv`: a result is sealed before its statement ends (a destroyed session, a
  failed sealing and a statement the lane never took excepted; the last has no
  spool), a compare job finds its snapshot, a snapshot of a partial result needed
  consent. `RightOnesGo`: a submit leaves at most the limit open and spares its own
  result, unless the limit is 1 and the lane published between its two
  transactions; nothing protected is collected.
* `SeamInv`: the statement that runs has its own time limit in force, a connection
  taken for idle is usable, an interruption is reported only if the server
  confirmed one, the channel never reports a cancel it did not send.
* `ReadsInv`: the end a client sees is the end, no row is invented, a new version
  is told, a total is exact, an export is whole.
* `QueueInv`: the owner holds the claim, at most one commit of a direct write.
  `OutcomesStand`: an outcome is final and only its lease holder records one
  (ADR-0018's ownership rule). `ImplementsLifecycle`. `JobsFinish`.
* `PlanInv`: `SuccessMeansDone` (a run that succeeded has no node left to run),
  `UpstreamFirst`, `RoutesExclusive` (success route
  and compensation, or two targets of a branch, never both run), `NoOrphans` (no
  node goes on unasked when its run was ended by its plan or by a cancel).
  `DecisionsStand`: what is shown of a node as final is never taken back. The
  exception is a node shown as cancelled because its run was over before it: a node
  that was running when another one aborted the run may still show its success, and
  what waited for it `skipped`.
* `GateInv`: the cached mode is the row's except between commit and
  invalidation, the row is computed from the file on disk, no window admits more
  than the limit.
* `LauncherInv`: a live child is named by its pid file, with its supervisor alive or not.
  `PgOutlivesChildren`: PostgreSQL is stopped last. `StopReturns`.
* `AdapterInv`: connections come back, a write did what is reported, only what
  was asked for is reported cancelled. `CancelEndsStatement`.
* `UpdaterInv`: the active pointer leads to a whole payload at every cut, a
  pending update can be decided either way, a rollback can be used, an unverified
  payload is still pending.
* `BootstrapInv`: a secret is generated once unless forced, what was set up with
  it stays reachable, a secret is handed out only on the record.
* `DraftInv`, `CompareInv`: mappings are one to one, keys exist on both sides,
  probes are exact; a run names exactly the keys that differ, refuses ambiguous
  keys, announces what can be paged through, and its profile is exact. `TraceInv`, `WalkInv`: what is
  collected suffices for the walk, only invertible edges lie on the way, the
  subgraph is the ball of the asked radius, depths are distances, the impact list
  is complete, a trace-compare chain follows the data.
* `MigrateInv`, `ImportInv`: no dangling reference after any abort, success is
  whole, flows come together, no job begins a second time; the import converges, covers its tables, keeps a
  changed schedule. `BatchInv`: every member of an archive is accounted for, the
  limits hold, what is reported is stored.
* `WorkbenchInv`: a user has no more consoles than the limit unless requests
  overlapped, edits only their own, and sees a history that is ordered, recent and
  says of an execution how it ended.
* `TasksInv`, `AdministrationInv` (accounts and notification targets), `AiInv`,
  `DatasourcesInv`: a row's
  secret or file exists and is reclaimed, runs name stored tasks, a frozen target
  stays usable, a run whose notify node was not skipped succeeds only when every
  enabled target was reached, a code serves once, a logout holds, an owner is a member, what is
  sent to a provider is allowed and audited.
* `PagedInv`: pages laid end to end are a prefix of the answer, a total is exact,
  nothing is missing in silence, a token serves once. The first three hold until a
  page job is executed twice or the spool goes from under a page that is asked for,
  pending or running (`Undisturbed`); the code guards against neither (section 5).
* `LineageInv`: one active run per key, a history that is a chain, no proposal
  beside a parsed edge, honest reports of a synchronisation about the schemas it
  went through. `VerdictIsFinal`.
* `TriggersInv`: fire points grow, cooldowns hold, a switch that is off starts
  nothing, one reading dispatches one check.

Why the bounds are enough. Where a theorem covers an invariant (section 6) the run
only has to show that the interesting cases occur, so its bounds are small.
Session: two statements fill a mailbox of two with a close to be put and a
statement being taken out, and make the one that is cancelled and the one that
waits at the fence. Queue: two workers are a stale one and its successor; a reap
and a retry let a worker be overtaken. Workflow:
the specs are a compensation with a retry, a fan-in under `abort`, a compensation
that rejoins the main route, a branch whose condition is true or raises, a chain
whose middle node is skipped or cannot be evaluated; one fault makes one stale
advancer beside its successor. Overlaps: what two requests do to each other needs
two, and a third to see it. Compare: four keys split by two give ranges of odd
and even width at two levels. Graphs: three tables give chains, diamonds' halves,
cycles and self-loops at depths below and at the cap. Pages: four and six rows with
pages of three end in the middle and at the edge of a page, below and above the
LIMIT and the cap; the state constraint of `services` (`Explored`) stops a query
once it is disturbed, where its invariant no longer promises anything. Updater: two crashes cut a
recovery as well. The theorems remove the bounds where they apply.

Deadlock. A session, a run, a request or a tool may end, and the counters that
bound time, retries and ids run out, so the configurations say
`CHECK_DEADLOCK FALSE`; that something must go on is stated by the liveness
properties.

## 4. Fairness

`SessionLane`: the broker's threads run (weak fairness of the lane's steps inside
the broker, of the control lane, of attach), control commands return (the cancel
channel has its own short timeouts), and a deadline that stays armed is found
passed by some round of the timer, which polls until shutdown. Nothing is assumed
of driver calls, API calls or the server. `CancelSettles` and `CloseCompletes`
stop at shutdown, which stops the timer. `CloseCompletes` excludes a session that
keeps executing statements submitted with timeout 0: the code waits for them by
design.

`JobQueue`: a worker that is up goes on (weak fairness of its steps; a crash may
always come in between), and the heartbeat of a row nobody executes ages.
`WorkflowRun`: a worker that is up polls and goes on, a run nobody executes is
reaped, a queued node is started and ends (`JobsFinish`), a backoff passes;
`RunFinishes` is checked with one worker, the default deployment. `Launcher`: the
supervisor and the stop command go on, every wait of theirs has a deadline; a
child need not drain, a user need not act. `AdapterCall`: the adapter's thread and
the watcher go on and a timeout that was set fires; nothing says that a database
ever finishes a statement. In `MCProcesses` each part has its own fairness while
it is the one that runs.

## 5. Findings and divergences

Three runs violate what a document or comment of the repository says:

* `queue_write_once` — a write in a workflow node carries no `sql_write` flag, so a
  lost heartbeat and a retry commit it twice.
* `lineage_lookup` — the worker's lookup of a cached lineage run lacks the
  condition `superseded_at IS NULL` of the API's. A refresh supersedes the old run in
  the transaction that inserts its replacement, so two rows have the key from then
  on: the lookup, which asks for one row or none, raises, and every later lineage job
  of that statement fails.
* `seam_unlimited` — any exception while MySQL's time limit is set, a `KILL QUERY`
  that arrives during it included, is taken for a server without that variable:
  the limit is never set again, the last one stays in force, and a statement
  submitted without a limit is ended by it.

Others that the models reach, which are behind clauses of the properties or
described here only:

* the report of a console cancel is attributed to whatever fence is up when it
  arrives: A's late report marks B's fence as reported while B's own cancel is
  still queued, B ends by itself, C starts, B's cancel interrupts C (ADR-0023 says
  the lane must not start before the report);
* statements queued on a session that is lost, or never connects, stay `accepted`
  (`broker/state.py:42` names it as what should not happen);
* a cancel between the commit of a write and the flush of its one-row result
  (`worker.py:1006`) makes a `cancelled` job whose write stands
  (`dbclients/sql_write.py:1` says the write is rolled back);
* the limit of consoles is counted and then inserted without a lock: concurrent
  requests overrun it;
* a statement cancelled while it waits in the mailbox, and one whose registration
  failed after its row was inserted, is over while its result set says `streaming`
  for good;
* with one result kept per console, a batch that the running statement publishes
  between the insert and the eviction of a submit makes the submit evict its own
  result;
* a newer query of the console, or the worker's GC, deletes the spool of a query
  whose next page is pending or running: the page is appended to a spool that begins
  anew, and what is read as the first rows are later ones;
* a PUT of a datasource refused by the unique name, or of a notification target
  refused by its check, leaves the secret it has stored behind;
* the history is merged from the latest jobs and the latest statements within a
  window of 500 each, so "only the latest execution" of a text holds as long as
  the windows suffice;
* the catalog state of a job's result set is written without an ownership check:
  a stale worker overwrites that of the successful execution;
* `retry_workflow_node` looks at the status of the node only: an advancer that
  planned a retry, stalled and lost the run executes the node once more than its
  policy allows. With two stalls more follows: a second advancer that planned while
  that late execution was over and failed enqueues the compensation of the node
  behind a run that has succeeded meanwhile (TLC shows it with `MaxFaults = 2`;
  `SuccessMeansDone`, like the other parts of `PlanInv`, is stated up to the first
  late write);
* two overlapping requests of one user can spend a recovery code twice or lose
  the seed of a second factor; two saves of the AI configuration can lose the key;
  two PATCHes of a compare task can store sides that do not fit; two reviewers
  can overwrite each other's verdict; a change of a project's name can take back
  a change of its owner;
* `stop` issued while `up` has not written `launcher.pid` on POSIX finds no
  supervisor.

## 6. Proofs

Every theorem is proved for all values of the constants that satisfy the named
assumption of the module (types of the bounds, finiteness of a set where it is
counted, distinctness of the model values); nothing else is assumed.

| Theorem | States | Proof |
|---|---|---|
| `QueueIsSafe` | `Spec => []QueueInv` | `JobQueueProofs` |
| `QueueOutcomesStand` | `Spec => OutcomesStand` | `JobQueueProofs` |
| `QueueImplementsLifecycle` | `Spec => ImplementsLifecycle`: the queue refines `JobLifecycle` | `JobQueueProofs` |
| `AdapterIsSafe` | `AdapterSpec => []AdapterInv` | `JobQueueProofs` |
| `PlanIsSafe` | `Spec => []PlanInv` | `WorkflowRunProofs` |
| `FinalIsFinal` | `Spec => DecisionsStand` | `WorkflowRunProofs` |
| `RegistryIsSafe` | `RegistrySpec => []RegistryInv` | `ConsoleRegistryProofs` |
| `LaneIsSafe` | `Spec => []LaneInv` | `SessionLaneProofs` |
| `TransitionsAreLegal` | `Spec => LegalTransitions` | `SessionLaneProofs` |
| `SeamIsSafe` | `SeamSpec => []SeamInv` | `StatementProofs` |
| `ResultsAreSafe` | `ResultsSpec => []ResultsInv` | `StatementProofs` |
| `RightResultsGo` | `ResultsSpec => RightOnesGo` | `StatementProofs` |
| `ReadsAreSafe` | `ReadsSpec => []ReadsInv` | `StatementProofs` |
| `UpdaterCorrect` | `UpdaterSpec => []UpdaterInv` | `InstallationProofs` |
| `BootstrapIsSafe` | `BootstrapSpec => []BootstrapInv` | `InstallationProofs` |
| `LauncherIsSafe` | `LauncherSpec => []LauncherInv` | `InstallationProofs` |
| `PostgresGoesLast` | `LauncherSpec => PgOutlivesChildren` | `InstallationProofs` |
| `PagedIsSafe` | `PagedSpec => []PagedInv` | `ServicesProofs` |
| `DatasourcesAreSafe` | `DatasourcesSpec => []DatasourcesInv` | `ServicesProofs` |
| `TriggersAreSafe` | `TriggersSpec => []TriggersInv` | `ServicesProofs` |
| `LineageIsSafe` | `LineageSpec => []LineageInv` | `ServicesProofs` |
| `VerdictsAreFinal` | `LineageSpec => VerdictIsFinal` | `ServicesProofs` |
| `GateIsSafe` | `GateSpec => []GateInv` | `ServicesProofs` |
| `AiIsSafe` | `AiSpec => []AiInv` | `StudioProofs` |
| `TasksAreSafe` | `TasksSpec => []TasksInv` | `StudioProofs` |
| `MigrationIsSafe` | `MigrateSpec => []MigrateInv` | `StudioProofs` |
| `ImportIsSafe` | `ImportSpec => []ImportInv` | `StudioProofs` |

All have the same form: an inductive invariant, one lemma per action that it is
kept, and under each lemma one step per conjunct the action can disturb. Each
inductive invariant was checked by TLC before it was proved.

**Job queue.** `OwnerHoldsTheClaim` is inductive together with the types: only
`claim_next` makes an owner, and the reaper, which takes claims away, takes the
rows away in the same step. A failed row keeps its `worker_id`, which is why the
status is part of the guard. Fencing and finality of outcomes follow from it as
action properties. That a direct write is committed once is not inductive;
`WriteInv` adds that before the first claim nobody executes the job and nothing is
committed, that at most one worker ever executes it, because a row that left
`pending` never returns to it (no budget, no retry), and that nothing is committed
before that worker's commit. `StepKinds` classifies every step (a row changed by
the API, a reap, a claim, an idle move, a step of a busy worker) by what it may do
to status, owner, claim and counter, so that invariants are proved over five kinds
of step instead of eighteen actions. The refinement needs `LeaseHolds` (a worker
with a standing claim owns the row): with it every step maps to `Enqueue`, `Claim`,
an outcome of the lease holder, `Revoke` and so on, or leaves phases and leases
alone.

**Database calls.** `StatementIs` says what the database can have done at each place
of a call: while the call runs nothing is applied, except by a DDL statement on a
server that commits it by itself. So an end that rolls back leaves nothing, and
`ReportIs` follows. `WatcherIs` (the watcher only cancels what was asked to be) gives
that nobody else is called cancelled, `OpenIs` that the connection is closed.

**Workflow plan.** The states of the nodes are a recursive function along the edges
of the spec. `StatesExist` shows that it has a value, and `FinalStands` that final
states stand when rows change that do not decide one: both look at a node of least
rank, where `ValidSpec` (the code's check for cycles) gives the rank and `LeastNat`
the least one. `PlanIInv` then says that a claim stands exactly while the run's row
names the advancer (`Claims`), that a node with a row was let start by decisions
that are still the same (`Started`), that the plan of a standing advancer is still
current (`Current`: what it will enqueue is ready, what it will retry has failed
with retries left) and, if it ends the run, starts nothing and cancels all that is
live (`Concludes`), and that after a success every node is over (`Succeeded`). Most
steps are `Quiet`: they start no node and lose no cancel flag; `QuietStep` proves
them sound together, `StartStep` the two that start one. `UpstreamFirst` and
`RoutesExclusive` follow from `Started` by cases over the decision of an edge,
`SuccessMeansDone` from `Over`. `FinalIsFinal` adds the relabelling: only an
aborting plan, or a run that failed or was cancelled, calls a node `cancelled` that
has no end of its own, and neither is ever taken back. The theorems hold for any number of stalls, where
TLC's run allows one.

**Console registry.** `RegistryIInv` ties four views of a session together: ids not
given out are unused (`Fresh`), rows and runtimes belong to consoles that exist and
are not ahead of their epoch (`RowsKnown`, `RuntimesKnown`), a row and a runtime of
one session agree (`Linked`), only the newest row of a console is active
(`NewestIsActive`), the dictionary of consoles points to the live runtime
(`CurrentIs`), an attach between its two locks has a runtime without a lane
(`AttachIs`), no two windows hold the same epoch (`ViewsDiffer`), and what is
executing has an active row, of this boot while the broker serves (`Executing`,
`Booted`, `Unstarted`). The limits are counted over finite sets of sessions; the
counting lemmas take the step from "one more is allowed" to "the limit holds".

**Session runtime.** `LaneIInv` is `Shape`, a conjunction over the runtime, the
lane's position, the server and the strays: `MailboxShape` (a close is the last
command), `Accounting` (`pending_count` is the length of the mailbox plus the
statement taken and not yet counted out, less a close: what makes the "accounting
diverged" branch unreachable), `Placed` (an accepted statement is in the mailbox or
in the lane's hand), `LaneShape` (the session's state at each point of the lane),
`FenceShape` (a cancel is in flight from its begin to its settlement),
`StrikeShape` (what interrupts a statement was asked for it or is recorded as a
stray), `ServerShape` (the server runs the lane's statement during the driver call
only), `SettledShape`. The `_locked` helpers of the source have a lemma each, on
what they do to a runtime of that shape; an action's lemma composes them.
`TransitionsAreLegal` follows from the same lemmas.

**Interactive seam.** `Belted` is the heart: the limit a connection remembers is
the limit of its session on the server. It holds because the cached value is
cleared whenever the outcome of setting it is unknown; together with `Opened` and
`Known` (no one has the number of a session that never logged in) it gives
`OwnLimitInForce` for a server that supports the limit. `UnlimitedRunsOn`, which
drops that condition, is the violated run of section 5.

**Result sets.** The rows of the catalog are ordered by the time they were last
written (`Ordered`); that an eviction leaves at most the limit is a counting
argument: the oldest of those kept has all the other ones before it (`KeptAreFew`).
`GcIs` says that what the collection spares, read before it deletes, includes every
spool that was already old by then. `LaneIs` ties the lane's phase to its statement
and the seal to the settling; `CaptureIs` and `InputIs` carry the consent to a partial
result from the statement to the snapshot, and the job's lease over the collection.

**Result reads.** The client's knowledge is compared with the manifest by version:
`Knowing` and `Paging` say that with the current version it has the current
length, and that the rows of a page under way are there; `Making`, `Settling` and
`Sealing` that the producer freezes the manifest before it publishes an end.
`Ending` follows: an end seen with the current version is the end.

**Updater.** `UpdaterIInv` says for each point of an install, a completion and a
rollback what has been written (`InstallSafe`, `Halfway`), that a pending update
leads from the payload it replaces to another (`PendingStep`), and that the payload
one would fall back to is whole and verified (`HomeSafe`), so that a power failure
between any two writes leaves something to boot.

**Bootstrap.** Unless a command was forced, a file's generation count is 1 or it is
missing (`Making`), and what was encrypted or set up uses the value in the files
(`Keyed`); the audit counts the secrets handed out and about to be (`Recorded`).

**Launcher.** `up` and `stop` know of each other by files only. `Staged` says which
children may live at each point of `up`, `Searched` that a `stop` past the supervisor
has found every live one or never saw it, `Swept` that a pid file it has dealt with
is gone or was written by one it never saw. `UpKeeps` proves any step of a supervisor
sound from what it does to its own process, children and files, `EndingKeeps` any
step after which fewer processes live. PostgreSQL is stopped by a supervisor whose
children are gone, or by a `stop` that has swept both files (`PgStops`).

**Paged query.** That the spool is a prefix of the answer is not inductive: a page
job appends what it read for its own offset, whatever the spool has become. As long
as nothing was reaped, `Front` says that every job that may still write, and every
request about to create one, stands at the end of the spool, because the id of a
page job is computed from its offset and can be taken once. `Held` says that the
rows in the worker's hand are the window of that offset, `Laid` that the spool is
the beginning of the answer and a settled page is in it unless it was cut, `Whole`
and `Shown` what "no more" and a total then mean. Underneath are lemmas about rows
as sequences (`WindowIs`: the intersection of a page with the query's own LIMIT and
OFFSET is a portion of the answer; `RowsJoin`: two consecutive portions make one),
without induction, since a run of rows is a function of its first number and its
length. After a reap, and after a spool went from under a page, only the types and
the tokens are promised, as the code does not guard against a page appended twice or
to a spool that begins anew. A token serves once because `Tokens` keeps
it unserved until it is consumed, and at most one request holds the right to make it.

**Datasources.** A password is stored before its row is written and dropped after
it (not at all when the row is refused), so at any moment a secret may be known to a row, to a call that will write it
(`NewRefs`: to nothing else) or to a call that will drop it (`OldRefs`: the row has
gone or has a newer one). From these follows that no row names a secret that is
gone, with any number of overlapping updates and deletes. `Orderly` holds until
calls overlap, fail or die: one writer for a datasource, which finds the row as it
read it, and an owner for every live secret, so that nothing is left behind.
`Queued` says that a job enqueued with no delete under way keeps its datasource.

**Workflow triggers.** Nobody remembers the points that have fired; what keeps one
from firing twice is an anchor in the workflow's row. `Anchored` says that the three
anchors are not ahead of the clock and that nothing was started or dispatched beyond
them, `Ticking` that what a scheduler read before it locks the row (a point, the
anchor of a check) is not ahead of the clock either. A claim that finds the row
re-read under the lock can then only move an anchor forward. The check interval has
to be positive (`MIN_SENSOR_INTERVAL_SECONDS` makes it so): with 0 the same reading
would dispatch two checks. `PUT` may turn the switches or change the cron between
any two steps, and keeps the anchors.

**Stored lineage.** Runs are numbered as they come (`Filed`); a key that has a run
has an active one and no second (`ActiveOnce`), because a refresh supersedes what
was active in the transaction that inserts the new run, and otherwise the partial
unique index refuses a second one. That edges keep their verdict needs to know who works on a
run at the same time: while the model is asked, the run has the parser's edges only
and no review is open on it (`Analysing`), and a review that is alone with its edge
still finds it as it read it (`Reviewing`); two reviews of one edge at once are the
exception the property names. `Syncing` says that a synchronisation without failures
has cached the tables it has passed, of the schemas it goes through, from which the honesty of its report follows.

**API gate.** `LockHeld` says that one request at most is between its read of the
license row and the cache, holds the lock, and has the row's mode in its hand unless
an upload is about to drop the cached one; an upload that drops it has to find the
lock free, so nobody can put the old mode back afterwards. `RowInStep` follows the
single upload in flight, as long as no two overlapped since the last start, from the
file to its verdict and the row. `HitsInStep` says that the limiter's list holds
exactly what was admitted within the window (`HitIsNew`: each request counts as one).

**AI calls.** `CallSound` ties what a request has sent to the configuration it read
when it began, and the number of its sends to the attempt it is at, so that its end
knows which audit entry is due. `KeyHeld` says, as long as no two saves overlapped,
that the key the row names is stored, that at most one administrator is between two
steps of a save, that the row about to be written names a stored key or none, and
that a key is dropped only after the row that forgets it.

**Compare tasks.** What a request has read of a task is the same kind of row as the
stored one: its upload stays registered whatever happens meanwhile (`Forward`: rows
of uploads are never removed, files only collected), and its side can be run unless
two patches overlapped. `UpdatedSound` merges a patch checked against an older row
into the newer one. That a clone finds a free name (`CopyIsFree`) is a pigeonhole
argument: among one more number than there are tasks one is unused, so there is a
least one; that is why the tasks have to be finitely many. `ClonesSound` keeps the
name free, or notes who took it, until the insert.

**Migration.** A run gets past its first table only if it finds no user stored, and
without users nothing is (`UsersFirst`): so everything a run has not come to is empty
(`ToCome`), and what it knows of users and projects is exactly what is stored
(`KnownIsStored`), on which references, the completeness of the report
(`ReportSoFar`) and the workflows' all-or-none rest. That no job begins again is
read off the mapping of the statuses (`JobStatus`), kept with the rows.

**Import.** What an applier has seen, and what it has made or taken up, is there
unless somebody deleted it (`ApplierIs`); what is there and was not seen was made by
the applier itself if it is alone (`AloneIs`). So the only conflicts are those with a
deletion or a second applier. Ids are given out in order (`IdsInOrder`), one per
thing made, so a workflow that names one task for each applied table has as many
references as there are tables (`RefsCover`, a bijection).

Only model-checked: liveness (`CancelSettles`, `CloseCompletes`, `JobsFinish`,
`RunFinishes`, `StopReturns`, `CancelEndsStatement`), because fairness and ENABLED
are outside this prover's reach; what is computed by recursion over graphs, tables
or bags (`CompareRun`, `UpstreamTrace`, `LineageWalk`, `LineageBatch`), because
induction over data is; and the modules no theorem above is about.

## 7. Not modelled, and the plan

Left out for good: the SQL parser of lineage and the SQL guard (walks over syntax
trees of a third-party parser, without state; the models choose their verdict);
prompts, message texts, file formats, type conversion and catalog queries (data,
not control); encryption and signature checks (outcomes); `rotate_master_key`,
which nothing calls; the scripts that migrate the schema; the front end and the
desktop shell (they reach the system only through the API).

Smaller gaps inside the modelled parts: the break-glass reveal without an audit
record (`allow_audit_failure`), which no program of the repository switches on; a
DIDA task with a target table and no SQL file, which `generate` lists as skipped and
which has no say in the rest; a DIDA request that timed out and is carried out only
after the rerun has taken its snapshot; a failed copy that leaves a temporary file; a
failure of `_upsert_license_state` after the license file was written; the AI test
endpoint's answers for a mock or a missing endpoint; a failure to switch autocommit
off, which the adapters swallow.

Next: theorems for `SqlWorkbench`, whose invariant TLC checks.
