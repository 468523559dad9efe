------------------------------ MODULE JobQueue ------------------------------
(***************************************************************************)
(* The PostgreSQL job queue (app/infrastructure/jobbackend/postgres.py)    *)
(* and the loop of the worker processes that serve it (WorkerRunner in     *)
(* app/worker.py): claim, heartbeat, soft cancel, the terminal writes, the *)
(* reaper that takes jobs from workers whose heartbeat stopped, worker     *)
(* crashes and restarts.                                                   *)
(*                                                                         *)
(* Every statement the backend sends is one transaction, so one action;    *)
(* what a worker does between two of them is where actions interleave.  A  *)
(* worker process is identified with its worker_id: each live process has  *)
(* its own, and a restarted process has the id of the one that died.       *)
(*                                                                         *)
(* What a workflow_run does to its nodes (enqueue, retry, cancel) is       *)
(* nondeterministic here: the transactions are modelled, the plan is not.  *)
(***************************************************************************)
EXTENDS Naturals

CONSTANTS
    Jobs,        \* job ids
    Runs,        \* the jobs of kind workflow_run
    Nodes,       \* the jobs that are nodes of a workflow run
    Writes,      \* the jobs whose SQL is a write statement
    Workers,     \* worker ids
    NoWorker,    \* worker_id IS NULL
    MaxRetries,  \* job_default_max_retries, the reaper's budget
    NodeRetries  \* bound: retries of a node, by its run's current advancer or
                 \* by one that lost the run (module WorkflowRun)

ASSUME QueueAssumption ==
    /\ Runs \subseteq Jobs
    /\ Nodes \subseteq Jobs \ Runs
    /\ Writes \subseteq Jobs \ Runs
    /\ NoWorker \notin Workers
    /\ MaxRetries \in Nat
    /\ NodeRetries \in Nat

VARIABLES
    job,      \* the jobs table: one record per row
    rs,       \* result_sets.state of the job's result set
    wk,       \* each worker's program counter and locals
    applied   \* how often the job's write was committed (business database)

vars == <<job, rs, wk, applied>>

Terminal == {"success", "failed", "cancelled"}

Statuses == {"absent", "pending", "running"} \cup Terminal

Pcs == {"reap", "claim", "check", "work", "publish", "settle", "code", "after"}

Idle == {"reap", "claim"}

Rows == [status : Statuses, owner : Workers \cup {NoWorker},
         cancel : BOOLEAN, retries : Nat, stale : BOOLEAN, code : BOOLEAN]

Locals == [pc : Pcs, job : Jobs \cup {"none"}, out : Terminal \cup {"none"},
           stands : BOOLEAN]  \* stands: the reaper has not taken the claim

NoJob == [pc |-> "reap", job |-> "none", out |-> "none", stands |-> FALSE]

Init ==
    /\ job = [j \in Jobs |-> [status |-> "absent", owner |-> NoWorker,
                              cancel |-> FALSE, retries |-> 0,
                              stale |-> FALSE, code |-> FALSE]]
    /\ rs = [j \in Jobs |-> "none"]
    /\ wk = [w \in Workers |-> NoJob]
    /\ applied = [j \in Jobs |-> 0]

\* UPDATE jobs ... WHERE id = j, and a step of worker w.
Update(j, row) == job' = [job EXCEPT ![j] = row]

Step(w, local) == wk' = [wk EXCEPT ![w] = local]

Goto(w, pc) == Step(w, [wk[w] EXCEPT !.pc = pc])

----------------------------------------------------------------------------
(* The API and the workflow advancer.                                       *)

\* Back in the queue, with no owner and no heartbeat.
Freed(row) == [row EXCEPT !.status = "pending", !.owner = NoWorker,
                          !.stale = FALSE]

\* payload sql_write: _enqueue_sql_write sets it, a workflow node has none.
SqlWriteFlag(j) == j \in Writes \ Nodes

Enqueue(j) ==
    /\ job[j].status = "absent"
    /\ Update(j, [job[j] EXCEPT !.status = "pending"])
    /\ UNCHANGED <<rs, wk, applied>>

RequestCancel(j) ==
    /\ job[j].status # "absent"
    /\ Update(j, [job[j] EXCEPT !.cancel = TRUE])
    /\ UNCHANGED <<rs, wk, applied>>

\* Mutant of CancelPendingJob: a node that runs is cancelled as well.
CancelActiveJob(j) ==
    /\ j \in Nodes
    /\ job[j].status \in {"pending", "running"}
    /\ Update(j, [job[j] EXCEPT !.status = "cancelled", !.cancel = TRUE])
    /\ UNCHANGED <<rs, wk, applied>>

CancelPendingJob(j) ==
    /\ j \in Nodes
    /\ job[j].status = "pending"
    /\ Update(j, [job[j] EXCEPT !.status = "cancelled", !.cancel = TRUE])
    /\ UNCHANGED <<rs, wk, applied>>

\* retry_workflow_node: the statement itself looks at the status only.
RetryWorkflowNode(j) ==
    /\ j \in Nodes
    /\ job[j].status = "failed"
    /\ job[j].retries < NodeRetries
    /\ Update(j, [Freed(job[j]) EXCEPT !.code = FALSE, !.retries = @ + 1])
    /\ UNCHANGED <<rs, wk, applied>>

----------------------------------------------------------------------------
(* The reaper.                                                              *)

Stale(j) == job[j].status = "running" /\ job[j].stale

\* Mutant of MayRequeue: a write is requeued like any other job.
MayRequeueAny(j) == job[j].retries < MaxRetries

MayRequeue(j) == job[j].retries < MaxRetries /\ ~SqlWriteFlag(j)

\* A stale workflow_run is resumed at no cost, another stale job is requeued
\* while its budget lasts and failed after that; a failed row keeps worker_id.
Reaped(j) ==
    IF j \in Runs THEN Freed(job[j])
    ELSE IF MayRequeue(j) THEN [Freed(job[j]) EXCEPT !.retries = @ + 1]
    ELSE [job[j] EXCEPT !.status = "failed"]

ReapStaleRunningJobs(w) ==
    /\ wk[w].pc = "reap"
    /\ job' = [j \in Jobs |-> IF Stale(j) THEN Reaped(j) ELSE job[j]]
    /\ wk' = [v \in Workers |->
                IF v = w THEN [wk[v] EXCEPT !.pc = "claim"]
                ELSE [wk[v] EXCEPT !.stands = @ /\ ~Stale(wk[v].job)]]
    /\ UNCHANGED <<rs, applied>>

----------------------------------------------------------------------------
(* A worker: run_once, _execute_claimed_job, the heartbeat thread.          *)

\* Mutant of Priority: a run competes with its nodes.
PriorityFlat(j) == 0

\* A run has priority -1, every other job 0 (a node: its run's priority + 1).
Priority(j) == IF j \in Runs THEN 0 ELSE 1

Claimable(j) ==
    /\ job[j].status = "pending"
    /\ \A i \in Jobs : job[i].status = "pending" => Priority(i) <= Priority(j)

ClaimNext(w) ==
    /\ wk[w].pc = "claim"
    /\ \E j \in Jobs :
          /\ Claimable(j)
          /\ Update(j, [job[j] EXCEPT !.status = "running", !.owner = w,
                                      !.stale = FALSE])
          /\ Step(w, [pc |-> "check", job |-> j, out |-> "none",
                      stands |-> TRUE])
    /\ UNCHANGED <<rs, applied>>

ClaimNothing(w) ==
    /\ wk[w].pc = "claim"
    /\ \A j \in Jobs : job[j].status # "pending"
    /\ Goto(w, "reap")
    /\ UNCHANGED <<job, rs, applied>>

\* The ownership guard in the WHERE clause of every write of a worker.
Owns(w, j) == job[j].owner = w /\ job[j].status = "running"

Heartbeat(w) ==
    LET j == wk[w].job
    IN  /\ wk[w].pc \notin Idle
        /\ Owns(w, j)
        /\ Update(j, [job[j] EXCEPT !.stale = FALSE])
        /\ UNCHANGED <<rs, wk, applied>>

Finish(w, out) == Step(w, [wk[w] EXCEPT !.pc = "settle", !.out = out])

\* _check_cancel raises JobCancelled: at the start of a job, between batches,
\* before a write is committed and when its one-row result is flushed.
SeesCancel(w) ==
    /\ wk[w].pc \in {"check", "work", "publish"}
    /\ job[wk[w].job].cancel
    /\ Finish(w, "cancelled")
    /\ UNCHANGED <<job, rs, applied>>

\* The check passed: write_streaming for a job with a result set.
Begins(w) ==
    /\ wk[w].pc = "check"
    /\ wk[w].job \notin Runs
    /\ ~job[wk[w].job].cancel
    /\ rs' = [rs EXCEPT ![wk[w].job] = "streaming"]
    /\ Goto(w, "work")
    /\ UNCHANGED <<job, applied>>

\* The adapter ran the SQL; a write was committed.
Executes(w) ==
    LET j == wk[w].job
    IN  /\ wk[w].pc = "work"
        /\ ~job[j].cancel
        /\ applied' = IF j \in Writes THEN [applied EXCEPT ![j] = @ + 1]
                      ELSE applied
        /\ Goto(w, "publish")
        /\ UNCHANGED <<job, rs>>

\* The last rows are flushed (a write's one row behind a cancel check) and
\* the catalog is set complete.
Publishes(w) ==
    LET j == wk[w].job
    IN  /\ wk[w].pc = "publish"
        /\ j \in Writes => ~job[j].cancel
        /\ rs' = [rs EXCEPT ![j] = "complete"]
        /\ Finish(w, "success")
        /\ UNCHANGED <<job, applied>>

\* Any other exception: before the result set exists (policy, payload,
\* datasource), in the adapter, or while the result is stored.
Raises(w) ==
    /\ wk[w].pc \in {"check", "work", "publish"}
    /\ Finish(w, "failed")
    /\ UNCHANGED <<job, rs, applied>>

\* _execute_workflow_run: yield (requeue_workflow_run), or the DAG is over.
Advances(w) ==
    LET j == wk[w].job
    IN  /\ wk[w].pc = "check"
        /\ j \in Runs
        /\ ~job[j].cancel
        /\ \/ /\ Update(j, IF Owns(w, j) THEN Freed(job[j]) ELSE job[j])
              /\ Step(w, NoJob)
           \/ /\ \E out \in {"success", "failed"} : Finish(w, out)
              /\ UNCHANGED job
        /\ UNCHANGED <<rs, applied>>

\* complete, fail and mark_cancelled.
Settled(row, out) ==
    [row EXCEPT !.status = out, !.cancel = @ \/ out = "cancelled"]

\* Mutant of Settles: the terminal write is not guarded by worker_id.
SettlesUnguarded(w) ==
    LET j == wk[w].job
        out == wk[w].out
    IN  /\ wk[w].pc = "settle"
        /\ Update(j, IF job[j].status = "running" THEN Settled(job[j], out)
                     ELSE job[j])
        /\ Goto(w, IF out = "failed" THEN "code" ELSE "after")
        /\ UNCHANGED <<rs, applied>>

Settles(w) ==
    LET j == wk[w].job
        out == wk[w].out
    IN  /\ wk[w].pc = "settle"
        /\ Update(j, IF Owns(w, j) THEN Settled(job[j], out) ELSE job[j])
        /\ Goto(w, IF out = "failed" THEN "code" ELSE "after")
        /\ UNCHANGED <<rs, applied>>

\* PostgresJobErrorCodeWriter: guarded by the status, not by the owner.
WritesErrorCode(w) ==
    LET j == wk[w].job
    IN  /\ wk[w].pc = "code"
        /\ Update(j, [job[j] EXCEPT !.code = @ \/ job[j].status = "failed"])
        /\ Goto(w, "after")
        /\ UNCHANGED <<rs, applied>>

ResultSetState(out) == IF out = "cancelled" THEN "closed" ELSE "failed"

\* What follows the terminal write whether or not it took effect: an UPDATE of
\* the result set of an SQL job.  (The notification of a workflow run changes
\* no state of the queue.)
AfterTerminal(w) ==
    LET j == wk[w].job
        out == wk[w].out
    IN  /\ wk[w].pc = "after"
        /\ rs' = IF out = "success" \/ rs[j] = "none" THEN rs
                 ELSE [rs EXCEPT ![j] = ResultSetState(out)]
        /\ Step(w, NoJob)
        /\ UNCHANGED <<job, applied>>

\* The process dies and is started again: its locals are gone, its row stays.
Crash(w) ==
    /\ wk[w].pc \notin Idle
    /\ Step(w, NoJob)
    /\ UNCHANGED <<job, rs, applied>>

\* No heartbeat of the row for heartbeat_timeout_seconds: the worker is gone,
\* stalled, or cut off from PostgreSQL.
HeartbeatLapses(j) ==
    /\ job[j].status = "running"
    /\ ~job[j].stale
    /\ Update(j, [job[j] EXCEPT !.stale = TRUE])
    /\ UNCHANGED <<rs, wk, applied>>

WorkerStep(w) ==
    \/ ReapStaleRunningJobs(w) \/ ClaimNext(w) \/ ClaimNothing(w)
    \/ SeesCancel(w) \/ Begins(w) \/ Executes(w) \/ Publishes(w) \/ Raises(w)
    \/ Advances(w) \/ Settles(w) \/ WritesErrorCode(w) \/ AfterTerminal(w)

Next ==
    \/ \E j \in Jobs : \/ Enqueue(j) \/ RequestCancel(j) \/ CancelPendingJob(j)
                       \/ RetryWorkflowNode(j) \/ HeartbeatLapses(j)
    \/ \E w \in Workers : WorkerStep(w) \/ Heartbeat(w) \/ Crash(w)

Spec == Init /\ [][Next]_vars

\* Nobody executes the row any more, so nobody refreshes its heartbeat.
Orphaned(j) ==
    \A w \in Workers : wk[w].pc \notin Idle => wk[w].job # j

\* A worker that is up goes on, and the heartbeat of an abandoned row ages.
Fairness ==
    /\ \A w \in Workers : WF_vars(WorkerStep(w))
    /\ \A j \in Jobs : WF_vars(Orphaned(j) /\ HeartbeatLapses(j))

FairSpec == Spec /\ Fairness

----------------------------------------------------------------------------
(* Properties.                                                              *)

\* Every row, every worker's local state and every history has its type; a
\* worker that is not idle has a job, and one that settles has an outcome.
TypeOK ==
    /\ job \in [Jobs -> Rows]
    /\ rs \in [Jobs -> {"none", "streaming", "complete", "failed", "closed"}]
    /\ wk \in [Workers -> Locals]
    /\ \A w \in Workers : wk[w].pc \notin Idle => wk[w].job \in Jobs
    /\ \A w \in Workers : wk[w].pc \in {"settle", "code", "after"} =>
                             wk[w].out \in Terminal
    /\ applied \in [Jobs -> Nat]

\* ADR-0018's ownership rule: a worker whose claim was taken from it by the
\* reaper changes nothing about the job with complete, fail, mark_cancelled
\* or requeue_workflow_run, whoever holds the job now.
FencedStep ==
    \A w \in Workers :
       /\ wk[w].pc \in {"check", "settle"}
       /\ wk'[w].pc # wk[w].pc
       /\ ~wk[w].stands
       => job'[wk[w].job] = job[wk[w].job]

\* What the guard relies on: the row names w as its running owner only while
\* the claim w is executing stands.
OwnerHoldsTheClaim ==
    \A w \in Workers :
       wk[w].pc \in {"check", "work", "publish", "settle"}
          /\ Owns(w, wk[w].job) => wk[w].stands

\* Once recorded, an outcome is never replaced, a late terminal write of a
\* reaped worker included; only a failed node is reopened, by its retry.
FinalStep ==
    \A j \in Jobs :
       job[j].status \in Terminal =>
          \/ job'[j].status = job[j].status
          \/ j \in Nodes /\ job[j].status = "failed" /\ job'[j].status = "pending"

(* What a job's row says is changed by who may: a worker that lost its claim *)
(* changes nothing, and nobody replaces a recorded outcome.                  *)
OutcomesStand == [][FencedStep /\ FinalStep]_vars

\* A write statement submitted to the queue is committed at most once,
\* whatever crashes or stalls: the reaper fails such a job, never requeues it.
DirectWriteOnce == \A j \in Writes \ Nodes : applied[j] <= 1

(* The queue's tables and its workers agree on who holds a job, and a write  *)
(* statement is not repeated (PostgresJobBackend, worker.py).                *)
QueueInv == TypeOK /\ OwnerHoldsTheClaim /\ DirectWriteOnce

\* A job in the queue reaches an outcome: through crashes, and in spite of
\* workflow runs that keep coming back to the queue.
JobsFinish ==
    \A j \in Jobs \ Runs : job[j].status = "pending" ~> job[j].status \in Terminal

\* What the reaper's comment promises of every write: never executed twice.
WriteOnce == \A j \in Writes : applied[j] <= 1

----------------------------------------------------------------------------
(* The contract.                                                            *)

\* A worker holds a lease from its claim to its terminal write, unless the
\* reaper has taken the job from it.
Leases == {<<w, wk[w].job>> : w \in {v \in Workers :
             wk[v].pc \in {"check", "work", "publish", "settle"} /\ wk[v].stands}}

Lifecycle == INSTANCE JobLifecycle
             WITH phase <- [j \in Jobs |-> job[j].status], leases <- Leases

\* The guarded updates and heartbeats implement exclusive leases: one worker at
\* a time, and every outcome is recorded by the worker that holds the lease.
ImplementsLifecycle == Lifecycle!LifecycleSpec
=============================================================================
