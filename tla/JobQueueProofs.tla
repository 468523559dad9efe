--------------------------- MODULE JobQueueProofs ---------------------------
(***************************************************************************)
(* Theorems about JobQueue for every set of jobs and workers and every     *)
(* retry budget: type correctness, the ownership fence, that a write       *)
(* submitted to the queue is committed at most once, and that the queue    *)
(* implements the exclusive leases of JobLifecycle.                        *)
(* And about AdapterCall, the call such a job makes on a database: for     *)
(* every dialect its connection is returned, its outcome honest.           *)
(***************************************************************************)
EXTENDS JobQueue, AdapterCall, TLAPS

----------------------------------------------------------------------------
(* Type correctness.  Every action replaces whole rows and whole locals,    *)
(* so it is enough that each row and each local it writes is a typed one.   *)

Catalog == {"none", "streaming", "complete", "failed", "closed"}

\* What TypeOK says of one worker.
TypedLocals ==
    {l \in Locals : /\ l.pc \notin Idle => l.job \in Jobs
                    /\ l.pc \in {"settle", "code", "after"} => l.out \in Terminal}

\* TypeOK, one conjunct per variable.
TypedState ==
    /\ job \in [Jobs -> Rows]
    /\ rs \in [Jobs -> Catalog]
    /\ wk \in [Workers -> TypedLocals]
    /\ applied \in [Jobs -> Nat]

\* The two forms of the type invariant say the same.
LEMMA TypeForms == TypeOK <=> TypedState
  BY DEF TypeOK, TypedState, TypedLocals, Catalog

\* The initial state has the types.
LEMMA InitTyped == Init => TypedState
  BY QueueAssumption
  DEF Init, TypedState, TypedLocals, Catalog, Rows, Locals, Statuses, Pcs,
      NoJob, Idle, Terminal

\* UPDATE of one row with a typed row, and a step to a typed local.
LEMMA UpdateTyped ==
  ASSUME job \in [Jobs -> Rows], NEW j \in Jobs, NEW row \in Rows, Update(j, row)
  PROVE  job' \in [Jobs -> Rows]
  BY DEF Update

\* A worker that moves to a typed local keeps wk typed.
LEMMA WorkerTyped ==
  ASSUME wk \in [Workers -> TypedLocals], NEW w \in Workers,
         NEW l \in TypedLocals, Step(w, l)
  PROVE  wk' \in [Workers -> TypedLocals]
  BY DEF Step

\* The locals of a worker without a job (NoJob) are typed.
LEMMA NoJobTyped == NoJob \in TypedLocals
  BY DEF NoJob, TypedLocals, Locals, Pcs, Idle, Terminal

\* A worker with a job may go to any point before the terminal write, and
\* with an outcome to any point.
LEMMA GotoTyped ==
  ASSUME NEW l \in TypedLocals, l.job \in Jobs,
         NEW pc \in Pcs, pc \in {"settle", "code", "after"} => l.out \in Terminal
  PROVE  [l EXCEPT !.pc = pc] \in TypedLocals
  BY DEF TypedLocals, Locals

\* An idle worker's move between reap and claim (run_once).
LEMMA IdleTyped ==
  ASSUME NEW l \in TypedLocals, NEW pc \in Idle
  PROVE  [l EXCEPT !.pc = pc] \in TypedLocals
  BY DEF TypedLocals, Locals, Idle, Pcs

\* A worker that leaves its execution with an outcome (Finish).
LEMMA FinishTyped ==
  ASSUME NEW l \in TypedLocals, l.job \in Jobs, NEW out \in Terminal
  PROVE  [l EXCEPT !.pc = "settle", !.out = out] \in TypedLocals
  BY DEF TypedLocals, Locals, Pcs, Idle

\* The row the reaper, the yield and the node's retry put back is typed.
LEMMA FreedTyped ==
  ASSUME NEW row \in Rows
  PROVE  /\ Freed(row) \in Rows
         /\ [Freed(row) EXCEPT !.retries = @ + 1] \in Rows
         /\ [Freed(row) EXCEPT !.code = FALSE, !.retries = @ + 1] \in Rows
<1>1. Freed(row) \in Rows
  BY DEF Freed, Rows, Statuses
<1>2. ASSUME NEW r \in Rows
      PROVE  /\ [r EXCEPT !.retries = @ + 1] \in Rows
             /\ [r EXCEPT !.code = FALSE, !.retries = @ + 1] \in Rows
  <2>1. r.retries + 1 \in Nat
    BY DEF Rows
  <2>2. ASSUME NEW n \in Nat
        PROVE  /\ [r EXCEPT !.retries = n] \in Rows
               /\ [r EXCEPT !.code = FALSE, !.retries = n] \in Rows
    BY DEF Rows
  <2> QED
    BY <2>1, <2>2
<1> QED
  BY <1>1, <1>2

\* Writing a flag or a status of a typed row.
LEMMA FlagTyped ==
  ASSUME NEW row \in Rows, NEW b \in BOOLEAN
  PROVE  /\ [row EXCEPT !.cancel = b] \in Rows
         /\ [row EXCEPT !.stale = b] \in Rows
         /\ [row EXCEPT !.code = b] \in Rows
<1>1. [row EXCEPT !.cancel = b] \in Rows
  BY DEF Rows
<1>2. [row EXCEPT !.stale = b] \in Rows
  BY DEF Rows
<1>3. [row EXCEPT !.code = b] \in Rows
  BY DEF Rows
<1> QED
  BY <1>1, <1>2, <1>3

\* A typed row stays typed when its status is written.
LEMMA StatusTyped ==
  ASSUME NEW row \in Rows, NEW st \in Statuses
  PROVE  [row EXCEPT !.status = st] \in Rows
  BY DEF Rows

\* A worker that is not idle has a job.
LEMMA BusyHasJob ==
  ASSUME TypedState, NEW w \in Workers, wk[w].pc \notin Idle
  PROVE  wk[w] \in TypedLocals /\ wk[w].job \in Jobs /\ job[wk[w].job] \in Rows
  BY DEF TypedState, TypedLocals

\* Every step keeps the types.
LEMMA StepTyped == TypedState /\ [Next]_vars => TypedState'
<1> SUFFICES ASSUME TypedState, [Next]_vars PROVE TypedState'
  OBVIOUS
<1> USE QueueAssumption
<1>0. /\ \A j \in Jobs : job[j] \in Rows
      /\ \A w \in Workers : wk[w] \in TypedLocals
      /\ job \in [Jobs -> Rows] /\ wk \in [Workers -> TypedLocals]
  BY DEF TypedState
<1>1. ASSUME NEW j \in Jobs, Enqueue(j) PROVE TypedState'
  <2>1. [job[j] EXCEPT !.status = "pending"] \in Rows
    BY <1>0, StatusTyped DEF Statuses
  <2> QED
    BY <1>0, <1>1, <2>1, UpdateTyped DEF Enqueue, TypedState
<1>2. ASSUME NEW j \in Jobs, RequestCancel(j) PROVE TypedState'
  <2>1. [job[j] EXCEPT !.cancel = TRUE] \in Rows
    BY <1>0, FlagTyped
  <2> QED
    BY <1>0, <1>2, <2>1, UpdateTyped DEF RequestCancel, TypedState
<1>3. ASSUME NEW j \in Jobs, CancelPendingJob(j) PROVE TypedState'
  <2>1. [job[j] EXCEPT !.status = "cancelled", !.cancel = TRUE] \in Rows
    BY <1>0 DEF Rows, Statuses, Terminal
  <2> QED
    BY <1>0, <1>3, <2>1, UpdateTyped DEF CancelPendingJob, TypedState
<1>4. ASSUME NEW j \in Jobs, RetryWorkflowNode(j) PROVE TypedState'
  BY <1>0, <1>4, FreedTyped, UpdateTyped DEF RetryWorkflowNode, TypedState
<1>5. ASSUME NEW j \in Jobs, HeartbeatLapses(j) PROVE TypedState'
  <2>1. [job[j] EXCEPT !.stale = TRUE] \in Rows
    BY <1>0, FlagTyped
  <2> QED
    BY <1>0, <1>5, <2>1, UpdateTyped DEF HeartbeatLapses, TypedState
<1>6. ASSUME NEW w \in Workers, ReapStaleRunningJobs(w) PROVE TypedState'
  <2>1. ASSUME NEW j \in Jobs PROVE Reaped(j) \in Rows
    <3>1. [job[j] EXCEPT !.status = "failed"] \in Rows
      BY <1>0, StatusTyped DEF Statuses, Terminal
    <3> QED
      BY <1>0, <3>1, FreedTyped DEF Reaped
  <2>2. job' \in [Jobs -> Rows]
    BY <1>0, <1>6, <2>1 DEF ReapStaleRunningJobs
  <2>3. [wk[w] EXCEPT !.pc = "claim"] \in TypedLocals
    BY <1>0, IdleTyped DEF Idle
  <2>4. ASSUME NEW v \in Workers
        PROVE [wk[v] EXCEPT !.stands = @ /\ ~Stale(wk[v].job)] \in TypedLocals
    <3>1. (wk[v].stands /\ ~Stale(wk[v].job)) \in BOOLEAN
      OBVIOUS
    <3> QED
      BY <1>0, <3>1 DEF TypedLocals, Locals
  <2>5. wk' \in [Workers -> TypedLocals]
    BY <1>6, <2>3, <2>4 DEF ReapStaleRunningJobs
  <2> QED
    BY <1>6, <2>2, <2>5 DEF ReapStaleRunningJobs, TypedState
<1>7. ASSUME NEW w \in Workers, ClaimNext(w) PROVE TypedState'
  <2>1. PICK j \in Jobs :
           /\ Update(j, [job[j] EXCEPT !.status = "running", !.owner = w,
                                       !.stale = FALSE])
           /\ Step(w, [pc |-> "check", job |-> j, out |-> "none",
                       stands |-> TRUE])
    BY <1>7 DEF ClaimNext
  <2>2. [job[j] EXCEPT !.status = "running", !.owner = w, !.stale = FALSE] \in Rows
    BY <1>0 DEF Rows, Statuses
  <2>3. [pc |-> "check", job |-> j, out |-> "none", stands |-> TRUE] \in TypedLocals
    BY DEF TypedLocals, Locals, Pcs
  <2> QED
    BY <1>0, <1>7, <2>1, <2>2, <2>3, UpdateTyped, WorkerTyped
    DEF ClaimNext, TypedState
<1>8. ASSUME NEW w \in Workers, ClaimNothing(w) PROVE TypedState'
  <2>1. [wk[w] EXCEPT !.pc = "reap"] \in TypedLocals
    BY <1>0, IdleTyped DEF Idle
  <2> QED
    BY <1>0, <1>8, <2>1, WorkerTyped DEF ClaimNothing, Goto, TypedState
<1>9. ASSUME NEW w \in Workers, SeesCancel(w) PROVE TypedState'
  <2>1. [wk[w] EXCEPT !.pc = "settle", !.out = "cancelled"] \in TypedLocals
    BY <1>9, BusyHasJob, FinishTyped DEF SeesCancel, Idle, Terminal
  <2> QED
    BY <1>0, <1>9, <2>1, WorkerTyped DEF SeesCancel, Finish, TypedState
<1>10. ASSUME NEW w \in Workers, Begins(w) PROVE TypedState'
  <2>1. wk[w].job \in Jobs /\ [wk[w] EXCEPT !.pc = "work"] \in TypedLocals
    BY <1>10, BusyHasJob, GotoTyped DEF Begins, Idle, Pcs
  <2> QED
    BY <1>0, <1>10, <2>1, WorkerTyped DEF Begins, Goto, TypedState, Catalog
<1>11. ASSUME NEW w \in Workers, Executes(w) PROVE TypedState'
  <2>1. wk[w].job \in Jobs /\ [wk[w] EXCEPT !.pc = "publish"] \in TypedLocals
    BY <1>11, BusyHasJob, GotoTyped DEF Executes, Idle, Pcs
  <2>2. applied' \in [Jobs -> Nat]
    BY <1>11, <2>1 DEF Executes, TypedState
  <2> QED
    BY <1>0, <1>11, <2>1, <2>2, WorkerTyped DEF Executes, Goto, TypedState
<1>12. ASSUME NEW w \in Workers, Publishes(w) PROVE TypedState'
  <2>1. /\ wk[w].job \in Jobs
        /\ [wk[w] EXCEPT !.pc = "settle", !.out = "success"] \in TypedLocals
    BY <1>12, BusyHasJob, FinishTyped DEF Publishes, Idle, Terminal
  <2> QED
    BY <1>0, <1>12, <2>1, WorkerTyped DEF Publishes, Finish, TypedState, Catalog
<1>13. ASSUME NEW w \in Workers, Raises(w) PROVE TypedState'
  <2>1. [wk[w] EXCEPT !.pc = "settle", !.out = "failed"] \in TypedLocals
    BY <1>13, BusyHasJob, FinishTyped DEF Raises, Idle, Terminal
  <2> QED
    BY <1>0, <1>13, <2>1, WorkerTyped DEF Raises, Finish, TypedState
<1>14. ASSUME NEW w \in Workers, Advances(w) PROVE TypedState'
  <2>1. wk[w].job \in Jobs /\ job[wk[w].job] \in Rows
    BY <1>14, BusyHasJob DEF Advances, Idle
  <2>2. CASE /\ Update(wk[w].job, IF Owns(w, wk[w].job) THEN Freed(job[wk[w].job])
                                  ELSE job[wk[w].job])
             /\ Step(w, NoJob)
    BY <1>0, <1>14, <2>1, <2>2, FreedTyped, NoJobTyped, UpdateTyped, WorkerTyped
    DEF Advances, TypedState
  <2>3. ASSUME NEW out \in {"success", "failed"}, Finish(w, out), UNCHANGED job
        PROVE  TypedState'
    <3>1. [wk[w] EXCEPT !.pc = "settle", !.out = out] \in TypedLocals
      BY <1>0, <2>1, FinishTyped DEF Terminal
    <3> QED
      BY <1>0, <1>14, <2>3, <3>1, WorkerTyped DEF Advances, Finish, TypedState
  <2> QED
    BY <1>14, <2>2, <2>3 DEF Advances
<1>15. ASSUME NEW w \in Workers, Settles(w) PROVE TypedState'
  <2>1. wk[w].job \in Jobs /\ wk[w].out \in Terminal
    BY <1>0, <1>15 DEF Settles, TypedLocals, Idle
  <2>2. Settled(job[wk[w].job], wk[w].out) \in Rows
    <3>1. ASSUME NEW row \in Rows, NEW out \in Terminal
          PROVE  Settled(row, out) \in Rows
      <4>1. (row.cancel \/ out = "cancelled") \in BOOLEAN
        OBVIOUS
      <4> QED
        BY <4>1 DEF Settled, Rows, Statuses
    <3> QED
      BY <1>0, <2>1, <3>1
  <2>3. \A pc \in {"code", "after"} : [wk[w] EXCEPT !.pc = pc] \in TypedLocals
    BY <1>0, <2>1, GotoTyped DEF Pcs
  <2> QED
    BY <1>0, <1>15, <2>1, <2>2, <2>3, UpdateTyped, WorkerTyped
    DEF Settles, Goto, TypedState
<1>16. ASSUME NEW w \in Workers, WritesErrorCode(w) PROVE TypedState'
  <2>1. wk[w].job \in Jobs /\ wk[w].out \in Terminal
    BY <1>0, <1>16 DEF WritesErrorCode, TypedLocals, Idle
  <2>2. [job[wk[w].job] EXCEPT !.code = @ \/ job[wk[w].job].status = "failed"] \in Rows
    <3>1. (job[wk[w].job].code \/ job[wk[w].job].status = "failed") \in BOOLEAN
      OBVIOUS
    <3> QED
      BY <1>0, <2>1, <3>1, FlagTyped
  <2>3. [wk[w] EXCEPT !.pc = "after"] \in TypedLocals
    BY <1>0, <2>1, GotoTyped DEF Pcs
  <2> QED
    BY <1>0, <1>16, <2>1, <2>2, <2>3, UpdateTyped, WorkerTyped
    DEF WritesErrorCode, Goto, TypedState
<1>17. ASSUME NEW w \in Workers, AfterTerminal(w) PROVE TypedState'
  <2>1. wk[w].job \in Jobs /\ wk[w].out \in Terminal
    BY <1>0, <1>17 DEF AfterTerminal, TypedLocals, Idle
  <2>2. rs' \in [Jobs -> Catalog]
    BY <1>17, <2>1 DEF AfterTerminal, ResultSetState, TypedState, Catalog
  <2> QED
    BY <1>0, <1>17, <2>2, NoJobTyped, WorkerTyped DEF AfterTerminal, TypedState
<1>18. ASSUME NEW w \in Workers, Heartbeat(w) PROVE TypedState'
  <2>1. wk[w].job \in Jobs
    BY <1>18, BusyHasJob DEF Heartbeat
  <2>2. [job[wk[w].job] EXCEPT !.stale = FALSE] \in Rows
    BY <1>0, <2>1, FlagTyped
  <2> QED
    BY <1>0, <1>18, <2>1, <2>2, UpdateTyped DEF Heartbeat, TypedState
<1>19. ASSUME NEW w \in Workers, Crash(w) PROVE TypedState'
  BY <1>0, <1>19, NoJobTyped, WorkerTyped DEF Crash, TypedState
<1>20. CASE UNCHANGED vars
  BY <1>20 DEF vars, TypedState
<1> QED
  BY <1>1, <1>2, <1>3, <1>4, <1>5, <1>6, <1>7, <1>8, <1>9, <1>10, <1>11, <1>12,
     <1>13, <1>14, <1>15, <1>16, <1>17, <1>18, <1>19, <1>20
  DEF Next, WorkerStep

\* Every state of the queue and of its workers has the declared types: a
\* worker past its claim has a job, one past its execution an outcome.
THEOREM TypeCorrect == Spec => []TypeOK
<1>1. Spec => []TypedState
  BY InitTyped, StepTyped, PTL DEF Spec
<1> QED
  BY <1>1, TypeForms, PTL

----------------------------------------------------------------------------
(* The ownership fence.  OwnerHoldsTheClaim is inductive on the typed       *)
(* states: the reaper, the only one that ends a claim behind its worker's   *)
(* back, also ends the row's ownership, and a row is given an owner only    *)
(* together with a fresh claim.                                             *)

\* Reading back a row that was written, and the others.
LEMMA RowRead ==
  ASSUME TypedState, NEW j \in Jobs, NEW row, Update(j, row)
  PROVE  job'[j] = row /\ \A i \in Jobs : i # j => job'[i] = job[i]
  BY DEF Update, TypedState

\* Reading back the locals of the worker that stepped, and of the others.
LEMMA LocalRead ==
  ASSUME TypedState, NEW w \in Workers, NEW l, Step(w, l)
  PROVE  wk'[w] = l /\ \A v \in Workers : v # w => wk'[v] = wk[v]
  BY DEF Step, TypedState

\* Status and owner of the rows the actions write.
LEMMA FreedRead ==
  ASSUME NEW row \in Rows
  PROVE  /\ Freed(row).status = "pending" /\ Freed(row).owner = NoWorker
         /\ [Freed(row) EXCEPT !.retries = @ + 1].status = "pending"
         /\ [Freed(row) EXCEPT !.retries = @ + 1].owner = NoWorker
         /\ [Freed(row) EXCEPT !.code = FALSE, !.retries = @ + 1].status = "pending"
         /\ [Freed(row) EXCEPT !.code = FALSE, !.retries = @ + 1].owner = NoWorker
<1>1. Freed(row) \in Rows /\ Freed(row).status = "pending" /\ Freed(row).owner = NoWorker
  BY FreedTyped DEF Freed, Rows
<1>2. ASSUME NEW r \in Rows, NEW n
      PROVE  /\ [r EXCEPT !.retries = n].status = r.status
             /\ [r EXCEPT !.retries = n].owner = r.owner
             /\ [r EXCEPT !.code = FALSE, !.retries = n].status = r.status
             /\ [r EXCEPT !.code = FALSE, !.retries = n].owner = r.owner
  BY DEF Rows
<1> QED
  BY <1>1, <1>2

\* Status and owner of the row cancel_pending_job writes.
LEMMA CancelledRead ==
  ASSUME NEW row \in Rows
  PROVE  [row EXCEPT !.status = "cancelled", !.cancel = TRUE].status = "cancelled"
  BY DEF Rows

\* Status and owner of the row complete, fail and mark_cancelled write.
LEMMA SettledRead ==
  ASSUME NEW row \in Rows, NEW out
  PROVE  Settled(row, out).status = out /\ Settled(row, out).owner = row.owner
  BY DEF Settled, Rows

\* What a step does to the status and the owner of a row.
Kept(j) == job'[j].status = job[j].status /\ job'[j].owner = job[j].owner

RowStep(j) ==
    \/ Kept(j)
    \/ job[j].status = "absent" /\ job'[j].status = "pending"
    \/ /\ j \in Nodes
       /\ job[j].status = "pending"
       /\ job'[j].status = "cancelled"
    \/ /\ j \in Nodes
       /\ job[j].status = "failed"
       /\ job'[j].status = "pending"

\* Every action of the API and of the advancer, and the heartbeat's age.
LEMMA RowSteps ==
  ASSUME TypedState, NEW j \in Jobs,
         \/ Enqueue(j) \/ RequestCancel(j) \/ CancelPendingJob(j)
         \/ RetryWorkflowNode(j) \/ HeartbeatLapses(j)
  PROVE  /\ RowStep(j)
         /\ \A i \in Jobs : i # j => job'[i] = job[i]
         /\ UNCHANGED <<wk, applied, rs>>
<1>0. job[j] \in Rows
  BY DEF TypedState
<1>1. CASE Enqueue(j)
  <2>1. [job[j] EXCEPT !.status = "pending"].status = "pending"
    BY <1>0 DEF Rows
  <2> QED
    BY <1>1, <2>1, RowRead DEF Enqueue, RowStep
<1>2. CASE RequestCancel(j)
  <2>1. /\ [job[j] EXCEPT !.cancel = TRUE].status = job[j].status
        /\ [job[j] EXCEPT !.cancel = TRUE].owner = job[j].owner
    BY <1>0 DEF Rows
  <2> QED
    BY <1>2, <2>1, RowRead DEF RequestCancel, RowStep, Kept
<1>3. CASE CancelPendingJob(j)
  BY <1>0, <1>3, CancelledRead, RowRead DEF CancelPendingJob, RowStep
<1>4. CASE RetryWorkflowNode(j)
  BY <1>0, <1>4, FreedRead, RowRead DEF RetryWorkflowNode, RowStep
<1>5. CASE HeartbeatLapses(j)
  <2>1. /\ [job[j] EXCEPT !.stale = TRUE].status = job[j].status
        /\ [job[j] EXCEPT !.stale = TRUE].owner = job[j].owner
    BY <1>0 DEF Rows
  <2> QED
    BY <1>5, <2>1, RowRead DEF HeartbeatLapses, RowStep, Kept
<1> QED
  BY <1>1, <1>2, <1>3, <1>4, <1>5

\* The reaper takes the stale rows, and the claims on them, away.
LEMMA ReapStep ==
  ASSUME TypedState, NEW w \in Workers, ReapStaleRunningJobs(w)
  PROVE  /\ \A j \in Jobs :
               \/ ~Stale(j) /\ job'[j] = job[j]
               \/ /\ Stale(j)
                  /\ job'[j].status \in {"pending", "failed"}
                  /\ job'[j].status = "pending" => ~SqlWriteFlag(j)
         /\ wk[w].pc = "reap" /\ wk'[w].pc = "claim"
         /\ \A v \in Workers :
               v # w => /\ wk'[v].pc = wk[v].pc
                        /\ wk'[v].job = wk[v].job
                        /\ wk'[v].stands <=> wk[v].stands /\ ~Stale(wk[v].job)
         /\ UNCHANGED applied
<1>0. /\ \A j \in Jobs : job[j] \in Rows
      /\ \A v \in Workers : wk[v] \in Locals
  BY DEF TypedState, TypedLocals
<1>1. ASSUME NEW j \in Jobs
      PROVE  /\ Reaped(j).status \in {"pending", "failed"}
             /\ Reaped(j).status = "pending" => ~SqlWriteFlag(j)
  <2>1. [job[j] EXCEPT !.status = "failed"].status = "failed"
    BY <1>0 DEF Rows
  <2> QED
    BY <1>0, <2>1, FreedRead, QueueAssumption DEF Reaped, MayRequeue, SqlWriteFlag
<1>2. \A j \in Jobs : job'[j] = IF Stale(j) THEN Reaped(j) ELSE job[j]
  BY DEF ReapStaleRunningJobs
<1>3. \A v \in Workers :
         wk'[v] = IF v = w THEN [wk[v] EXCEPT !.pc = "claim"]
                  ELSE [wk[v] EXCEPT !.stands = @ /\ ~Stale(wk[v].job)]
  BY DEF ReapStaleRunningJobs
<1>4. ASSUME NEW v \in Workers, v # w
      PROVE  /\ wk'[v].pc = wk[v].pc
             /\ wk'[v].job = wk[v].job
             /\ wk'[v].stands <=> wk[v].stands /\ ~Stale(wk[v].job)
  BY ZenonT(60), <1>0, <1>3, <1>4 DEF Locals
<1>5. wk'[w].pc = "claim"
  BY <1>0, <1>3 DEF Locals
<1>6. \A j \in Jobs :
         \/ ~Stale(j) /\ job'[j] = job[j]
         \/ /\ Stale(j)
            /\ job'[j].status \in {"pending", "failed"}
            /\ job'[j].status = "pending" => ~SqlWriteFlag(j)
  BY <1>1, <1>2
<1> QED
  BY <1>4, <1>5, <1>6 DEF ReapStaleRunningJobs

Executing == {"check", "work", "publish", "settle"}

Others(w) == \A v \in Workers : v # w => wk'[v] = wk[v]

ClaimStep(w) ==
    /\ wk[w].pc = "claim"
    /\ \E j \in Jobs :
          /\ job[j].status = "pending"
          /\ job'[j].status = "running" /\ job'[j].owner = w
          /\ \A i \in Jobs : i # j => job'[i] = job[i]
          /\ wk'[w].pc = "check" /\ wk'[w].job = j /\ wk'[w].stands
    /\ UNCHANGED applied

\* A worker with a job moves on with it or gives it up; it changes the status
\* of that job only, only as its running owner, and only when it is done.
MoveStep(w) ==
    /\ \/ wk'[w].pc \in Idle
       \/ /\ wk'[w].job = wk[w].job
          /\ wk'[w].stands <=> wk[w].stands
          /\ wk'[w].pc \notin Idle \cup {"check"}
          /\ wk'[w].pc = "work" => wk[w].pc = "check"
          /\ wk'[w].pc \in Executing => wk[w].pc \in Executing
    /\ \A j \in Jobs :
          \/ Kept(j)
          \/ /\ j = wk[w].job
             /\ Owns(w, j)
             /\ job'[j].status \in Terminal \/ (job'[j].status = "pending" /\ j \in Runs)
             /\ wk[w].pc \in {"check", "settle"} /\ wk'[w].pc \notin Executing
    /\ wk[w].pc \in {"check", "settle"} /\ ~Owns(w, wk[w].job) => job' = job

CommitStep(w) ==
    \/ UNCHANGED applied
    \/ /\ wk[w].pc = "work" /\ wk'[w].pc = "publish"
       /\ wk[w].job \in Writes
       /\ applied' = [applied EXCEPT ![wk[w].job] = @ + 1]

BusyStep(w) == wk[w].pc \notin Idle /\ MoveStep(w) /\ CommitStep(w)

\* claim_next gives one pending row to one idle worker, whose claim stands.
LEMMA ClaimSteps ==
  ASSUME TypedState, NEW w \in Workers, ClaimNext(w)
  PROVE  ClaimStep(w) /\ Others(w)
<1>1. PICK j \in Jobs :
         /\ Claimable(j)
         /\ Update(j, [job[j] EXCEPT !.status = "running", !.owner = w,
                                     !.stale = FALSE])
         /\ Step(w, [pc |-> "check", job |-> j, out |-> "none",
                     stands |-> TRUE])
  BY DEF ClaimNext
<1>2. job'[j].status = "running" /\ job'[j].owner = w
  <2>1. job[j] \in Rows
    BY DEF TypedState
  <2>2. job'[j] = [job[j] EXCEPT !.status = "running", !.owner = w, !.stale = FALSE]
    BY <1>1, RowRead
  <2> QED
    BY <2>1, <2>2 DEF Rows
<1>3. \A i \in Jobs : i # j => job'[i] = job[i]
  BY <1>1, RowRead
<1>4. wk'[w] = [pc |-> "check", job |-> j, out |-> "none", stands |-> TRUE] /\ Others(w)
  BY <1>1, LocalRead DEF Others
<1> QED
  BY <1>1, <1>2, <1>3, <1>4 DEF ClaimStep, Claimable, ClaimNext

\* What the two moves of a worker within its execution write.
LEMMA GotoMove ==
  ASSUME TypedState, NEW w \in Workers, NEW pc, Goto(w, pc)
  PROVE  /\ wk'[w].pc = pc /\ wk'[w].job = wk[w].job
         /\ wk'[w].stands = wk[w].stands /\ Others(w)
<1>1. wk[w] \in Locals
  BY DEF TypedState, TypedLocals
<1> QED
  BY <1>1, LocalRead DEF Goto, Others, Locals

\* What a worker that ends its execution writes to its locals.
LEMMA FinishMove ==
  ASSUME TypedState, NEW w \in Workers, NEW out, Finish(w, out)
  PROVE  /\ wk'[w].pc = "settle" /\ wk'[w].job = wk[w].job
         /\ wk'[w].stands = wk[w].stands /\ Others(w)
<1>1. wk[w] \in Locals
  BY DEF TypedState, TypedLocals
<1>2. wk'[w] = [wk[w] EXCEPT !.pc = "settle", !.out = out] /\ Others(w)
  BY LocalRead DEF Finish, Others
<1> QED
  BY <1>1, <1>2 DEF Locals

\* Such a move that leaves the jobs table alone.
LEMMA QuietMove ==
  ASSUME NEW w \in Workers, wk[w].pc \in Executing, UNCHANGED job,
         wk'[w].job = wk[w].job, wk'[w].stands = wk[w].stands,
         wk'[w].pc \in Executing \ {"check"},
         wk'[w].pc = "work" => wk[w].pc = "check"
  PROVE  MoveStep(w) /\ wk[w].pc \notin Idle
  BY DEF MoveStep, Kept, Executing, Idle

\* Every step of a worker that executes a job stays within that job: status and
\* owner of its row change only under the ownership guard.
LEMMA BusySteps ==
  ASSUME TypedState, NEW w \in Workers,
         \/ SeesCancel(w) \/ Begins(w) \/ Executes(w) \/ Publishes(w)
         \/ Raises(w) \/ Advances(w) \/ Settles(w) \/ WritesErrorCode(w)
         \/ AfterTerminal(w) \/ Crash(w)
  PROVE  BusyStep(w) /\ Others(w)
<1>0. wk[w] \in Locals /\ \A j \in Jobs : job[j] \in Rows
  BY DEF TypedState, TypedLocals
<1>1. CASE SeesCancel(w)
  BY <1>1, FinishMove, QuietMove DEF SeesCancel, BusyStep, CommitStep, Executing
<1>2. CASE Begins(w)
  BY <1>2, GotoMove, QuietMove DEF Begins, BusyStep, CommitStep, Executing
<1>3. CASE Executes(w)
  <2>1. MoveStep(w) /\ Others(w) /\ wk'[w].pc = "publish"
    BY <1>3, GotoMove, QuietMove DEF Executes, Executing
  <2>2. CommitStep(w)
    BY <1>3, <2>1 DEF Executes, CommitStep
  <2> QED
    BY <1>3, <2>1, <2>2 DEF Executes, BusyStep, Idle
<1>4. CASE Publishes(w)
  BY <1>4, FinishMove, QuietMove DEF Publishes, BusyStep, CommitStep, Executing
<1>5. CASE Raises(w)
  BY <1>5, FinishMove, QuietMove DEF Raises, BusyStep, CommitStep, Executing
<1>6. CASE Advances(w)
  <2>1. wk[w].job \in Jobs /\ wk[w].job \in Runs /\ wk[w].pc = "check"
    BY <1>6, BusyHasJob DEF Advances, Idle
  <2>2. ASSUME NEW out \in {"success", "failed"}, Finish(w, out), UNCHANGED job
        PROVE  MoveStep(w) /\ Others(w)
    BY <2>1, <2>2, FinishMove, QuietMove DEF Executing
  <2>3. ASSUME Update(wk[w].job, IF Owns(w, wk[w].job) THEN Freed(job[wk[w].job])
                                 ELSE job[wk[w].job]),
               Step(w, NoJob)
        PROVE  MoveStep(w) /\ Others(w)
    <3>1. wk'[w].pc \in Idle /\ wk'[w].pc \notin Executing /\ Others(w)
      BY <2>3, LocalRead DEF NoJob, Idle, Executing, Others
    <3>2. CASE Owns(w, wk[w].job)
      BY <1>0, <2>1, <2>3, <3>1, <3>2, RowRead, FreedRead DEF MoveStep, Kept
    <3>3. CASE ~Owns(w, wk[w].job)
      <4>1. job' = job
        BY <2>1, <2>3, <3>3 DEF Update, TypedState
      <4> QED
        BY <3>1, <4>1 DEF MoveStep, Kept
    <3> QED
      BY <3>1, <3>2, <3>3
  <2> QED
    BY <1>6, <2>1, <2>2, <2>3 DEF Advances, BusyStep, CommitStep, Idle
<1>7. CASE Settles(w)
  <2>1. wk[w].job \in Jobs /\ wk[w].out \in Terminal /\ wk[w].pc = "settle"
    BY <1>7 DEF Settles, TypedState, TypedLocals, Idle
  <2>2. /\ wk'[w].pc \in {"code", "after"} /\ wk'[w].job = wk[w].job
        /\ wk'[w].stands = wk[w].stands /\ Others(w)
    BY <1>7, GotoMove DEF Settles
  <2>3. CASE Owns(w, wk[w].job)
    BY <1>0, <1>7, <2>1, <2>2, <2>3, RowRead, SettledRead
    DEF Settles, BusyStep, MoveStep, CommitStep, Kept, Executing, Idle
  <2>4. CASE ~Owns(w, wk[w].job)
    <3>1. job' = job
      BY <1>7, <2>1, <2>4 DEF Settles, Update, TypedState
    <3> QED
      BY <1>7, <2>1, <2>2, <3>1
      DEF Settles, BusyStep, MoveStep, CommitStep, Kept, Executing, Idle
  <2> QED
    BY <2>3, <2>4
<1>8. CASE WritesErrorCode(w)
  <2>1. wk[w].job \in Jobs /\ wk[w].pc = "code"
    BY <1>8, BusyHasJob DEF WritesErrorCode, Idle
  <2>2. /\ wk'[w].pc = "after" /\ wk'[w].job = wk[w].job
        /\ wk'[w].stands = wk[w].stands /\ Others(w)
    BY <1>8, GotoMove DEF WritesErrorCode
  <2>3. \A j \in Jobs : Kept(j)
    <3>1. job'[wk[w].job] = [job[wk[w].job] EXCEPT
                               !.code = @ \/ job[wk[w].job].status = "failed"]
      BY <1>8, <2>1, RowRead DEF WritesErrorCode
    <3>2. Kept(wk[w].job)
      BY <1>0, <2>1, <3>1 DEF Rows, Kept
    <3> QED
      BY <1>8, <2>1, <3>2, RowRead DEF WritesErrorCode, Kept
  <2> QED
    BY <1>8, <2>1, <2>2, <2>3
    DEF WritesErrorCode, BusyStep, MoveStep, CommitStep, Executing, Idle
<1>9. CASE AfterTerminal(w) \/ Crash(w)
  <2>1. /\ Step(w, NoJob) /\ UNCHANGED <<job, applied>>
        /\ wk[w].pc \notin Idle
    BY <1>9 DEF AfterTerminal, Crash, Idle
  <2>2. wk'[w].pc \in Idle /\ Others(w)
    BY <2>1, LocalRead DEF NoJob, Idle, Others
  <2> QED
    BY <2>1, <2>2 DEF BusyStep, MoveStep, CommitStep, Kept
<1> QED
  BY <1>1, <1>2, <1>3, <1>4, <1>5, <1>6, <1>7, <1>8, <1>9

\* Every step is of one of five kinds.
LEMMA StepKinds ==
  ASSUME TypedState, [Next]_vars
  PROVE  \/ \E j \in Jobs : /\ RowStep(j)
                            /\ \A i \in Jobs : i # j => job'[i] = job[i]
                            /\ UNCHANGED <<wk, applied>>
         \/ \E w \in Workers : ReapStaleRunningJobs(w)
         \/ \E w \in Workers : ClaimStep(w) /\ Others(w)
         \/ \E w \in Workers : BusyStep(w) /\ Others(w)
         \/ \E w \in Workers : /\ wk[w].pc \in Idle /\ wk'[w].pc \in Idle
                               /\ Others(w) /\ UNCHANGED <<job, applied>>
         \/ UNCHANGED <<job, wk, applied>>
<1>1. ASSUME NEW w \in Workers, ClaimNothing(w)
      PROVE  /\ wk[w].pc \in Idle /\ wk'[w].pc \in Idle
             /\ Others(w) /\ UNCHANGED <<job, applied>>
  BY <1>1, GotoMove DEF ClaimNothing, Idle
<1>2. ASSUME NEW w \in Workers, Heartbeat(w)
      PROVE  \E j \in Jobs : /\ RowStep(j)
                             /\ \A i \in Jobs : i # j => job'[i] = job[i]
                             /\ UNCHANGED <<wk, applied>>
  <2>1. wk[w].job \in Jobs /\ job[wk[w].job] \in Rows
    BY <1>2, BusyHasJob DEF Heartbeat
  <2>2. /\ job'[wk[w].job] = [job[wk[w].job] EXCEPT !.stale = FALSE]
        /\ \A i \in Jobs : i # wk[w].job => job'[i] = job[i]
    BY <1>2, <2>1, RowRead DEF Heartbeat
  <2>3. Kept(wk[w].job)
    BY <2>1, <2>2 DEF Kept, Rows
  <2> QED
    BY <1>2, <2>1, <2>2, <2>3 DEF Heartbeat, RowStep
<1>3. CASE UNCHANGED vars
  BY <1>3 DEF vars
<1>4. CASE \E j \in Jobs : \/ Enqueue(j) \/ RequestCancel(j) \/ CancelPendingJob(j)
                           \/ RetryWorkflowNode(j) \/ HeartbeatLapses(j)
  BY <1>4, RowSteps
<1>5. CASE \E w \in Workers : WorkerStep(w) \/ Heartbeat(w) \/ Crash(w)
  <2>1. PICK w \in Workers : WorkerStep(w) \/ Heartbeat(w) \/ Crash(w)
    BY <1>5
  <2>2. ClaimNext(w) => ClaimStep(w) /\ Others(w)
    BY ClaimSteps
  <2>3. \/ SeesCancel(w) \/ Begins(w) \/ Executes(w) \/ Publishes(w)
        \/ Raises(w) \/ Advances(w) \/ Settles(w) \/ WritesErrorCode(w)
        \/ AfterTerminal(w) \/ Crash(w)
        => BusyStep(w) /\ Others(w)
    BY BusySteps
  <2> QED
    BY <1>1, <1>2, <2>1, <2>2, <2>3 DEF WorkerStep
<1> QED
  BY <1>3, <1>4, <1>5 DEF Next

\* No worker executes anything in the initial state.
LEMMA InitOwner == Init => OwnerHoldsTheClaim
  BY DEF Init, OwnerHoldsTheClaim, NoJob

\* Every step keeps the owner's claim: only claim_next makes an owner, and
\* whatever takes a claim away (the reaper) takes the row away with it.
LEMMA StepOwner ==
  TypedState /\ OwnerHoldsTheClaim /\ [Next]_vars => OwnerHoldsTheClaim'
<1> SUFFICES ASSUME TypedState, OwnerHoldsTheClaim, [Next]_vars,
                    NEW v \in Workers,
                    wk'[v].pc \in Executing, Owns(v, wk[v].job)'
             PROVE  wk'[v].stands
  BY DEF OwnerHoldsTheClaim, Executing
<1>0. \A w \in Workers : wk[w].pc \notin Idle => wk[w].job \in Jobs
  BY DEF TypedState, TypedLocals
<1>1. wk[v].pc \in Executing /\ Owns(v, wk[v].job) => wk[v].stands
  BY DEF OwnerHoldsTheClaim, Executing
<1>2. ASSUME NEW j \in Jobs, RowStep(j), \A i \in Jobs : i # j => job'[i] = job[i],
             UNCHANGED <<wk, applied>>
      PROVE  wk'[v].stands
  BY <1>0, <1>1, <1>2 DEF RowStep, Kept, Owns, Executing, Idle
<1>3. ASSUME NEW w \in Workers, ReapStaleRunningJobs(w) PROVE wk'[v].stands
  <2>1. v # w
    BY <1>3, ReapStep DEF Executing
  <2>2. wk'[v].pc = wk[v].pc /\ wk'[v].job = wk[v].job /\ wk[v].job \in Jobs
    BY <1>0, <1>3, <2>1, ReapStep DEF Executing, Idle
  <2>3. ~Stale(wk[v].job) /\ job'[wk[v].job] = job[wk[v].job]
    BY <1>3, <2>2, ReapStep DEF Owns
  <2> QED
    BY <1>1, <1>3, <2>1, <2>2, <2>3, ReapStep DEF Owns
<1>4. ASSUME NEW w \in Workers, ClaimStep(w), Others(w) PROVE wk'[v].stands
  <2>1. CASE v = w
    BY <1>4, <2>1 DEF ClaimStep
  <2>2. CASE v # w
    BY <1>0, <1>1, <1>4, <2>2 DEF ClaimStep, Others, Owns, Executing, Idle
  <2> QED
    BY <2>1, <2>2
<1>5. ASSUME NEW w \in Workers, BusyStep(w), Others(w) PROVE wk'[v].stands
  <2>1. /\ wk'[v].job = wk[v].job /\ (wk'[v].stands <=> wk[v].stands)
        /\ wk[v].pc \in Executing
    BY <1>5 DEF BusyStep, MoveStep, Others, Executing, Idle
  <2>2. Owns(v, wk[v].job)
    <3>1. wk[v].job \in Jobs
      BY <1>0, <2>1 DEF Executing, Idle
    <3>2. Kept(wk[v].job) \/ job'[wk[v].job].status \in Terminal \cup {"pending"}
      BY <1>5, <3>1 DEF BusyStep, MoveStep
    <3> QED
      BY <2>1, <3>2 DEF Owns, Kept, Terminal
  <2> QED
    BY <1>1, <2>1, <2>2
<1>6. ASSUME NEW w \in Workers, wk'[w].pc \in Idle, Others(w), UNCHANGED job
      PROVE  wk'[v].stands
  BY <1>1, <1>6 DEF Others, Owns, Executing, Idle
<1>7. CASE UNCHANGED <<job, wk, applied>>
  BY <1>1, <1>7 DEF Owns
<1> QED
  BY <1>2, <1>3, <1>4, <1>5, <1>6, <1>7, StepKinds

\* The jobs table names a worker as running owner only while the claim that
\* worker executes stands.
THEOREM OwnerCorrect == Spec => []OwnerHoldsTheClaim
<1>1. Init => TypedState /\ OwnerHoldsTheClaim
  BY InitTyped, InitOwner
<1>2. TypedState /\ OwnerHoldsTheClaim /\ [Next]_vars
      => (TypedState /\ OwnerHoldsTheClaim)'
  BY StepTyped, StepOwner
<1> QED
  BY <1>1, <1>2, PTL DEF Spec

\* A step of a worker whose claim was taken leaves the row alone, because the
\* row does not name it as the running owner.
LEMMA StepFenced == TypedState /\ OwnerHoldsTheClaim /\ [Next]_vars => FencedStep
<1> SUFFICES ASSUME TypedState, OwnerHoldsTheClaim, [Next]_vars,
                    NEW v \in Workers,
                    wk[v].pc \in {"check", "settle"}, wk'[v].pc # wk[v].pc,
                    ~wk[v].stands
             PROVE  job'[wk[v].job] = job[wk[v].job]
  BY DEF FencedStep
<1>1. ~Owns(v, wk[v].job)
  BY DEF OwnerHoldsTheClaim
<1>2. ASSUME NEW w \in Workers, ReapStaleRunningJobs(w) PROVE FALSE
  BY <1>2, ReapStep
<1>3. ASSUME NEW w \in Workers, ClaimStep(w), Others(w) PROVE FALSE
  BY <1>3 DEF ClaimStep, Others
<1>4. ASSUME NEW w \in Workers, BusyStep(w), Others(w)
      PROVE  job'[wk[v].job] = job[wk[v].job]
  BY <1>1, <1>4 DEF BusyStep, MoveStep, Others
<1>5. ASSUME NEW w \in Workers, wk[w].pc \in Idle, Others(w) PROVE FALSE
  BY <1>5 DEF Others, Idle
<1> QED
  BY <1>2, <1>3, <1>4, <1>5, StepKinds

\* No step replaces an outcome, except the retry of a failed node.
LEMMA StepFinal == TypedState /\ [Next]_vars => FinalStep
<1> SUFFICES ASSUME TypedState, [Next]_vars PROVE FinalStep
  OBVIOUS
<1>1. ASSUME NEW j \in Jobs, RowStep(j), \A i \in Jobs : i # j => job'[i] = job[i]
      PROVE  FinalStep
  BY <1>1 DEF FinalStep, RowStep, Kept, Terminal
<1>2. ASSUME NEW w \in Workers, ReapStaleRunningJobs(w) PROVE FinalStep
  BY <1>2, ReapStep DEF FinalStep, Stale, Terminal
<1>3. ASSUME NEW w \in Workers, ClaimStep(w) PROVE FinalStep
  BY <1>3 DEF FinalStep, ClaimStep, Terminal
<1>4. ASSUME NEW w \in Workers, BusyStep(w) PROVE FinalStep
  <2> SUFFICES ASSUME NEW j \in Jobs, job[j].status \in Terminal
               PROVE  job'[j].status = job[j].status
    BY DEF FinalStep
  <2>1. Kept(j) \/ Owns(w, j)
    BY <1>4 DEF BusyStep, MoveStep
  <2> QED
    BY <2>1 DEF Kept, Owns, Terminal
<1>5. UNCHANGED job => FinalStep
  BY DEF FinalStep
<1> QED
  BY <1>1, <1>2, <1>3, <1>4, <1>5, StepKinds

\* A job's row is changed by who may, for any number of workers and jobs: a
\* worker whose claim the reaper took changes nothing with its terminal write
\* or its yield, and a recorded outcome is reopened only by a node's retry.
THEOREM QueueOutcomesStand == Spec => OutcomesStand
<1>1. TypedState /\ OwnerHoldsTheClaim /\ [Next]_vars => [FencedStep /\ FinalStep]_vars
  BY StepFenced, StepFinal
<1>2. Spec => [](TypedState /\ OwnerHoldsTheClaim)
  <2>1. Init => TypedState /\ OwnerHoldsTheClaim
    BY InitTyped, InitOwner
  <2>2. TypedState /\ OwnerHoldsTheClaim /\ [Next]_vars
        => (TypedState /\ OwnerHoldsTheClaim)'
    BY StepTyped, StepOwner
  <2> QED
    BY <2>1, <2>2, PTL DEF Spec
<1> QED
  BY <1>1, <1>2, PTL DEF Spec, OutcomesStand

----------------------------------------------------------------------------
(* A write submitted to the queue is committed at most once.  The inductive *)
(* invariant follows the one execution such a job can have: before it is    *)
(* claimed nobody executes it and nothing was applied; it is executed by    *)
(* one worker at most, which has applied nothing until it is past "work".   *)

Direct == Writes \ Nodes

On(w, j) == wk[w].pc \notin Idle /\ wk[w].job = j

BeforeClaim ==
    \A j \in Direct : job[j].status \in {"absent", "pending"} =>
       applied[j] = 0 /\ \A w \in Workers : ~On(w, j)

OneExecutor ==
    \A j \in Direct : \A v, w \in Workers : On(v, j) /\ On(w, j) => v = w

NotYetApplied ==
    \A j \in Direct : \A w \in Workers :
       On(w, j) /\ wk[w].pc \in {"check", "work"} => applied[j] = 0

WriteInv ==
    BeforeClaim /\ OneExecutor /\ NotYetApplied /\ DirectWriteOnce

\* Nothing is committed in the initial state.
LEMMA InitWrite == Init => WriteInv
  BY QueueAssumption
  DEF Init, WriteInv, BeforeClaim, OneExecutor, NotYetApplied, DirectWriteOnce,
      Direct, On, NoJob, Idle

\* WriteInv for one job: it depends on that job's row, on its counter and on
\* the workers that execute it.
WriteInvOf(j) ==
    /\ job[j].status \in {"absent", "pending"} =>
          applied[j] = 0 /\ \A w \in Workers : ~On(w, j)
    /\ \A v, w \in Workers : On(v, j) /\ On(w, j) => v = w
    /\ \A w \in Workers :
          On(w, j) /\ wk[w].pc \in {"check", "work"} => applied[j] = 0
    /\ applied[j] <= 1

\* The invariant of the writes speaks of each direct write on its own.
LEMMA WritePerJob == WriteInv <=> \A j \in Direct : WriteInvOf(j)
  BY DEF WriteInv, WriteInvOf, BeforeClaim, OneExecutor, NotYetApplied,
         DirectWriteOnce, Direct

\* Every step keeps the invariant of the writes.
LEMMA StepWrite == TypedState /\ WriteInv /\ [Next]_vars => WriteInv'
<1> SUFFICES ASSUME TypedState, [Next]_vars, NEW j \in Direct, WriteInvOf(j)
             PROVE  WriteInvOf(j)'
  BY WritePerJob
  DEF WriteInv, WriteInvOf, BeforeClaim, OneExecutor, NotYetApplied,
      DirectWriteOnce, Direct
<1>0. /\ j \in Jobs /\ j \notin Runs /\ j \notin Nodes /\ j \in Writes
      /\ SqlWriteFlag(j) /\ applied[j] \in Nat
  BY QueueAssumption DEF Direct, SqlWriteFlag, TypedState
<1>1. ASSUME job'[j].status \in {"absent", "pending"} =>
                job[j].status \in {"absent", "pending"},
             \A w \in Workers : wk'[w].pc = wk[w].pc /\ wk'[w].job = wk[w].job,
             UNCHANGED applied
      PROVE  WriteInvOf(j)'
  BY <1>1 DEF WriteInvOf, On
<1>2. ASSUME NEW i \in Jobs, RowStep(i), \A k \in Jobs : k # i => job'[k] = job[k],
             UNCHANGED <<wk, applied>>
      PROVE  WriteInvOf(j)'
  BY <1>0, <1>1, <1>2 DEF RowStep, Kept
<1>3. ASSUME NEW w \in Workers, ReapStaleRunningJobs(w) PROVE WriteInvOf(j)'
  <2>1. job'[j].status \in {"absent", "pending"} =>
           job[j].status \in {"absent", "pending"}
    BY <1>0, <1>3, ReapStep
  <2>2. \A v \in Workers : On(v, j)' <=> On(v, j)
    BY <1>3, ReapStep DEF On, Idle
  <2>3. \A v \in Workers : On(v, j) => wk'[v].pc = wk[v].pc
    BY <1>3, ReapStep DEF On, Idle
  <2>4. UNCHANGED applied
    BY <1>3, ReapStep
  <2> QED
    BY <2>1, <2>2, <2>3, <2>4 DEF WriteInvOf
<1>4. ASSUME NEW w \in Workers, ClaimStep(w), Others(w) PROVE WriteInvOf(j)'
  <2>1. PICK i \in Jobs :
           /\ job[i].status = "pending" /\ job'[i].status = "running"
           /\ \A k \in Jobs : k # i => job'[k] = job[k]
           /\ wk'[w].pc = "check" /\ wk'[w].job = i
    BY <1>4 DEF ClaimStep
  <2>2. UNCHANGED applied /\ \A v \in Workers : v # w => wk'[v] = wk[v]
    BY <1>4 DEF ClaimStep, Others
  <2>3. CASE i = j
    BY <1>0, <2>1, <2>2, <2>3 DEF WriteInvOf, On, Idle
  <2>4. CASE i # j
    <3>1. ~On(w, j)' /\ job'[j] = job[j]
      BY <1>0, <2>1, <2>4 DEF On
    <3> QED
      BY <2>2, <3>1 DEF WriteInvOf, On
  <2> QED
    BY <2>3, <2>4
<1>5. ASSUME NEW w \in Workers, BusyStep(w), Others(w) PROVE WriteInvOf(j)'
  <2>1. job'[j].status \in {"absent", "pending"} =>
           job[j].status \in {"absent", "pending"}
    BY <1>0, <1>5 DEF BusyStep, MoveStep, Kept, Terminal
  <2>2. On(w, j)' => /\ On(w, j)
                     /\ wk'[w].pc # "check"
                     /\ wk'[w].pc = "work" => wk[w].pc = "check"
    BY <1>5 DEF BusyStep, MoveStep, On
  <2>3. \A v \in Workers : v # w => wk'[v] = wk[v]
    BY <1>5 DEF Others
  <2>4. CASE applied'[j] = applied[j]
    BY <2>1, <2>2, <2>3, <2>4 DEF WriteInvOf, On
  <2>5. CASE applied'[j] # applied[j]
    <3>1. On(w, j) /\ wk[w].pc = "work" /\ applied'[j] = applied[j] + 1
      BY <1>0, <1>5, <2>5 DEF BusyStep, CommitStep, On, Idle, TypedState
    <3>2. wk'[w].pc = "publish"
      BY <1>5, <2>5 DEF BusyStep, CommitStep
    <3>3. applied[j] = 0 /\ job[j].status \notin {"absent", "pending"}
      BY <3>1 DEF WriteInvOf
    <3> QED
      BY <1>0, <2>1, <2>2, <2>3, <3>1, <3>2, <3>3 DEF WriteInvOf, On
  <2> QED
    BY <2>4, <2>5
<1>6. ASSUME NEW w \in Workers, wk'[w].pc \in Idle, Others(w),
             UNCHANGED <<job, applied>>
      PROVE  WriteInvOf(j)'
  BY <1>6 DEF WriteInvOf, On, Others
<1>7. CASE UNCHANGED <<job, wk, applied>>
  BY <1>7 DEF WriteInvOf, On
<1> QED
  BY <1>2, <1>3, <1>4, <1>5, <1>6, <1>7, StepKinds

\* A write statement submitted to the queue is committed at most once, for any
\* number of workers, crashes, stalls and retries.
THEOREM DirectWritesOnce == Spec => []DirectWriteOnce
<1>1. Init => TypedState /\ WriteInv
  BY InitTyped, InitWrite
<1>2. TypedState /\ WriteInv /\ [Next]_vars => (TypedState /\ WriteInv)'
  BY StepTyped, StepWrite
<1>3. WriteInv => DirectWriteOnce
  BY DEF WriteInv
<1> QED
  BY <1>1, <1>2, <1>3, PTL DEF Spec

\* The queue's tables and its workers agree on who holds a job, and a write
\* statement is not repeated: all of QueueInv, for any jobs, workers and budgets.
THEOREM QueueIsSafe == Spec => []QueueInv
BY TypeCorrect, OwnerCorrect, DirectWritesOnce, PTL DEF QueueInv
----------------------------------------------------------------------------
(* The contract.  A lease is a claim that stands; LeaseHolds is the         *)
(* converse of OwnerHoldsTheClaim: the row of a job whose claim stands      *)
(* names the claim's worker, so nobody else can claim, settle or withdraw   *)
(* it.                                                                      *)

Holding(w) == wk[w].pc \in Executing /\ wk[w].stands

LeaseHolds == \A w \in Workers : Holding(w) => Owns(w, wk[w].job)

\* No claim stands in the initial state.
LEMMA InitLease == Init => LeaseHolds
  BY DEF Init, LeaseHolds, Holding, NoJob

\* Every step keeps the rows of the standing claims: the API and the advancer
\* change only rows that nobody executes, the reaper ends the claims whose rows
\* it takes, and a worker writes under the ownership guard.
LEMMA StepLease == TypedState /\ LeaseHolds /\ [Next]_vars => LeaseHolds'
<1> SUFFICES ASSUME TypedState, LeaseHolds, [Next]_vars,
                    NEW v \in Workers, wk'[v].pc \in Executing, wk'[v].stands
             PROVE  Owns(v, wk[v].job)'
  BY DEF LeaseHolds, Holding
<1>0. \A w \in Workers : wk[w].pc \notin Idle => wk[w].job \in Jobs
  BY DEF TypedState, TypedLocals
<1>1. wk[v].pc \in Executing /\ wk[v].stands => Owns(v, wk[v].job)
  BY DEF LeaseHolds, Holding
<1>2. ASSUME NEW j \in Jobs, RowStep(j), \A i \in Jobs : i # j => job'[i] = job[i],
             UNCHANGED <<wk, applied>>
      PROVE  Owns(v, wk[v].job)'
  BY <1>0, <1>1, <1>2 DEF RowStep, Kept, Owns, Executing, Idle
<1>3. ASSUME NEW w \in Workers, ReapStaleRunningJobs(w) PROVE Owns(v, wk[v].job)'
  <2>1. v # w
    BY <1>3, ReapStep DEF Executing
  <2>2. wk'[v].pc = wk[v].pc /\ wk'[v].job = wk[v].job /\ wk[v].job \in Jobs
    BY <1>0, <1>3, <2>1, ReapStep DEF Executing, Idle
  <2>3. wk[v].stands /\ ~Stale(wk[v].job) /\ job'[wk[v].job] = job[wk[v].job]
    BY <1>3, <2>1, <2>2, ReapStep
  <2> QED
    BY <1>1, <2>2, <2>3 DEF Owns
<1>4. ASSUME NEW w \in Workers, ClaimStep(w), Others(w) PROVE Owns(v, wk[v].job)'
  <2>1. CASE v = w
    BY <1>4, <2>1 DEF ClaimStep, Owns
  <2>2. CASE v # w
    BY <1>0, <1>1, <1>4, <2>2 DEF ClaimStep, Others, Owns, Executing, Idle
  <2> QED
    BY <2>1, <2>2
<1>5. ASSUME NEW w \in Workers, BusyStep(w), Others(w) PROVE Owns(v, wk[v].job)'
  <2>1. /\ wk'[v].job = wk[v].job /\ wk[v].stands /\ wk[v].pc \in Executing
    BY <1>5 DEF BusyStep, MoveStep, Others, Executing, Idle
  <2>2. Owns(v, wk[v].job) /\ wk[v].job \in Jobs
    BY <1>0, <1>1, <2>1 DEF Executing, Idle
  <2>3. Kept(wk[v].job)
    <3>1. CASE v = w
      BY <1>5, <2>2, <3>1 DEF BusyStep, MoveStep
    <3>2. CASE v # w
      BY <1>5, <2>2, <3>2 DEF BusyStep, MoveStep, Owns
    <3> QED
      BY <3>1, <3>2
  <2> QED
    BY <2>1, <2>2, <2>3 DEF Owns, Kept
<1>6. ASSUME NEW w \in Workers, wk'[w].pc \in Idle, Others(w), UNCHANGED job
      PROVE  Owns(v, wk[v].job)'
  BY <1>1, <1>6 DEF Others, Owns, Executing, Idle
<1>7. CASE UNCHANGED <<job, wk, applied>>
  BY <1>1, <1>7 DEF Owns
<1> QED
  BY <1>2, <1>3, <1>4, <1>5, <1>6, <1>7, StepKinds

Phase == [j \in Jobs |-> job[j].status]

\* Who holds a lease: one per worker, on the job it executes.
LEMMA LeaseIs ==
  ASSUME NEW w \in Workers, NEW j
  PROVE  <<w, j>> \in Leases <=> Holding(w) /\ wk[w].job = j
  BY DEF Leases, Holding, Executing

\* The leases after a step in which only one worker moved.
LEMMA LeasesAfter ==
  ASSUME NEW w \in Workers, Others(w)
  PROVE  /\ ~Holding(w) /\ Holding(w)' => Leases' = Leases \cup {<<w, wk'[w].job>>}
         /\ Holding(w) /\ ~Holding(w)' => Leases' = Leases \ {<<w, wk[w].job>>}
         /\ (Holding(w)' <=> Holding(w)) /\ (Holding(w) => wk'[w].job = wk[w].job)
            => Leases' = Leases
<1>1. \A v \in Workers : v # w => (Holding(v)' <=> Holding(v)) /\ wk'[v].job = wk[v].job
  BY DEF Others, Holding
<1>2. Leases = {<<v, wk[v].job>> : v \in {u \in Workers : Holding(u)}}
  BY DEF Leases, Holding, Executing
<1>3. Leases' = {<<v, wk'[v].job>> : v \in {u \in Workers : Holding(u)'}}
  BY DEF Leases, Holding, Executing
<1>4. ASSUME ~Holding(w), Holding(w)' PROVE Leases' = Leases \cup {<<w, wk'[w].job>>}
  BY <1>1, <1>2, <1>3, <1>4
<1>5. ASSUME Holding(w), ~Holding(w)'
      PROVE  Leases' = Leases \ {<<w, wk[w].job>>}
  BY <1>1, <1>2, <1>3, <1>5
<1>6. ASSUME Holding(w)' <=> Holding(w), Holding(w) => wk'[w].job = wk[w].job
      PROVE  Leases' = Leases
  BY <1>1, <1>2, <1>3, <1>6
<1> QED
  BY <1>4, <1>5, <1>6
\* The row of phase that changed.
LEMMA PhaseAfter ==
  ASSUME NEW j \in Jobs, \A i \in Jobs : i # j => job'[i].status = job[i].status
  PROVE  Phase' = [Phase EXCEPT ![j] = job'[j].status]
  BY DEF Phase

\* Every step of the queue is a step of the contract, or changes nothing a
\* submitter or a worker sees.
LEMMA StepImplements ==
  TypedState /\ OwnerHoldsTheClaim /\ LeaseHolds /\ [Next]_vars
  => [Lifecycle!LifecycleNext]_<<Phase, Leases>>
<1> SUFFICES ASSUME TypedState, OwnerHoldsTheClaim, LeaseHolds, [Next]_vars,
                    ~UNCHANGED <<Phase, Leases>>
             PROVE  Lifecycle!LifecycleNext
  OBVIOUS
<1>0. \A w \in Workers : Holding(w) => wk[w].job \in Jobs
  BY DEF TypedState, TypedLocals, Holding, Executing, Idle
<1>1. ASSUME NEW j \in Jobs, RowStep(j), \A i \in Jobs : i # j => job'[i] = job[i],
             UNCHANGED <<wk, applied>>
      PROVE  Lifecycle!LifecycleNext
  <2>1. Leases' = Leases
    BY <1>1 DEF Leases
  <2>2. Phase' = [Phase EXCEPT ![j] = job'[j].status] /\ Phase[j] = job[j].status
    BY <1>1, PhaseAfter DEF Phase
  <2>3. ~Kept(j)
    BY <2>1, <2>2 DEF Kept, Phase
  <2>4. Lifecycle!Submit(j) \/ Lifecycle!Withdraw(j) \/ Lifecycle!Reopen(j)
    BY <1>1, <2>1, <2>2, <2>3
    DEF RowStep, Lifecycle!Submit, Lifecycle!Withdraw, Lifecycle!Reopen,
        Lifecycle!Become, Phase
  <2> QED
    BY <2>4 DEF Lifecycle!LifecycleNext, Phase
<1>2. ASSUME NEW w \in Workers, ReapStaleRunningJobs(w)
      PROVE  Lifecycle!LifecycleNext
  <2>0. PICK js \in SUBSET Jobs : js = {j \in Jobs : Stale(j)}
    OBVIOUS
  <2>1. \A j \in js : Phase[j] = "running" /\ Phase'[j] \in {"pending", "failed"}
    BY <1>2, <2>0, ReapStep DEF Stale, Phase
  <2>2. Phase' = [j \in Jobs |-> IF j \in js THEN Phase'[j] ELSE Phase[j]]
    BY <1>2, <2>0, ReapStep DEF Phase
  <2>3. \A v \in Workers : Holding(v)' <=> Holding(v) /\ wk[v].job \notin js
    <3>1. \A v \in Workers : Holding(v) => (Stale(wk[v].job) <=> wk[v].job \in js)
      BY <1>0, <2>0
    <3> QED
      BY <1>2, <3>1, ReapStep DEF Holding, Executing
  <2>4. \A v \in Workers : Holding(v) => wk'[v].job = wk[v].job
    BY <1>2, ReapStep DEF Holding, Executing
  <2>5. Leases' = {l \in Leases : l[2] \notin js}
    <3>1. Leases = {<<v, wk[v].job>> : v \in {u \in Workers : Holding(u)}}
      BY DEF Leases, Holding, Executing
    <3>2. Leases' = {<<v, wk'[v].job>> : v \in {u \in Workers : Holding(u)'}}
      BY DEF Leases, Holding, Executing
    <3> QED
      BY <2>3, <2>4, <3>1, <3>2
  <2>6. CASE js = {}
    BY <2>2, <2>5, <2>6 DEF Phase, Leases
  <2>7. CASE js # {}
    <3>1. Lifecycle!GiveUpOn(js)
      BY <2>1, <2>2, <2>5, <2>7 DEF Lifecycle!GiveUpOn, Phase
    <3> QED
      BY <3>1 DEF Lifecycle!LifecycleNext, Phase
  <2> QED
    BY <2>6, <2>7
<1>3. ASSUME NEW w \in Workers, ClaimStep(w), Others(w)
      PROVE  Lifecycle!LifecycleNext
  <2>1. PICK j \in Jobs :
           /\ job[j].status = "pending" /\ job'[j].status = "running"
           /\ \A i \in Jobs : i # j => job'[i] = job[i]
           /\ wk'[w].pc = "check" /\ wk'[w].job = j /\ wk'[w].stands
    BY <1>3 DEF ClaimStep
  <2>2. ~Holding(w) /\ Holding(w)'
    BY <1>3, <2>1 DEF ClaimStep, Holding, Executing
  <2>3. Leases' = Leases \cup {<<w, j>>}
    BY <1>3, <2>1, <2>2, LeasesAfter
  <2>4. Phase' = [Phase EXCEPT ![j] = "running"] /\ Phase[j] = "pending"
    BY <2>1, PhaseAfter DEF Phase
  <2>5. {l \in Leases : l[1] = w} = {}
    BY <2>2 DEF Leases, Holding, Executing
  <2>6. {l \in Leases : l[2] = j} = {}
    BY <2>1 DEF Leases, LeaseHolds, Holding, Executing, Owns
  <2>7. Lifecycle!Take(w, j)
    BY <2>3, <2>4, <2>5, <2>6
    DEF Lifecycle!Take, Lifecycle!Become, Lifecycle!LeasesOf, Lifecycle!LeasesOn, Phase
  <2> QED
    BY <2>7 DEF Lifecycle!LifecycleNext, Phase
<1>4. ASSUME NEW w \in Workers, BusyStep(w), Others(w)
      PROVE  Lifecycle!LifecycleNext
  <2>0. PICK j \in Jobs : j = wk[w].job
    BY <1>4, BusyHasJob DEF BusyStep
  <2>1. CASE \A i \in Jobs : Kept(i)
    <3>1. Phase' = Phase
      BY <2>1 DEF Phase, Kept
    <3>2. Holding(w)' => Holding(w) /\ wk'[w].job = wk[w].job
      BY <1>4 DEF BusyStep, MoveStep, Holding, Executing, Idle
    <3>3. Holding(w) /\ ~Holding(w)'
      BY <1>4, <3>1, <3>2, LeasesAfter
    <3>4. <<w, j>> \in Leases /\ Leases' = Leases \ {<<w, j>>} 
      BY <1>4, <2>0, <3>3, LeasesAfter, LeaseIs
    <3>5. Lifecycle!Lose(w, j)
      BY <3>1, <3>4 DEF Lifecycle!Lose, Phase
    <3> QED
      BY <3>4, <3>5 DEF Lifecycle!LifecycleNext, Phase
  <2>2. CASE ~\A i \in Jobs : Kept(i)
    <3>1. /\ Owns(w, j)
          /\ job'[j].status \in Terminal \/ (job'[j].status = "pending" /\ j \in Runs)
          /\ wk[w].pc \in Executing /\ wk'[w].pc \notin Executing
          /\ \A i \in Jobs : i # j => Kept(i)
      BY <1>4, <2>0, <2>2 DEF BusyStep, MoveStep, Executing
    <3>2. Holding(w) /\ ~Holding(w)'
      BY <2>0, <3>1 DEF OwnerHoldsTheClaim, Holding, Executing
    <3>3. <<w, j>> \in Leases /\ Leases' = Leases \ {<<w, j>>}
      BY <1>4, <2>0, <3>2, LeasesAfter, LeaseIs
    <3>4. Phase' = [Phase EXCEPT ![j] = job'[j].status] /\ Phase[j] = "running"
      BY <3>1, PhaseAfter DEF Phase, Owns, Kept
    <3>5. CASE job'[j].status \in Terminal
      <4>1. Lifecycle!Settle(w, j, job'[j].status)
        BY <3>3, <3>4 DEF Lifecycle!Settle, Lifecycle!Become, Phase
      <4> QED
        BY <3>1, <3>5, <4>1 DEF Lifecycle!LifecycleNext, Phase, Terminal
    <3>6. CASE job'[j].status = "pending" /\ j \in Runs
      <4>1. Lifecycle!Yield(w, j)
        BY <3>3, <3>4, <3>6 DEF Lifecycle!Yield, Lifecycle!Become, Phase
      <4> QED
        BY <3>1, <4>1 DEF Lifecycle!LifecycleNext, Phase
    <3> QED
      BY <3>1, <3>5, <3>6
  <2> QED
    BY <2>1, <2>2
<1>5. ASSUME NEW w \in Workers, wk[w].pc \in Idle, wk'[w].pc \in Idle, Others(w),
             UNCHANGED job
      PROVE  FALSE
  <2>1. Leases' = Leases
    BY <1>5, LeasesAfter DEF Holding, Executing, Idle
  <2> QED
    BY <1>5, <2>1 DEF Phase
<1>6. CASE UNCHANGED <<job, wk, applied>>
  BY <1>6 DEF Phase, Leases
<1> QED
  BY <1>1, <1>2, <1>3, <1>4, <1>5, <1>6, StepKinds

\* Nothing is submitted and nobody holds a lease in the initial state.
LEMMA InitImplements == Init => Lifecycle!LifecycleInit
  BY DEF Init, Lifecycle!LifecycleInit, Leases, NoJob

\* The queue's guarded updates and heartbeats implement exclusive leases, for
\* any jobs, workers and budgets: the contract of JobLifecycle is kept by every
\* step of every worker, of the reaper, of the API and of the advancer.
THEOREM QueueImplementsLifecycle == Spec => ImplementsLifecycle
<1>1. Init => TypedState /\ OwnerHoldsTheClaim /\ LeaseHolds
  BY InitTyped, InitOwner, InitLease
<1>2. TypedState /\ OwnerHoldsTheClaim /\ LeaseHolds /\ [Next]_vars
      => (TypedState /\ OwnerHoldsTheClaim /\ LeaseHolds)'
  BY StepTyped, StepOwner, StepLease
<1>3. Spec => [](TypedState /\ OwnerHoldsTheClaim /\ LeaseHolds)
  BY <1>1, <1>2, PTL DEF Spec
<1>4. Spec => [][Lifecycle!LifecycleNext]_<<Phase, Leases>>
  BY <1>3, StepImplements, PTL DEF Spec
<1> QED
  BY <1>4, InitImplements, PTL DEF Spec, ImplementsLifecycle, Lifecycle!LifecycleSpec, Phase

----------------------------------------------------------------------------
(* One call on a database: the inductive invariant.                          *)

Outcomes == {"none", "ok", "failed", "cancelled", "timeout", "abandoned", "unknown",
             "unsupported", "connection_failed"}
Places == {"start", "connected", "executing", "fetching", "executed", "committing", "ended"}
AdapterCalls == [op : Operations \union {"none"}, pc : Places, outcome : Outcomes, armed : BOOLEAN]
Statements == [status : {"none", "running", "finished", "failed"}, effect : {"none", "pending", "applied"}]

AdapterShape ==
    /\ dialect \in Dialects /\ cancel \in BOOLEAN /\ made \in 0..MaxCalls /\ shared \in 0..2
    /\ watcher \in {"off", "watching", "blind", "cancelling", "cancelled", "powerless"}
    /\ call \in AdapterCalls /\ server \in Statements
    /\ open \in [own : BOOLEAN, shared : BOOLEAN]

(* What the database may have done of a write that nobody committed.         *)
CommitsItself(op) == op = "ddl" /\ WritesOf(dialect).implicitly

Uncommitted(op) == server.effect # "applied" \/ CommitsItself(op)

(* The statement at each place of the call.                                  *)
StatementIs ==
    /\ server.status = "running" => call.pc = "executing"
    /\ call.pc \in {"start", "connected"} => server.effect = "none"
    /\ call.pc \in {"executed", "committing"} => call.op \in WriteOps
    /\ call.pc = "fetching" => call.op \notin WriteOps
    /\ Active => Uncommitted(call.op) /\ call.outcome = "none"

(* What is said of a call that has ended.                                    *)
ReportIs ==
    /\ call.outcome = "cancelled" => cancel
    /\ ~Active /\ call.op \in WriteOps =>
          /\ call.outcome = "ok" => server.effect = "applied"
          /\ call.outcome \in {"cancelled", "failed", "connection_failed"} =>
                server.effect = "none" \/ CommitsItself(call.op)

(* Nobody is cancelled unasked, and no connection is left open.              *)
WatcherIs == watcher \in {"cancelling", "cancelled", "powerless"} => cancel
OpenIs == (~Active => ~open.own) /\ (open.shared <=> shared > 0)

AdapterIInv == AdapterShape /\ StatementIs /\ ReportIs /\ WatcherIs /\ OpenIs

(* What a call, its statement and its connections become.                    *)
LEMMA MovedCall ==
    ASSUME NEW c \in AdapterCalls, NEW p \in Places
    PROVE  /\ [c EXCEPT !.pc = p] \in AdapterCalls
           /\ [c EXCEPT !.pc = p].pc = p /\ [c EXCEPT !.pc = p].op = c.op
           /\ [c EXCEPT !.pc = p].outcome = c.outcome
  BY DEF AdapterCalls

LEMMA EndedCall ==
    ASSUME NEW o \in Outcomes, call \in AdapterCalls, open \in [own : BOOLEAN, shared : BOOLEAN], EndCall(o)
    PROVE  /\ call' \in AdapterCalls /\ call'.pc = "ended" /\ call'.outcome = o /\ call'.op = call.op
           /\ open' \in [own : BOOLEAN, shared : BOOLEAN] /\ ~open'.own /\ open'.shared = open.shared
  <1>1. /\ call' \in AdapterCalls /\ call'.pc = "ended" /\ call'.outcome = o /\ call'.op = call.op
    BY DEF EndCall, AdapterCalls, Places
  <1>2. /\ open' \in [own : BOOLEAN, shared : BOOLEAN] /\ open'.own = FALSE /\ open'.shared = open.shared
    BY DEF EndCall, CloseOwn
  <1> QED  BY <1>1, <1>2

LEMMA Rolled ==
    ASSUME NEW s \in Statements
    PROVE  /\ RolledBack(s) \in Statements
           /\ RolledBack(s).effect = IF s.effect = "pending" THEN "none" ELSE s.effect
           /\ s.status # "running" => RolledBack(s).status = "none"
  BY DEF RolledBack, Statements

(* A call ends with an outcome that says what was done.                      *)
LEMMA EndKeeps ==
    ASSUME AdapterIInv, NEW o \in Outcomes, EndCall(o), UNCHANGED <<dialect, cancel, made, shared>>,
           watcher' \in {"off", "watching", "blind", "cancelling", "cancelled", "powerless"}, WatcherIs',
           server' \in Statements, server'.status # "running",
           o = "cancelled" => cancel,
           call.op \in WriteOps =>
               /\ o = "ok" => server'.effect = "applied"
               /\ o \in {"cancelled", "failed", "connection_failed"} =>
                     server'.effect = "none" \/ CommitsItself(call.op)
    PROVE  AdapterIInv'
  <1> USE DEF AdapterIInv
  <1>1. /\ call' \in AdapterCalls /\ call'.pc = "ended" /\ call'.outcome = o /\ call'.op = call.op
        /\ open' \in [own : BOOLEAN, shared : BOOLEAN] /\ ~open'.own /\ open'.shared = open.shared
    BY EndedCall DEF AdapterShape
  <1>2. AdapterShape'
    BY <1>1 DEF AdapterShape
  <1>3. StatementIs' /\ OpenIs'
    BY <1>1 DEF StatementIs, OpenIs, Active
  <1>4. ReportIs'
    BY <1>1 DEF ReportIs, CommitsItself
  <1> QED  BY <1>2, <1>3, <1>4

(* A call is rolled back on its way out.                                     *)
LEMMA RaiseKeeps ==
    ASSUME AdapterIInv, NEW o \in Outcomes, Raise(o), Active, server.status # "running",
           UNCHANGED <<dialect, cancel, made, shared>>,
           watcher' \in {"off", "watching", "blind", "cancelling", "cancelled", "powerless"}, WatcherIs',
           o = "cancelled" => cancel, o = "ok" => call.op \notin WriteOps
    PROVE  AdapterIInv'
  <1>1. /\ RolledBack(server) \in Statements /\ RolledBack(server).status = "none"
        /\ RolledBack(server).effect = IF server.effect = "pending" THEN "none" ELSE server.effect
    BY Rolled DEF AdapterIInv, AdapterShape
  <1>2. server' = RolledBack(server) /\ EndCall(o)
    BY DEF Raise
  <1>3. server'.effect = "none" \/ CommitsItself(call.op)
    BY <1>1, <1>2 DEF AdapterIInv, AdapterShape, StatementIs, Uncommitted, Statements
  <1> QED  BY <1>1, <1>2, <1>3, EndKeeps

(* The call goes on, and the database has done nothing more.                 *)
LEMMA GoesOn ==
    ASSUME AdapterIInv, NEW p \in Places \ {"ended"}, Active, call' = [call EXCEPT !.pc = p],
           UNCHANGED <<dialect, cancel, made, shared, open, server>>,
           watcher' \in {"off", "watching", "blind", "cancelling", "cancelled", "powerless"}, WatcherIs',
           server.status = "running" => p = "executing",
           p \in {"executed", "committing"} => call.op \in WriteOps,
           p = "fetching" => call.op \notin WriteOps,
           p \in {"start", "connected"} => server.effect = "none"
    PROVE  AdapterIInv'
  <1> USE DEF AdapterIInv
  <1>1. /\ call' \in AdapterCalls /\ call'.pc = p /\ call'.op = call.op /\ call'.outcome = call.outcome
    BY MovedCall DEF AdapterShape
  <1>2. AdapterShape' /\ OpenIs'
    BY <1>1 DEF AdapterShape, OpenIs, Active
  <1>3. StatementIs' /\ ReportIs'
    BY <1>1 DEF StatementIs, ReportIs, Active, Uncommitted, CommitsItself
  <1> QED  BY <1>2, <1>3

(* The statement moves on while the call waits for it.                       *)
LEMMA ServerMoves ==
    ASSUME AdapterIInv, server' \in Statements, call.pc = "executing",
           UNCHANGED <<dialect, cancel, made, shared, open, call>>, Uncommitted(call.op)',
           watcher' \in {"off", "watching", "blind", "cancelling", "cancelled", "powerless"}, WatcherIs'
    PROVE  AdapterIInv'
  <1> USE DEF AdapterIInv
  <1>1. AdapterShape' /\ OpenIs'
    BY DEF AdapterShape, OpenIs, Active
  <1>2. StatementIs' /\ ReportIs'
    BY DEF StatementIs, ReportIs, Active, Uncommitted, CommitsItself
  <1> QED  BY <1>1, <1>2

(* Steps of the call.                                                        *)
LEMMA BeginSound ==
    ASSUME AdapterIInv, NEW op \in Operations, Begin(op)
    PROVE  AdapterIInv'
  <1> USE DEF AdapterIInv
  <1> DEFINE refused == [NewCall(op) EXCEPT !.pc = "ended", !.outcome = "unsupported"]
  <1>1. /\ server' = NoStatement /\ watcher' = "off" /\ made < MaxCalls /\ made' = made + 1 /\ ~Active
        /\ UNCHANGED <<dialect, shared, open, cancel>>
        /\ call' = NewCall(op) \/ (op = "explain" /\ call' = refused)
    BY DEF Begin
  <1>2. NewCall(op) \in AdapterCalls /\ NewCall(op).pc = "start" /\ NewCall(op).outcome = "none" /\ NewCall(op).op = op
    BY DEF NewCall, AdapterCalls, Places, Outcomes
  <1>3. refused \in AdapterCalls /\ refused.pc = "ended" /\ refused.outcome = "unsupported" /\ refused.op = op
    BY DEF NewCall, AdapterCalls, Places, Outcomes
  <1>4. NoStatement \in Statements /\ NoStatement.status = "none" /\ NoStatement.effect = "none"
    BY DEF NoStatement, Statements
  <1> HIDE DEF refused
  <1>5. call' \in AdapterCalls /\ call'.op = op
    BY <1>1, <1>2, <1>3
  <1>6. \/ call'.pc = "start" /\ call'.outcome = "none"
        \/ call'.pc = "ended" /\ call'.outcome = "unsupported" /\ op = "explain"
    BY <1>1, <1>2, <1>3
  <1>7. made' \in 0..MaxCalls
    BY <1>1, AdapterBounds DEF AdapterShape
  <1>8. AdapterShape'
    BY <1>1, <1>4, <1>5, <1>7 DEF AdapterShape
  <1>9. StatementIs' /\ ReportIs' /\ WatcherIs' /\ OpenIs'
    BY <1>1, <1>4, <1>5, <1>6 DEF StatementIs, ReportIs, WatcherIs, OpenIs, Active, Uncommitted, WriteOps
  <1> QED  BY <1>8, <1>9

LEMMA ConnectSound ==
    ASSUME AdapterIInv, ConnectCall
    PROVE  AdapterIInv'
  <1> USE DEF AdapterIInv
  <1>1. /\ call.pc = "start" /\ UNCHANGED <<dialect, server, watcher, shared, cancel, made>>
    BY DEF ConnectCall
  <1>2. /\ server.effect = "none" /\ server.status # "running" /\ call.outcome = "none"
    BY <1>1 DEF StatementIs, Active
  <1>3. CASE /\ open' = CloseOwn(open) /\ call' = [call EXCEPT !.pc = "ended", !.outcome = "connection_failed"]
    <2>1. EndCall("connection_failed") /\ "connection_failed" \in Outcomes
      BY <1>3 DEF EndCall, Outcomes
    <2>2. server' \in Statements /\ WatcherIs' /\ watcher' \in {"off", "watching", "blind", "cancelling", "cancelled", "powerless"}
      BY <1>1 DEF AdapterShape, WatcherIs
    <2> QED  BY <1>1, <1>2, <2>1, <2>2, EndKeeps
  <1>4. ASSUME NEW a \in BOOLEAN, call' = [call EXCEPT !.pc = "connected", !.armed = a],
               open' = open \/ open' = [open EXCEPT !.own = TRUE]
        PROVE  AdapterIInv'
    <2>1. call' \in AdapterCalls /\ call'.pc = "connected" /\ call'.op = call.op /\ call'.outcome = "none"
      BY <1>2, <1>4 DEF AdapterShape, AdapterCalls, Places
    <2>2. open' \in [own : BOOLEAN, shared : BOOLEAN] /\ open'.shared = open.shared
      BY <1>4 DEF AdapterShape
    <2>3. AdapterShape' /\ OpenIs' /\ WatcherIs'
      BY <1>1, <2>1, <2>2 DEF AdapterShape, OpenIs, WatcherIs, Active
    <2>4. StatementIs' /\ ReportIs'
      BY <1>1, <1>2, <2>1 DEF StatementIs, ReportIs, Active, Uncommitted
    <2> QED  BY <2>3, <2>4
  <1>5. \/ open' = CloseOwn(open) /\ call' = [call EXCEPT !.pc = "ended", !.outcome = "connection_failed"]
        \/ \E a \in BOOLEAN : /\ call' = [call EXCEPT !.pc = "connected", !.armed = a]
                              /\ open' = open \/ open' = [open EXCEPT !.own = TRUE]
    BY DEF ConnectCall, Connects, ConnectFails
  <1> QED  BY <1>3, <1>4, <1>5

LEMMA ExecuteSound ==
    ASSUME AdapterIInv, Execute
    PROVE  AdapterIInv'
  <1> USE DEF AdapterIInv
  <1>1. /\ call.pc = "connected" /\ call' = [call EXCEPT !.pc = "executing"]
        /\ server' = [status |-> "running", effect |-> IF call.op \in WriteOps THEN "pending" ELSE "none"]
        /\ watcher' \in {"watching", "off"}
        /\ UNCHANGED <<dialect, shared, open, cancel, made>>
    BY DEF Execute
  <1>2. call' \in AdapterCalls /\ call'.pc = "executing" /\ call'.op = call.op /\ call'.outcome = "none"
    BY <1>1, MovedCall DEF AdapterShape, StatementIs, Active, Places
  <1>3. server' \in Statements /\ server'.effect # "applied"
    BY <1>1 DEF Statements
  <1>4. AdapterShape' /\ OpenIs' /\ WatcherIs'
    BY <1>1, <1>2, <1>3 DEF AdapterShape, OpenIs, WatcherIs, Active
  <1>5. StatementIs' /\ ReportIs'
    BY <1>1, <1>2, <1>3 DEF StatementIs, ReportIs, Active, Uncommitted
  <1> QED  BY <1>4, <1>5

LEMMA ServerSound ==
    ASSUME AdapterIInv, ServerFinishes \/ TimeoutFires
    PROVE  AdapterIInv'
  <1> USE DEF AdapterIInv
  <1>1. /\ server.status = "running" /\ UNCHANGED <<dialect, call, watcher, shared, open, cancel, made>>
        /\ \/ server' = [status |-> "finished",
                         effect |-> IF call.op = "ddl" /\ WritesOf(dialect).implicitly
                                    THEN "applied" ELSE server.effect]
           \/ server' = [server EXCEPT !.status = "failed"]
    BY DEF ServerFinishes, TimeoutFires
  <1>2. call.pc = "executing" /\ Uncommitted(call.op)
    BY <1>1 DEF StatementIs, Active
  <1>3. server' \in Statements /\ (server'.effect = server.effect \/ CommitsItself(call.op))
    BY <1>1 DEF AdapterShape, Statements, CommitsItself
  <1>4. Uncommitted(call.op)'
    BY <1>1, <1>2, <1>3 DEF Uncommitted, CommitsItself
  <1>5. WatcherIs' /\ watcher' \in {"off", "watching", "blind", "cancelling", "cancelled", "powerless"}
    BY <1>1 DEF AdapterShape, WatcherIs
  <1> QED  BY <1>1, <1>2, <1>3, <1>4, <1>5, ServerMoves

LEMMA WatchSound ==
    ASSUME AdapterIInv, Watch \/ ServerSideCancel
    PROVE  AdapterIInv'
  <1> USE DEF AdapterIInv
  <1>1. /\ UNCHANGED <<dialect, call, shared, open, cancel, made>> /\ cancel
        /\ watcher' \in {"cancelling", "cancelled", "powerless"}
        /\ server' = server \/ (server.status = "running" /\ server' = [server EXCEPT !.status = "failed"])
    BY DEF Watch, ServerSideCancel, WatcherIs
  <1>2. server' \in Statements /\ server'.effect = server.effect
        /\ (server'.status = "running" => server.status = "running")
    BY <1>1 DEF AdapterShape, Statements
  <1>3. AdapterShape' /\ OpenIs' /\ WatcherIs'
    BY <1>1, <1>2 DEF AdapterShape, OpenIs, WatcherIs, Active
  <1>4. StatementIs' /\ ReportIs'
    BY <1>1, <1>2 DEF StatementIs, ReportIs, Active, Uncommitted, CommitsItself
  <1> QED  BY <1>3, <1>4

LEMMA GivesUpSound ==
    ASSUME AdapterIInv, WatcherGivesUp
    PROVE  AdapterIInv'
  <1> USE DEF AdapterIInv
  <1>1. watcher' = "blind" /\ UNCHANGED <<dialect, call, server, shared, open, cancel, made>>
    BY DEF WatcherGivesUp
  <1>2. AdapterShape' /\ OpenIs' /\ WatcherIs'
    BY <1>1 DEF AdapterShape, OpenIs, WatcherIs, Active
  <1>3. StatementIs' /\ ReportIs'
    BY <1>1 DEF StatementIs, ReportIs, Active, Uncommitted, CommitsItself
  <1> QED  BY <1>2, <1>3

LEMMA StoppedIs ==
    ASSUME AdapterIInv, watcher' = Stopped, cancel' = cancel
    PROVE  WatcherIs' /\ watcher' \in {"off", "watching", "blind", "cancelling", "cancelled", "powerless"}
  BY DEF AdapterIInv, AdapterShape, WatcherIs, Stopped

LEMMA RaisesSound ==
    ASSUME AdapterIInv, ExecuteRaises
    PROVE  AdapterIInv'
  <1> DEFINE o == IF CancelSignalled THEN "cancelled" ELSE "failed"
  <1>1. /\ call.pc = "executing" /\ server.status = "failed" /\ Raise(o) /\ watcher' = Stopped
        /\ UNCHANGED <<dialect, shared, cancel, made>>
    BY DEF ExecuteRaises
  <1>2. o \in Outcomes /\ o # "ok" /\ (o = "cancelled" => cancel)
    BY DEF Outcomes, CancelSignalled, AdapterIInv, WatcherIs
  <1> HIDE DEF o
  <1> QED  BY <1>1, <1>2, StoppedIs, RaiseKeeps DEF Active

LEMMA ReturnsSound ==
    ASSUME AdapterIInv, ExecuteReturns
    PROVE  AdapterIInv'
  <1>1. /\ call.pc = "executing" /\ server.status = "finished" /\ watcher' = Stopped
        /\ UNCHANGED <<dialect, shared, cancel, made>>
        /\ \/ call.op = "select" /\ call' = [call EXCEPT !.pc = "fetching"] /\ UNCHANGED <<server, open>>
           \/ call.op \in WriteOps /\ call' = [call EXCEPT !.pc = "executed"] /\ UNCHANGED <<server, open>>
           \/ call.op \notin WriteOps /\ (Raise("ok") \/ Raise("failed"))
    BY DEF ExecuteReturns, Raise
  <1>2. WatcherIs' /\ watcher' \in {"off", "watching", "blind", "cancelling", "cancelled", "powerless"}
    BY <1>1, StoppedIs
  <1>3. CASE call.op = "select" /\ call' = [call EXCEPT !.pc = "fetching"] /\ UNCHANGED <<server, open>>
    <2>1. "fetching" \in Places \ {"ended"} /\ call.op \notin WriteOps
      BY <1>3 DEF Places, WriteOps
    <2> QED  BY <1>1, <1>2, <1>3, <2>1, GoesOn DEF Active
  <1>4. CASE call.op \in WriteOps /\ call' = [call EXCEPT !.pc = "executed"] /\ UNCHANGED <<server, open>>
    <2>1. "executed" \in Places \ {"ended"}
      BY DEF Places
    <2> QED  BY <1>1, <1>2, <1>4, <2>1, GoesOn DEF Active
  <1>5. CASE call.op \notin WriteOps /\ (Raise("ok") \/ Raise("failed"))
    <2>1. "ok" \in Outcomes /\ "failed" \in Outcomes
      BY DEF Outcomes
    <2> QED  BY <1>1, <1>2, <1>5, <2>1, RaiseKeeps DEF Active
  <1> QED  BY <1>1, <1>3, <1>4, <1>5

(* The watcher is left alone.                                                *)
LEMMA WatcherRests ==
    ASSUME AdapterIInv, UNCHANGED <<watcher, cancel>>
    PROVE  WatcherIs' /\ watcher' \in {"off", "watching", "blind", "cancelling", "cancelled", "powerless"}
  BY DEF AdapterIInv, AdapterShape, WatcherIs

LEMMA CheckSound ==
    ASSUME AdapterIInv, CheckWrite
    PROVE  AdapterIInv'
  <1>1. /\ call.pc = "executed" /\ UNCHANGED <<dialect, watcher, shared, cancel, made>>
        /\ \/ call' = [call EXCEPT !.pc = "committing"] /\ UNCHANGED <<server, open>>
           \/ cancel /\ Raise("cancelled")
           \/ Raise("failed")
    BY DEF CheckWrite
  <1>2. call.op \in WriteOps /\ server.status # "running" /\ Active
    BY <1>1 DEF AdapterIInv, StatementIs, Active
  <1>3. "committing" \in Places \ {"ended"} /\ {"cancelled", "failed"} \subseteq Outcomes
    BY DEF Places, Outcomes
  <1>4. CASE call' = [call EXCEPT !.pc = "committing"] /\ UNCHANGED <<server, open>>
    BY <1>1, <1>2, <1>3, <1>4, WatcherRests, GoesOn
  <1>5. CASE cancel /\ Raise("cancelled")
    BY <1>1, <1>2, <1>3, <1>5, WatcherRests, RaiseKeeps
  <1>6. CASE Raise("failed")
    BY <1>1, <1>2, <1>3, <1>6, WatcherRests, RaiseKeeps
  <1> QED  BY <1>1, <1>4, <1>5, <1>6

LEMMA CommitSound ==
    ASSUME AdapterIInv, Commit
    PROVE  AdapterIInv'
  <1>1. /\ call.pc = "committing" /\ UNCHANGED <<dialect, watcher, shared, cancel, made>>
        /\ \/ Raise("failed")
           \/ /\ EndCall("ok") \/ EndCall("unknown")
              /\ server' = [server EXCEPT !.effect = "applied", !.status = "none"]
    BY DEF Commit
  <1>2. server.status # "running" /\ Active
    BY <1>1 DEF AdapterIInv, StatementIs, Active
  <1>3. "failed" \in Outcomes /\ "ok" \in Outcomes /\ "unknown" \in Outcomes
    BY DEF Outcomes
  <1>4. CASE Raise("failed")
    BY <1>1, <1>2, <1>3, <1>4, WatcherRests, RaiseKeeps
  <1>5. CASE /\ EndCall("ok") \/ EndCall("unknown")
             /\ server' = [server EXCEPT !.effect = "applied", !.status = "none"]
    <2>1. server' \in Statements /\ server'.status = "none" /\ server'.effect = "applied"
      BY <1>5 DEF AdapterIInv, AdapterShape, Statements
    <2> QED  BY <1>1, <1>3, <1>5, <2>1, WatcherRests, EndKeeps
  <1> QED  BY <1>1, <1>4, <1>5

LEMMA FetchSound ==
    ASSUME AdapterIInv, FetchBatch \/ ConsumerStops
    PROVE  AdapterIInv'
  <1>1. /\ call.pc = "fetching" /\ UNCHANGED <<dialect, watcher, shared, cancel, made>>
        /\ \/ cancel /\ Raise("cancelled")
           \/ Raise("timeout") \/ Raise("failed") \/ Raise("ok") \/ Raise("abandoned")
    BY DEF FetchBatch, ConsumerStops
  <1>2. call.op \notin WriteOps /\ server.status # "running" /\ Active
    BY <1>1 DEF AdapterIInv, StatementIs, Active
  <1>3. {"cancelled", "timeout", "failed", "ok", "abandoned"} \subseteq Outcomes
    BY DEF Outcomes
  <1>4. PICK o \in {"cancelled", "timeout", "failed", "ok", "abandoned"} : Raise(o) /\ (o = "cancelled" => cancel)
    BY <1>1
  <1> QED  BY <1>1, <1>2, <1>3, <1>4, WatcherRests, RaiseKeeps

LEMMA CancelSound ==
    ASSUME AdapterIInv, CancelEventSet
    PROVE  AdapterIInv'
  BY DEF AdapterIInv, CancelEventSet, AdapterShape, StatementIs, ReportIs, WatcherIs, OpenIs, Active,
         Uncommitted, CommitsItself

(* Scopes of a shared connection, and the hash function.                     *)
LEMMA ScopeSound ==
    ASSUME AdapterIInv, EnterScope \/ ExitScope \/ HashPlan
    PROVE  AdapterIInv'
  <1> USE DEF AdapterIInv
  <1>1. /\ UNCHANGED <<dialect, call, server, watcher, cancel>> /\ ~Active
        /\ \/ /\ shared < 2 /\ shared' = shared + 1 /\ open' = [open EXCEPT !.shared = TRUE] /\ made' = made
           \/ /\ shared > 0 /\ shared' = shared - 1 /\ open' = LeaveScope(open) /\ made' = made
           \/ /\ shared' = shared /\ open' = open /\ made < MaxCalls /\ made' = made + 1
    BY DEF EnterScope, ExitScope, HashPlan
  <1>2. shared' \in 0..2 /\ made' \in 0..MaxCalls
    BY <1>1, AdapterBounds DEF AdapterShape
  <1>3. open' \in [own : BOOLEAN, shared : BOOLEAN] /\ open'.own = open.own
    <2>1. [open EXCEPT !.shared = TRUE] \in [own : BOOLEAN, shared : BOOLEAN] /\ [open EXCEPT !.shared = TRUE].own = open.own
      BY DEF AdapterShape
    <2>2. LeaveScope(open) \in [own : BOOLEAN, shared : BOOLEAN] /\ LeaveScope(open).own = open.own
      BY DEF AdapterShape, LeaveScope
    <2> QED  BY <1>1, <2>1, <2>2 DEF AdapterShape
  <1>4. open'.shared <=> shared' > 0
    <2>1. CASE open' = [open EXCEPT !.shared = TRUE] /\ shared' = shared + 1
      BY <2>1 DEF AdapterShape
    <2>2. CASE shared > 0 /\ open' = LeaveScope(open) /\ shared' = shared - 1
      <3>1. open'.shared <=> (open.shared /\ shared > 1)
        BY <2>2 DEF AdapterShape, LeaveScope
      <3> QED  BY <2>2, <3>1 DEF AdapterShape, OpenIs
    <2>3. CASE shared' = shared /\ open' = open
      BY <2>3 DEF OpenIs
    <2> QED  BY <1>1, <2>1, <2>2, <2>3
  <1>5. AdapterShape' /\ OpenIs' /\ WatcherIs'
    BY <1>1, <1>2, <1>3, <1>4 DEF AdapterShape, OpenIs, WatcherIs, Active
  <1>6. StatementIs' /\ ReportIs'
    BY <1>1 DEF StatementIs, ReportIs, Active, Uncommitted, CommitsItself
  <1> QED  BY <1>5, <1>6

LEMMA AdapterBegins ==
    ASSUME AdapterInit
    PROVE  AdapterIInv
  <1>1. NoCall \in AdapterCalls /\ NoStatement \in Statements
    BY DEF NoCall, NoStatement, AdapterCalls, Statements, Places, Outcomes
  <1>2. AdapterShape
    <2>1. 0 \in 0..MaxCalls
      BY AdapterBounds
    <2>2. open \in [own : BOOLEAN, shared : BOOLEAN]
      BY DEF AdapterInit
    <2>3. call \in AdapterCalls /\ server \in Statements
      BY <1>1 DEF AdapterInit
    <2>4. dialect \in Dialects /\ cancel \in BOOLEAN /\ watcher = "off" /\ shared = 0 /\ made = 0
      BY DEF AdapterInit
    <2> QED  BY <2>1, <2>2, <2>3, <2>4 DEF AdapterShape
  <1>3. StatementIs /\ ReportIs /\ WatcherIs /\ OpenIs
    BY DEF AdapterInit, StatementIs, ReportIs, WatcherIs, OpenIs, NoCall, NoStatement, Active, WriteOps
  <1> QED  BY <1>2, <1>3 DEF AdapterIInv

LEMMA AdapterKept ==
    ASSUME AdapterIInv, [AdapterNext]_adapterVars
    PROVE  AdapterIInv'
  <1>1. CASE UNCHANGED adapterVars
    BY <1>1 DEF adapterVars, AdapterIInv, AdapterShape, StatementIs, ReportIs, WatcherIs, OpenIs, Active,
                Uncommitted, CommitsItself
  <1>2. CASE \E op \in Operations : Begin(op)
    BY <1>2, BeginSound
  <1>3. CASE ConnectCall \/ Execute \/ ServerFinishes \/ TimeoutFires \/ Watch
               \/ WatcherGivesUp \/ ServerSideCancel
    BY <1>3, ConnectSound, ExecuteSound, ServerSound, WatchSound, GivesUpSound
  <1>4. CASE ExecuteRaises \/ ExecuteReturns \/ CheckWrite \/ Commit \/ FetchBatch \/ ConsumerStops
    BY <1>4, RaisesSound, ReturnsSound, CheckSound, CommitSound, FetchSound
  <1>5. CASE CancelEventSet \/ EnterScope \/ ExitScope \/ HashPlan
    BY <1>5, CancelSound, ScopeSound
  <1> QED  BY <1>1, <1>2, <1>3, <1>4, <1>5 DEF AdapterNext

LEMMA AdapterSafe ==
    ASSUME AdapterIInv
    PROVE  AdapterInv
  <1>1. AdapterTypeOK
    BY DEF AdapterIInv, AdapterShape, StatementIs, AdapterTypeOK, AdapterCalls, Statements, Active
  <1>2. ConnectionsReturn
    BY DEF AdapterIInv, OpenIs, ConnectionsReturn
  <1>3. WriteReportHonest /\ OnlyAskedIsCancelled
    BY DEF AdapterIInv, ReportIs, WriteReportHonest, OnlyAskedIsCancelled, CommitsItself
  <1> QED  BY <1>1, <1>2, <1>3 DEF AdapterInv

(* Whatever the dialect, and whichever error, timeout or cancel ends a call: *)
(* its connection is closed with it, a write is reported as done only when   *)
(* it was committed and as undone only when it was not, and only a call that *)
(* was asked to end is called cancelled (the adapters' execute and write     *)
(* paths).                                                                   *)
THEOREM AdapterIsSafe == AdapterSpec => []AdapterInv
  <1>1. AdapterInit => AdapterIInv
    BY AdapterBegins
  <1>2. AdapterIInv /\ [AdapterNext]_adapterVars => AdapterIInv'
    BY AdapterKept
  <1>3. AdapterIInv => AdapterInv
    BY AdapterSafe
  <1> QED  BY <1>1, <1>2, <1>3, PTL DEF AdapterSpec
=============================================================================
