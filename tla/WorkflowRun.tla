---------------------------- MODULE WorkflowRun ----------------------------
(***************************************************************************)
(* One workflow run: the DAG planner (plan_workflow_step in                *)
(* app/domain/workflow_execution.py), the workers that advance the run     *)
(* (_execute_workflow_run in app/worker.py), the API request that cancels  *)
(* it, and the node jobs they enqueue, retry and cancel.                   *)
(*                                                                         *)
(* An advancer reads the node jobs, plans, then writes one row at a time;  *)
(* only its last write is guarded by the ownership of the run.  Meanwhile  *)
(* its claim may be taken (`stands' is FALSE from then on) and another     *)
(* worker may advance the same run.  `late' is a history: a write of an    *)
(* advancer without a standing claim changed a row.                        *)
(*                                                                         *)
(* What happens inside a node job, and its fencing, is module JobQueue.    *)
(***************************************************************************)
EXTENDS Naturals, Sequences, FiniteSets

CONSTANTS
    Nodes,          \* node ids
    Specs,          \* the workflow specs to be run
    Workers,        \* worker ids
    NoWorker,       \* worker_id IS NULL
    ReaperRetries,  \* job_default_max_retries
    MaxFaults       \* bound: crashes and stalls of advancers

(***************************************************************************)
(* A spec: WorkflowSpec with the conditions replaced by their values.      *)
(*   edges  the declared order counts: first match                         *)
(*   eval   evaluate_when of the node and interpolation of its payload:    *)
(*          "run", "skip" (when is false) or "error" (either raises)       *)
(***************************************************************************)
Edge == [src : Nodes, dst : Nodes, trigger : {"success", "failure"},
         when : {"true", "false", "error", "none"}, default : BOOLEAN]

WorkflowSpec == [edges : Seq(Edge), branch : SUBSET Nodes,
          onFailure : [Nodes -> {"abort", "continue", "branch"}],
          eval : [Nodes -> {"run", "skip", "error"}],
          maxRetries : [Nodes -> Nat]]

EdgesOf(sp, n, trigger) ==
    {i \in DOMAIN sp.edges : sp.edges[i].src = n /\ sp.edges[i].trigger = trigger}

\* _validate_first_match_routes: conditions on all but one default.
FirstMatch(sp, is, least) ==
    /\ Cardinality(is) >= least
    /\ \E i \in is : \A j \in is : /\ sp.edges[j].default <=> j = i
                                   /\ sp.edges[j].when = "none" <=> j = i

\* _validate_dag and _validate_node_routes.
ValidSpec(sp) ==
    /\ sp \in WorkflowSpec
    /\ \A i, j \in DOMAIN sp.edges :
          LET d == sp.edges[i]
              e == sp.edges[j]
          IN  i # j => <<d.src, d.dst, d.trigger>> # <<e.src, e.dst, e.trigger>>
    /\ \E rank \in [Nodes -> 1 .. Cardinality(Nodes)] :
          \A i \in DOMAIN sp.edges :
             rank[sp.edges[i].src] < rank[sp.edges[i].dst]
    /\ \A n \in Nodes :
          LET succ == EdgesOf(sp, n, "success")
              fail == EdgesOf(sp, n, "failure")
          IN  /\ IF n \in sp.branch THEN FirstMatch(sp, succ, 2)
                 ELSE \A i \in succ : /\ sp.edges[i].when = "none"
                                      /\ ~sp.edges[i].default
              /\ IF sp.onFailure[n] = "branch" THEN FirstMatch(sp, fail, 1)
                 ELSE fail = {}

ASSUME WorkflowAssumption ==
    /\ IsFiniteSet(Nodes)
    /\ \A sp \in Specs : ValidSpec(sp)
    /\ NoWorker \notin Workers
    /\ ReaperRetries \in Nat
    /\ MaxFaults \in Nat

VARIABLES
    spec,    \* the spec frozen in the run's payload
    run,     \* the run's row
    node,    \* the node jobs' rows
    adv,     \* each worker, as an advancer of the run: its plan
    api,     \* the request cancel_workflow_run
    faults,  \* crashes and stalls so far
    late     \* history, see above

vars == <<spec, run, node, adv, api, faults, late>>

Ended == {"success", "failed", "cancelled"}

Live == {"pending", "running"}

Rows == [status : {"absent"} \cup Live \cup Ended, cancel : BOOLEAN,
         retries : Nat, due : BOOLEAN]      \* due: the backoff has passed

RunRow == [status : Live \cup Ended, owner : Workers \cup {NoWorker},
           cancel : BOOLEAN, error : {"none", "plan", "raised"}]

\* An advancer: the check it is at, and what is left of its plan.
Plan == [pc : {"idle", "list", "check", "apply"}, stands : BOOLEAN,
         enqueue : SUBSET Nodes, retry : SUBSET Nodes, cancel : SUBSET Nodes,
         out : Ended \cup {"none"}, error : {"none", "plan", "raised"}]

NoPlan == [pc |-> "idle", stands |-> FALSE, enqueue |-> {}, retry |-> {},
           cancel |-> {}, out |-> "none", error |-> "none"]

Init ==
    /\ spec \in Specs
    /\ run = [status |-> "pending", owner |-> NoWorker, cancel |-> FALSE,
              error |-> "none"]
    /\ node = [n \in Nodes |-> [status |-> "absent", cancel |-> FALSE,
                                retries |-> 0, due |-> FALSE]]
    /\ adv = [w \in Workers |-> NoPlan]
    /\ api = [pc |-> "idle", todo |-> {}, pending |-> {}]
    /\ faults = 0
    /\ late = FALSE

----------------------------------------------------------------------------
(* plan_workflow_step: a function of the spec and the rows.                 *)

Incoming(n) == {i \in DOMAIN spec.edges : spec.edges[i].dst = n}

\* _selected_route: the first edge whose condition is true, else the default;
\* "error" when a condition before it cannot be evaluated.
Selected(n, trigger) ==
    LET is      == EdgesOf(spec, n, trigger)
        hits    == {i \in is : spec.edges[i].when \in {"true", "error"}}
        default == CHOOSE i \in is : spec.edges[i].default
        first   == CHOOSE i \in hits : \A j \in hits : i <= j
    IN  IF hits = {} THEN spec.edges[default].dst
        ELSE IF spec.edges[first].when = "error" THEN "error"
        ELSE spec.edges[first].dst

State(status) == [status |-> status, inactive |-> FALSE]

\* Mutant of StateFromChild: a cancelled child falls through to running.
StateFromChildNotCancelled(n, row) ==
    CASE row.status \in Live \cup {"cancelled"} -> State("running")
      [] row.status = "failed" /\ row.retries < spec.maxRetries[n] ->
            State("retry_wait")
      [] OTHER -> State(row.status)

\* _state_from_child.  The output check always passes: the worker copies only
\* scalars of the declared fields.
StateFromChild(n, row) ==
    CASE row.status \in Live -> State("running")
      [] row.status = "failed" /\ row.retries < spec.maxRetries[n] ->
            State("retry_wait")
      [] OTHER -> State(row.status)

FinalStates == {"success", "failed", "skipped", "cancelled"}

\* Mutant of EdgeDecision: a branch leads to all its targets.
EdgeDecisionAnyRoute(e, src) ==
    IF src.status \notin FinalStates THEN "waiting"
    ELSE IF src.inactive THEN "inactive"
    ELSE IF e.trigger = "failure"
         THEN IF src.status = "failed" THEN "satisfied" ELSE "inactive"
    ELSE IF src.status = "success" THEN "satisfied"
    ELSE IF src.status = "failed" /\ spec.onFailure[e.src] = "branch"
         THEN "inactive"
    ELSE "blocked"

\* _edge_decision, for the state src of the edge's source.
EdgeDecision(e, src) ==
    IF src.status \notin FinalStates THEN "waiting"
    ELSE IF src.inactive THEN "inactive"
    ELSE IF e.trigger = "failure"
         THEN IF src.status = "failed" /\ Selected(e.src, "failure") = e.dst
              THEN "satisfied" ELSE "inactive"
    ELSE IF e.src \in spec.branch
         THEN IF src.status = "success" /\ Selected(e.src, "success") = e.dst
              THEN "satisfied" ELSE "inactive"
    ELSE IF src.status = "success" THEN "satisfied"
    ELSE IF src.status = "failed" /\ spec.onFailure[e.src] = "branch"
         THEN "inactive"
    ELSE "blocked"

\* A node whose upstream allows it: "ready" is WAITING and to be enqueued.
Evaluated(n) ==
    IF spec.eval[n] = "error" THEN State("failed")
    ELSE IF spec.eval[n] = "skip" THEN State("skipped")
    ELSE IF n \in spec.branch /\ Selected(n, "success") = "error"
         THEN State("failed")
    ELSE State("ready")

Decisions(st, n) ==
    {EdgeDecision(spec.edges[i], st[spec.edges[i].src]) : i \in Incoming(n)}

\* The state of a node, given those of the sources of its edges.
StateOf(rows, st, n) ==
    LET ds == Decisions(st, n)
    IN  IF rows[n].status # "absent" THEN StateFromChild(n, rows[n])
        ELSE IF "waiting" \in ds THEN State("waiting")
        ELSE IF ds = {"inactive"} THEN [status |-> "skipped", inactive |-> TRUE]
        ELSE IF "blocked" \in ds THEN State("skipped")
        ELSE Evaluated(n)

\* The states of all nodes, each after the sources of its edges
\* (_topological_nodes).
NodeStates(rows) ==
    LET St[n \in Nodes] == StateOf(rows, St, n)
    IN  St

StatusOf(rows, n) == NodeStates(rows)[n].status

LiveNodes(rows) == {n \in Nodes : rows[n].status \in Live}

\* _abort_error: a node failed for good that takes the run with it.
Aborts(st) ==
    \E n \in Nodes : spec.onFailure[n] = "abort" /\ st[n].status = "failed"

\* Mutant of Relabelled: a run that failed relabels every node.
RelabelledAll(st, over) ==
    [n \in Nodes |-> IF over THEN State("cancelled") ELSE st[n]]

\* What is not over of a run that is, is called cancelled: by the plan when it
\* aborts, and by the API once the run has failed or was cancelled.
Relabelled(st, over) ==
    [n \in Nodes |-> IF over /\ st[n].status \notin FinalStates
                     THEN State("cancelled") ELSE st[n]]

\* The node_states of the plan.
PlannedStates(rows) ==
    LET st == NodeStates(rows)
    IN  Relabelled(st, Aborts(st))

\* The rest of the plan.
PlanWorkflowStep(rows) ==
    LET st      == NodeStates(rows)
        In(ss)  == {n \in Nodes : st[n].status \in ss}
        aborted == Aborts(st)
        over    == In(FinalStates) = Nodes
    IN  [enqueue |-> IF aborted THEN {} ELSE In({"ready"}),
         retry   |-> IF aborted THEN {}
                     ELSE {n \in In({"retry_wait"}) : rows[n].due},
         cancel  |-> IF aborted THEN LiveNodes(rows) ELSE {},
         out     |-> IF aborted \/ (over /\ In({"failed", "cancelled"}) # {})
                     THEN "failed"
                     ELSE IF over THEN "success" ELSE "none"]

\* _workflow_run_node_items: what the API shows of the nodes.
NodeItems(rows, status) ==
    Relabelled(PlannedStates(rows), status \in {"failed", "cancelled"})

----------------------------------------------------------------------------
(* The advancers: _execute_claimed_job for the run.                         *)

Step(w, local) == adv' = [adv EXCEPT ![w] = local]

\* A write of advancer w to row n; a late one is remembered.
Write(w, n, row) ==
    /\ node' = [node EXCEPT ![n] = row]
    /\ late' = (late \/ (~adv[w].stands /\ row # node[n]))

Claim(w) ==
    /\ adv[w].pc = "idle"
    /\ run.status = "pending"
    /\ run' = [run EXCEPT !.status = "running", !.owner = w]
    /\ Step(w, [NoPlan EXCEPT !.pc = "list", !.stands = TRUE])
    /\ UNCHANGED <<spec, node, api, faults, late>>

\* list_jobs_by_parent, and the plan for the rows it returned.
Lists(w) ==
    /\ adv[w].pc = "list"
    /\ ~run.cancel
    /\ LET plan == PlanWorkflowStep(node)
       IN  Step(w, [pc |-> "check", stands |-> adv[w].stands,
                    enqueue |-> plan.enqueue, retry |-> plan.retry,
                    cancel |-> plan.cancel, out |-> plan.out,
                    error |-> IF plan.out = "failed" THEN "plan" ELSE "none"])
    /\ UNCHANGED <<spec, run, node, api, faults, late>>

\* _check_cancel once more, after the rows were read.
Checks(w) ==
    /\ adv[w].pc = "check"
    /\ ~run.cancel
    /\ Step(w, [adv[w] EXCEPT !.pc = "apply"])
    /\ UNCHANGED <<spec, run, node, api, faults, late>>

\* JobCancelled, by either check: _cancel_workflow_children reads the rows
\* again and cancels the live ones, then mark_cancelled.
Propagates(w) ==
    /\ adv[w].pc \in {"list", "check"}
    /\ run.cancel
    /\ Step(w, [NoPlan EXCEPT !.pc = "apply", !.stands = adv[w].stands,
                              !.cancel = LiveNodes(node), !.out = "cancelled"])
    /\ UNCHANGED <<spec, run, node, api, faults, late>>

\* enqueue; the unique index on run and node makes a second one a no-op.
EnqueueNode(w, n) ==
    /\ adv[w].pc = "apply"
    /\ n \in adv[w].enqueue
    /\ Write(w, n, IF node[n].status = "absent"
                   THEN [node[n] EXCEPT !.status = "pending"] ELSE node[n])
    /\ Step(w, [adv[w] EXCEPT !.enqueue = @ \ {n}])
    /\ UNCHANGED <<spec, run, api, faults>>

RetryNode(w, n) ==
    /\ adv[w].pc = "apply"
    /\ adv[w].enqueue = {}
    /\ n \in adv[w].retry
    /\ Write(w, n, IF node[n].status = "failed"
                   THEN [node[n] EXCEPT !.status = "pending", !.due = FALSE,
                                        !.retries = @ + 1]
                   ELSE node[n])
    /\ Step(w, [adv[w] EXCEPT !.retry = @ \ {n}])
    /\ UNCHANGED <<spec, run, api, faults>>

\* request_cancel, then cancel_pending_job: a claim of the job between the two
\* leaves what a claim before them leaves, so they are one step.
Cancelled(row) ==
    [row EXCEPT !.cancel = TRUE,
                !.status = IF @ = "pending" THEN "cancelled" ELSE @]

CancelNode(w, n) ==
    /\ adv[w].pc = "apply"
    /\ n \in adv[w].cancel
    /\ Write(w, n, Cancelled(node[n]))
    /\ Step(w, [adv[w] EXCEPT !.cancel = @ \ {n}])
    /\ UNCHANGED <<spec, run, api, faults>>

Applied(w) ==
    /\ adv[w].pc = "apply"
    /\ adv[w].enqueue = {} /\ adv[w].retry = {} /\ adv[w].cancel = {}

Owns(w) == run.status = "running" /\ run.owner = w

\* requeue_workflow_run: the run goes back to the queue.
Yields(w) ==
    /\ Applied(w)
    /\ adv[w].out = "none"
    /\ run' = IF Owns(w) THEN [run EXCEPT !.status = "pending",
                                          !.owner = NoWorker]
              ELSE run
    /\ Step(w, NoPlan)
    /\ UNCHANGED <<spec, node, api, faults, late>>

\* complete, fail, mark_cancelled.
Settles(w) ==
    /\ Applied(w)
    /\ adv[w].out # "none"
    /\ run' = IF Owns(w)
              THEN [run EXCEPT !.status = adv[w].out, !.error = adv[w].error,
                               !.cancel = @ \/ adv[w].out = "cancelled"]
              ELSE run
    /\ Step(w, NoPlan)
    /\ UNCHANGED <<spec, node, api, faults, late>>

\* Any other exception of the advancer (building a payload, a failing
\* statement): what is left of the plan is dropped and the run is failed.
Raises(w) ==
    /\ adv[w].pc \in {"list", "check", "apply"}
    /\ adv[w].out # "cancelled"
    /\ adv[w].error # "raised"
    /\ Step(w, [NoPlan EXCEPT !.pc = "apply", !.stands = adv[w].stands,
                              !.out = "failed", !.error = "raised"])
    /\ UNCHANGED <<spec, run, node, api, faults, late>>

Advances(w) ==
    \/ Claim(w) \/ Lists(w) \/ Checks(w) \/ Propagates(w)
    \/ \E n \in Nodes : EnqueueNode(w, n) \/ RetryNode(w, n) \/ CancelNode(w, n)
    \/ Yields(w) \/ Settles(w)

----------------------------------------------------------------------------
(* The rest of the queue.                                                   *)

\* Nobody executes the run's row.
Orphaned == \A w \in Workers : adv[w].pc # "idle" => ~adv[w].stands

\* The reaper takes a run whose heartbeat stopped: its worker is gone or, at
\* the cost of a fault, stalled.
ReapRun ==
    /\ run.status = "running"
    /\ Orphaned \/ faults < MaxFaults
    /\ run' = [run EXCEPT !.status = "pending", !.owner = NoWorker]
    /\ adv' = [w \in Workers |-> [adv[w] EXCEPT !.stands = FALSE]]
    /\ faults' = IF Orphaned THEN faults ELSE faults + 1
    /\ UNCHANGED <<spec, node, api, late>>

Crash(w) ==
    /\ adv[w].pc # "idle"
    /\ faults < MaxFaults
    /\ Step(w, NoPlan)
    /\ faults' = faults + 1
    /\ UNCHANGED <<spec, run, node, api, late>>

NodeMoves(n, row) ==
    /\ node' = [node EXCEPT ![n] = row]
    /\ UNCHANGED <<spec, run, adv, api, faults, late>>

NodeStarts(n) ==
    /\ node[n].status = "pending"
    /\ NodeMoves(n, [node[n] EXCEPT !.status = "running"])

\* A cancel is noticed at the job's start or between batches, or too late.
NodeEnds(n) ==
    /\ node[n].status = "running"
    /\ \E out \in Ended :
          /\ out = "cancelled" => node[n].cancel
          /\ NodeMoves(n, [node[n] EXCEPT !.status = out])

\* The node's worker lost its heartbeat.
NodeReaped(n) ==
    /\ node[n].status = "running"
    /\ NodeMoves(n, IF node[n].retries < ReaperRetries
                    THEN [node[n] EXCEPT !.status = "pending",
                                         !.retries = @ + 1]
                    ELSE [node[n] EXCEPT !.status = "failed"])

BackoffPasses(n) ==
    /\ node[n].status = "failed"
    /\ ~node[n].due
    /\ NodeMoves(n, [node[n] EXCEPT !.due = TRUE])

\* cancel_job on one node.  It may be a failed one that will be retried; on a
\* node that succeeded or was cancelled the flag is never read again.
\* (cancel_job on the run is a CancelWorkflowRun that gets no further than
\* ApiCancelsRun.)
CancelJob(n) ==
    /\ node[n].status \in Live \cup {"failed"}
    /\ ~node[n].cancel
    /\ NodeMoves(n, [node[n] EXCEPT !.cancel = TRUE])

\* cancel_workflow_run: one read of run and nodes, then a write at a time.
CancelWorkflowRun ==
    /\ api.pc = "idle"
    /\ run.status \in Live
    /\ api' = [pc |-> "run", todo |-> LiveNodes(node),
               pending |-> {n \in Nodes : node[n].status = "pending"}]
    /\ UNCHANGED <<spec, run, node, adv, faults, late>>

ApiCancelsRun ==
    /\ api.pc = "run"
    /\ run' = [run EXCEPT !.cancel = TRUE]
    /\ api' = [api EXCEPT !.pc = "nodes"]
    /\ UNCHANGED <<spec, node, adv, faults, late>>

ApiCancelsNode(n) ==
    /\ api.pc = "nodes"
    /\ n \in api.todo
    /\ node' = [node EXCEPT ![n] = IF n \in api.pending THEN Cancelled(@)
                                   ELSE [@ EXCEPT !.cancel = TRUE]]
    /\ api' = [api EXCEPT !.todo = @ \ {n}]
    /\ UNCHANGED <<spec, run, adv, faults, late>>

Next ==
    \/ \E w \in Workers : Advances(w) \/ Raises(w) \/ Crash(w)
    \/ ReapRun
    \/ \E n \in Nodes : \/ NodeStarts(n) \/ NodeEnds(n) \/ NodeReaped(n)
                        \/ BackoffPasses(n) \/ CancelJob(n)
    \/ CancelWorkflowRun \/ ApiCancelsRun
    \/ \E n \in Nodes : ApiCancelsNode(n)

Spec == Init /\ [][Next]_vars

\* Workers poll, nodes finish, backoffs pass, an abandoned run is reaped.
Fairness ==
    /\ \A w \in Workers : WF_vars(Advances(w))
    /\ WF_vars(Orphaned /\ ReapRun)
    /\ \A n \in Nodes : /\ WF_vars(NodeStarts(n)) /\ WF_vars(NodeEnds(n))
                        /\ WF_vars(BackoffPasses(n))

FairSpec == Spec /\ Fairness

----------------------------------------------------------------------------
(* Properties.                                                              *)

\* Every row, plan and request has its type.
TypeOK ==
    /\ spec \in Specs
    /\ run \in RunRow
    /\ node \in [Nodes -> Rows]
    /\ adv \in [Workers -> Plan]
    /\ api \in [pc : {"idle", "run", "nodes"}, todo : SUBSET Nodes,
                pending : SUBSET Nodes]
    /\ faults \in 0 .. MaxFaults
    /\ late \in BOOLEAN

\* No node is left to run: every node succeeded, or was skipped by its own
\* condition, behind a skipped node or on a route that was not taken.
AllDone ==
    \A n \in Nodes :
       \/ node[n].status = "success"
       \/ /\ node[n].status = "absent"
          /\ \/ spec.eval[n] = "skip"
             \/ \E i \in Incoming(n) :
                   LET e == spec.edges[i]
                   IN  \/ node[e.src].status = "absent"
                       \/ e.trigger = "failure"
                       \/ e.src \in spec.branch /\ Selected(e.src, "success") # n

\* A run that succeeded has no node left to run, now or later.  (An advancer
\* that lost its claim is not kept from enqueueing: after a retry by one, a
\* plan by another may start a compensation behind the success.)
SuccessMeansDone == run.status = "success" /\ ~late => AllDone

\* A node is enqueued only after its upstream is over for good, and never
\* behind an ordinary dependency that failed or was cancelled.
UpstreamFirst ==
    ~late =>
       \A n \in Nodes : \A i \in Incoming(n) :
          LET e == spec.edges[i]
              m == node[e.src]
          IN  node[n].status # "absent" =>
                 /\ m.status \notin Live
                 /\ m.status = "failed" => /\ m.retries >= spec.maxRetries[e.src]
                                           /\ \/ e.src \in spec.branch
                                              \/ spec.onFailure[e.src] = "branch"
                 /\ m.status = "cancelled" => \/ e.src \in spec.branch
                                              \/ e.trigger = "failure"

\* Of the nodes reached from m alone, those of different routes (success and
\* compensation, two targets of a branch) never both run.
RoutesExclusive ==
    ~late =>
       \A i, j \in DOMAIN spec.edges :
          LET d == spec.edges[i]
              e == spec.edges[j]
          IN  /\ d.src = e.src
              /\ d.dst # e.dst
              /\ Incoming(d.dst) = {i} /\ Incoming(e.dst) = {j}
              /\ \/ d.trigger # e.trigger
                 \/ d.trigger = "failure"
                 \/ d.src \in spec.branch
              => "absent" \in {node[d.dst].status, node[e.dst].status}

\* When the run is over by its plan or by a cancel, no node goes on unasked:
\* the ones that were live have been told to stop.
NoOrphans ==
    run.status \in Ended /\ run.error # "raised" /\ ~late =>
       \A n \in LiveNodes(node) : node[n].cancel

\* What the API shows of a node as over is never shown as going on again, and
\* is never taken back.  The exception is a node shown as cancelled because its
\* run was over before it was: it may still show how it did end (a node that
\* was running when another one aborted the run succeeds, say).
DecisionsStand ==
    [][~late' => \A n \in Nodes :
          LET old == NodeItems(node, run.status)[n].status
              new == NodeItems(node', run'.status)[n].status
          IN  old \in FinalStates =>
                 /\ new \in FinalStates
                 /\ old # "cancelled" \/ node[n].status = "cancelled" => new = old
      ]_<<node, run>>

\* A run ends: nodes that finish, backoffs that pass and workers that poll
\* are enough, through a bounded number of crashes and stalls.
RunFinishes == run.status \in Live ~> run.status \in Ended

(* The plan of a run: a success has every node over, a node starts after    *)
(* what it depends on, routes exclude each other, and a run that is over    *)
(* leaves no node going on unasked (plan_workflow_step,                     *)
(* _execute_workflow_run).                                                  *)
PlanInv ==
    /\ TypeOK
    /\ SuccessMeansDone
    /\ UpstreamFirst
    /\ RoutesExclusive
    /\ NoOrphans
=============================================================================
