------------------------------ MODULE DidaImport ------------------------------
(***************************************************************************)
(* The import of compare tasks from a DIDA export                          *)
(* (tools/dida_compare_import.py).  generate derives from the scripts of   *)
(* an export which tables can be compared, by which predicate.  apply,     *)
(* through the API, makes one compare task per table and one workflow that *)
(* runs them; it may be run again, and two operators may run it at once.   *)
(* Users change schedules and delete tasks and workflows meanwhile; a      *)
(* request may fail, or be carried out and its answer lost.                *)
(***************************************************************************)
EXTENDS Naturals, FiniteSets

CONSTANTS
    Appliers,    \* runs of apply
    ImportTables,\* the tables of the flow
    DidaTasks,   \* the tasks of the export
    Predicates,  \* the predicates their scripts delete by
    MaxIds       \* bound: tasks and workflows created

ASSUME ImportBounds ==
    /\ MaxIds \in Nat /\ {"unused", "flow"} \intersect ImportTables = {}
    /\ IsFiniteSet(ImportTables) /\ IsFiniteSet(Predicates) /\ Predicates # {}

VARIABLES
    scripts, \* per task and table: the predicates found, or Untouched
    tasks,   \* the compare task of each managed name, 0 for none
    flow,    \* the workflow of the managed name, or NoFlow
    apply,   \* the progress of each applier
    made,    \* what each id was created for
    edits    \* history: changes of the schedule and whether one was overwritten,
             \* deletions, and whether two appliers were under way at once

importVars == <<scripts, tasks, flow, apply, made, edits>>

\* What a task has to say of a table it does not write.  A task of which the
\* export has no SQL file is listed as skipped and says nothing of any table,
\* though it may write it.
Untouched == {"untouched"}

NoFlow == [id |-> 0, refs |-> {}, schedule |-> 0]

-----------------------------------------------------------------------------
(* generate.                                                                *)

WritersOf(t) == {d \in DidaTasks : scripts[d][t] # Untouched}

Found(t) == UNION {scripts[d][t] : d \in WritersOf(t)}

\* Mutant of Unfound: a task without a predicate has no say.
UnfoundIgnored(t) == FALSE

\* A task that writes the table and in whose scripts no predicate was found.
Unfound(t) == \E d \in WritersOf(t) : scripts[d][t] = {}

\* Status ok; the others are left for review.
Sure(t) == Cardinality(Found(t)) = 1 /\ ~Unfound(t)

Applicable == {t \in ImportTables : Sure(t)}

-----------------------------------------------------------------------------
(* apply.                                                                   *)

Start == [pc |-> "ready", seen |-> [t \in ImportTables |-> 0], flow |-> NoFlow,
          applied |-> [t \in ImportTables |-> 0], notifies |-> FALSE]

Move(a, r) == apply' = [apply EXCEPT ![a] = r]

\* The answer to a request that was carried out: it arrives, or it is lost.
Answered(a, r) == Move(a, r) \/ Move(a, [r EXCEPT !.pc = "failed"])

UnderWay(a) == apply[a].pc \notin {"ready", "done", "rejected", "failed", "conflict"}

\* The tasks there are, by name, and then the workflows; nothing is done for a
\* manifest without a sure table, nor to notify without a stored workflow.
SnapshotTasks(a) ==
    /\ apply[a].pc = "ready" /\ Applicable # {}
    /\ \E n \in BOOLEAN :
          Move(a, [apply[a] EXCEPT !.pc = "listed", !.seen = tasks, !.notifies = n])
    /\ edits' = [edits EXCEPT !.overlap = @ \/ \E b \in Appliers : UnderWay(b)]
    /\ UNCHANGED <<scripts, tasks, flow, made>>

SnapshotFlow(a) ==
    /\ apply[a].pc = "listed"
    /\ Move(a, [apply[a] EXCEPT !.flow = flow,
                  !.pc = IF apply[a].notifies /\ flow = NoFlow THEN "rejected" ELSE "planning"])
    /\ UNCHANGED <<scripts, tasks, flow, made, edits>>

\* Every table is inferred and its task body built before anything is written.
Plan(a) ==
    /\ apply[a].pc = "planning"
    /\ \E to \in {"rejected", "tasks"} : Move(a, [apply[a] EXCEPT !.pc = to])
    /\ UNCHANGED <<scripts, tasks, flow, made, edits>>

Pending(a) == {t \in Applicable : apply[a].applied[t] = 0}

FreshId == Cardinality({i \in DOMAIN made : made[i] # "unused"}) + 1

Create(what) == made' = [made EXCEPT ![FreshId] = what]

\* The task this applier takes for the table's: the one it saw at the start.
SeenId(a, t) == apply[a].seen[t]

\* POST for a table whose task was not there, PATCH otherwise.
ApplyTask(a, t) ==
    /\ apply[a].pc = "tasks" /\ t \in Pending(a)
    /\ IF SeenId(a, t) = 0
       THEN IF tasks[t] # 0
            THEN Move(a, [apply[a] EXCEPT !.pc = "conflict"]) /\ UNCHANGED <<tasks, made>>
            ELSE /\ FreshId <= MaxIds /\ Create(t)
                 /\ tasks' = [tasks EXCEPT ![t] = FreshId]
                 /\ Answered(a, [apply[a] EXCEPT !.applied[t] = FreshId])
       ELSE IF tasks[t] # SeenId(a, t)
            THEN Move(a, [apply[a] EXCEPT !.pc = "conflict"]) /\ UNCHANGED <<tasks, made>>
            ELSE /\ Answered(a, [apply[a] EXCEPT !.applied[t] = tasks[t]])
                 /\ UNCHANGED <<tasks, made>>
    /\ UNCHANGED <<scripts, flow, edits>>

\* The stored workflow, whose schedule is carried over: read at the start if
\* the tasks notify, and otherwise only now.
ReadFlow(a) ==
    /\ apply[a].pc = "tasks" /\ Pending(a) = {}
    /\ IF apply[a].flow # NoFlow /\ ~apply[a].notifies /\ flow.id # apply[a].flow.id
       THEN Move(a, [apply[a] EXCEPT !.pc = "conflict"])
       ELSE Move(a, [apply[a] EXCEPT !.pc = "workflow",
                        !.flow = IF @ = NoFlow \/ apply[a].notifies THEN @ ELSE flow])
    /\ UNCHANGED <<scripts, tasks, flow, made, edits>>

FlowRefs(a) == {apply[a].applied[t] : t \in Applicable}

ScheduleKept(a) == apply[a].flow.schedule

\* POST or PUT of the workflow that runs the tasks.
ApplyFlow(a) ==
    /\ apply[a].pc = "workflow"
    /\ LET old == apply[a].flow
       IN IF old = NoFlow
          THEN IF flow # NoFlow
               THEN Move(a, [apply[a] EXCEPT !.pc = "conflict"]) /\ UNCHANGED <<flow, made, edits>>
               ELSE /\ FreshId <= MaxIds /\ Create("flow")
                    /\ flow' = [id |-> FreshId, refs |-> FlowRefs(a), schedule |-> 0]
                    /\ edits' = [edits EXCEPT !.count = 0, !.raced = FALSE]
                    /\ Answered(a, [apply[a] EXCEPT !.pc = "done"])
          ELSE IF flow.id # old.id
               THEN Move(a, [apply[a] EXCEPT !.pc = "conflict"]) /\ UNCHANGED <<flow, made, edits>>
               ELSE /\ flow' = [flow EXCEPT !.refs = FlowRefs(a), !.schedule = ScheduleKept(a)]
                    /\ edits' = [edits EXCEPT !.raced = @ \/ flow.schedule # old.schedule]
                    /\ Answered(a, [apply[a] EXCEPT !.pc = "done"])
                    /\ UNCHANGED made
    /\ UNCHANGED <<scripts, tasks>>

\* A request fails and ends the applier.  The operator may start over.
RequestFails(a) ==
    /\ UnderWay(a) /\ Move(a, [apply[a] EXCEPT !.pc = "failed"])
    /\ UNCHANGED <<scripts, tasks, flow, made, edits>>

StartOver(a) ==
    /\ apply[a].pc \in {"failed", "conflict"}
    /\ Move(a, Start) /\ UNCHANGED <<scripts, tasks, flow, made, edits>>

-----------------------------------------------------------------------------
(* The users.                                                               *)

EditSchedule ==
    /\ flow # NoFlow /\ edits.count < 1
    /\ flow' = [flow EXCEPT !.schedule = @ + 1]
    /\ edits' = [edits EXCEPT !.count = @ + 1]
    /\ UNCHANGED <<scripts, tasks, apply, made>>

DeleteImported(t) ==
    /\ tasks[t] # 0 /\ edits.deletes < 1
    /\ tasks' = [tasks EXCEPT ![t] = 0]
    /\ edits' = [edits EXCEPT !.deletes = @ + 1]
    /\ UNCHANGED <<scripts, flow, apply, made>>

DeleteFlow ==
    /\ flow # NoFlow /\ edits.deletes < 1
    /\ flow' = NoFlow
    /\ edits' = [edits EXCEPT !.count = 0, !.raced = FALSE, !.deletes = @ + 1]
    /\ UNCHANGED <<scripts, tasks, apply, made>>

-----------------------------------------------------------------------------
\* Either the scripts are arbitrary and only the manifest matters, or every
\* table is sure and the manifest is applied.
ImportInit ==
    /\ \/ scripts \in [DidaTasks -> [ImportTables -> (SUBSET Predicates) \union {Untouched}]]
          /\ apply = [a \in Appliers |-> [Start EXCEPT !.pc = "rejected"]]
       \/ scripts = [d \in DidaTasks |-> [t \in ImportTables |-> {CHOOSE p \in Predicates : TRUE}]]
          /\ apply = [a \in Appliers |-> Start]
    /\ tasks = [t \in ImportTables |-> 0] /\ flow = NoFlow
    /\ made = [i \in 1..MaxIds |-> "unused"]
    /\ edits = [count |-> 0, raced |-> FALSE, deletes |-> 0, overlap |-> FALSE]

ImportNext ==
    \/ \E a \in Appliers : \/ SnapshotTasks(a) \/ SnapshotFlow(a) \/ Plan(a) \/ ReadFlow(a) \/ ApplyFlow(a)
                           \/ RequestFails(a) \/ StartOver(a)
                           \/ \E t \in ImportTables : ApplyTask(a, t)
    \/ EditSchedule \/ DeleteFlow
    \/ \E t \in ImportTables : DeleteImported(t)

ImportSpec == ImportInit /\ [][ImportNext]_importVars

-----------------------------------------------------------------------------
(* Properties.                                                              *)

\* Ids are of things that were created, and a workflow is only written after
\* each of its tasks.
ImportTypeOK ==
    /\ \A t \in ImportTables : tasks[t] # 0 => made[tasks[t]] = t
    /\ flow.id # 0 => made[flow.id] = "flow"
    /\ \A a \in Appliers : apply[a].pc \in {"workflow", "done"}
                             => \A t \in Applicable : apply[a].applied[t] # 0

\* A table that is applied without review is cleared by the same predicate in
\* every task that writes it.
ManifestUnanimous ==
    \A t \in Applicable : \E p \in Predicates : \A d \in WritersOf(t) : scripts[d][t] = {p}

\* The workflow runs one task for each applied table, also when two appliers
\* overlap or one starts over after a failure; and as long as nobody deletes
\* one, these are the tasks there are.
FlowCoversTables ==
    flow # NoFlow =>
        /\ 0 \notin flow.refs /\ {made[i] : i \in flow.refs} = Applicable
        /\ Cardinality(flow.refs) = Cardinality(Applicable)
        /\ edits.deletes = 0 => flow.refs = {tasks[t] : t \in Applicable}

\* A change of the schedule outlives later imports, unless it was made while
\* an import had already read the workflow.
ScheduleSurvives == flow # NoFlow /\ ~edits.raced => flow.schedule = edits.count

\* Starting over after a failed request, whatever that request has done, meets
\* no conflict: only a deletion or a second applier under way causes one.
StartingOverConverges ==
    \A a \in Appliers : apply[a].pc = "conflict" => edits.deletes > 0 \/ edits.overlap

(* An import that is cut off and started over converges: it meets no        *)
(* conflict of its own making, its workflow runs one task for each applied  *)
(* table, a schedule changed between imports survives, and a table is       *)
(* applied only when its tasks agree on what they clear                     *)
(* (dida_compare_import plan and apply).                                    *)
ImportInv ==
    /\ ImportTypeOK
    /\ ManifestUnanimous
    /\ FlowCoversTables
    /\ ScheduleSurvives
    /\ StartingOverConverges
===============================================================================
