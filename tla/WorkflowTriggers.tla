-------------------------- MODULE WorkflowTriggers --------------------------
(***************************************************************************)
(* What starts a run of a workflow: the cron tick and the sensor tick of   *)
(* the scheduler thread, the sensor check a worker executes, and the       *)
(* manual trigger, while the workflow is edited, disabled or deleted.      *)
(*                                                                         *)
(* The scheduler reads its candidate rows in one statement and claims the  *)
(* row in a later, guarded UPDATE whose transaction also enqueues the job. *)
(* Two schedulers stand for two API processes on one database.             *)
(* Time is the wall clock; a cron of period p fires at its multiples.      *)
(***************************************************************************)
EXTENDS Integers, Sequences, FiniteSets, FiniteSetsExt

CONSTANTS Schedulers,  \* API processes, each with a scheduler thread
          Periods,     \* cron expressions, as the period they fire with
          Interval,    \* sensor.check_interval_seconds, at least MIN_SENSOR_INTERVAL_SECONDS
          Cooldown,    \* sensor.cooldown_seconds
          MaxClock,     \* bound on the clock
          MaxEdits,    \* bound on PUTs of the workflow
          MaxChecks,   \* bound on sensor checks dispatched
          MaxManual    \* bound on manual triggers

ASSUME TriggerBounds == /\ Periods \subseteq Nat \ {0} /\ Periods # {}
                        /\ Interval \in Nat \ {0} /\ Cooldown \in Nat
                        /\ {MaxClock, MaxEdits, MaxChecks, MaxManual} \subseteq Nat

VARIABLES wf,       \* the workflows row, or NoWorkflow
          tick,     \* per scheduler: where its tick is and what it has read
          checks,   \* sensor check jobs, in order of dispatch
          wfRuns,     \* workflow_run jobs enqueued, in order
          time, wfEdits

triggerVars == <<wf, tick, checks, wfRuns, time, wfEdits>>

NoWorkflow == [st |-> "none"]
Null == -1
WorkflowExists == wf # NoWorkflow
Resting == [at |-> "idle"]

\* create_project_workflow: the anchors of a new row are NULL
NewRow(enabled, scheduled, sensing, period, owned) ==
  [st |-> "live", enabled |-> enabled, scheduled |-> scheduled, period |-> period,
   fired |-> Null, sensing |-> sensing, checked |-> Null, triggered |-> Null, owned |-> owned]

TriggersInit == /\ \E p \in Periods, sch \in BOOLEAN, sen \in BOOLEAN :
                     wf = NewRow(TRUE, sch, sen, p, TRUE)
                /\ tick = [s \in Schedulers |-> Resting]
                /\ checks = << >>
                /\ wfRuns = << >>
                /\ time = 1
                /\ wfEdits = 0

ClockTicks == /\ time < MaxClock
              /\ time' = time + 1
              /\ UNCHANGED <<wf, tick, checks, wfRuns, wfEdits>>

\* build_workflow_run_job and its enqueue, in the caller's transaction
Enqueued(trigger, point) ==
  Append(wfRuns, [trigger |-> trigger, point |-> point, allowed |-> wf.enabled,
                wanted |-> CASE trigger = "schedule" -> wf.scheduled
                             [] trigger = "sensor"   -> wf.sensing
                             [] OTHER                -> TRUE])

RunsBy(trigger) == {i \in DOMAIN wfRuns : wfRuns[i].trigger = trigger}

----------------------------------------------------------------------------
(* The cron tick *)

\* The latest point of the cron strictly before now (croniter get_prev).
MostRecentFire(period, now) == period * ((now - 1) \div period)

\* _run: a tick starts with the clock it read, then reads the candidates.
TickStarts(s) ==
  /\ tick[s] = Resting
  /\ tick' = [tick EXCEPT ![s] = [at |-> "cron", now |-> time]]
  /\ UNCHANGED <<wf, checks, wfRuns, time, wfEdits>>

\* _candidate_rows
Candidate == WorkflowExists /\ wf.enabled /\ wf.scheduled

EvaluateSchedule(row, now) ==
  LET point == MostRecentFire(row.period, now)
  IN IF row.fired = Null THEN "seed" ELSE IF point > row.fired THEN "fire" ELSE "skip"

TickReadsCron(s) ==
  /\ tick[s].at = "cron"
  /\ tick' = [tick EXCEPT ![s] =
       IF Candidate /\ EvaluateSchedule(wf, tick[s].now) # "skip"
       THEN [at |-> "claim", now |-> tick[s].now,
             decision |-> EvaluateSchedule(wf, tick[s].now),
             point |-> MostRecentFire(wf.period, tick[s].now)]
       ELSE [at |-> "sensor", now |-> tick[s].now]]
  /\ UNCHANGED <<wf, checks, wfRuns, time, wfEdits>>

\* the guarded UPDATE of schedule_last_fired_at
ClaimsFire(point) == WorkflowExists /\ wf.enabled /\ wf.scheduled /\ wf.fired < point

TickClaimsCron(s) ==
  /\ tick[s].at = "claim"
  /\ LET t == tick[s]
         claimed == ClaimsFire(t.point)
     IN /\ wf' = IF claimed THEN [wf EXCEPT !.fired = t.point] ELSE wf
        /\ wfRuns' = IF claimed /\ t.decision = "fire" /\ wf.owned
                   THEN Enqueued("schedule", t.point) ELSE wfRuns
        /\ tick' = [tick EXCEPT ![s] = [at |-> "sensor", now |-> t.now]]
  /\ UNCHANGED <<checks, time, wfEdits>>

----------------------------------------------------------------------------
(* The sensor tick and the check on a worker *)

\* _sensor_candidate_rows and evaluate_sensor
EvaluateSensor(row, now) ==
  /\ row.enabled /\ row.sensing
  /\ ~(row.triggered # Null /\ now - row.triggered < Cooldown)
  /\ ~(row.checked # Null /\ now - row.checked < Interval)

TickReadsSensor(s) ==
  /\ tick[s].at = "sensor"
  /\ tick' = [tick EXCEPT ![s] = IF WorkflowExists /\ EvaluateSensor(wf, tick[s].now)
                                 THEN [at |-> "check", now |-> tick[s].now, seen |-> wf.checked]
                                 ELSE Resting]
  /\ UNCHANGED <<wf, checks, wfRuns, time, wfEdits>>

\* Compare-and-swap of sensor_last_checked_at against the value that was read.
ClaimsCheckBlind(seen) == WorkflowExists /\ wf.enabled /\ wf.sensing
ClaimsCheck(seen) == WorkflowExists /\ wf.enabled /\ wf.sensing /\ wf.checked = seen

TickClaimsSensor(s) ==
  /\ tick[s].at = "check" /\ Len(checks) < MaxChecks
  /\ LET t == tick[s]
         claimed == ClaimsCheck(t.seen)
     IN /\ wf' = IF claimed THEN [wf EXCEPT !.checked = t.now] ELSE wf
        /\ checks' = IF claimed /\ wf.owned
                     THEN Append(checks, [at |-> "pending", now |-> Null, for |-> t.seen])
                     ELSE checks
        /\ tick' = [tick EXCEPT ![s] = Resting]
  /\ UNCHANGED <<wfRuns, time, wfEdits>>

\* _execute_sensor_check: the SQL is evaluated, then the clock is read.
CheckEvaluates(c) ==
  /\ checks[c].at = "pending"
  /\ \E truthy \in BOOLEAN :
       checks' = [checks EXCEPT ![c].at = IF truthy THEN "met" ELSE "done",
                                       ![c].now = IF truthy THEN time ELSE Null]
  /\ UNCHANGED <<wf, tick, wfRuns, time, wfEdits>>

\* claim_trigger_and_enqueue: the guarded UPDATE of sensor_last_triggered_at
ClaimsTrigger(now) == WorkflowExists /\ wf.enabled /\ wf.sensing
                      /\ (wf.triggered = Null \/ wf.triggered < now - Cooldown)

CheckClaims(c) ==
  /\ checks[c].at = "met"
  /\ LET claimed == ClaimsTrigger(checks[c].now)
     IN /\ wf' = IF claimed THEN [wf EXCEPT !.triggered = checks[c].now] ELSE wf
        /\ wfRuns' = IF claimed THEN Enqueued("sensor", checks[c].now) ELSE wfRuns
  /\ checks' = [checks EXCEPT ![c].at = "done", ![c].now = Null]
  /\ UNCHANGED <<tick, time, wfEdits>>

----------------------------------------------------------------------------
(* Users *)

\* trigger_workflow_run: the row is locked while enabled is tested and the job enqueued
TriggerRun ==
  /\ WorkflowExists /\ wf.enabled
  /\ Cardinality(RunsBy("manual")) < MaxManual
  /\ wfRuns' = Enqueued("manual", Null)
  /\ UNCHANGED <<wf, tick, checks, time, wfEdits>>

\* update_project_workflow: definition and switches, never the anchors
UpdateWorkflow ==
  /\ WorkflowExists /\ wfEdits < MaxEdits
  /\ \E p \in Periods, sch \in BOOLEAN, sen \in BOOLEAN, en \in BOOLEAN :
       wf' = [wf EXCEPT !.period = p, !.scheduled = sch, !.sensing = sen, !.enabled = en]
  /\ wfEdits' = wfEdits + 1
  /\ UNCHANGED <<tick, checks, wfRuns, time>>

\* delete_project_workflow
DeleteWorkflow ==
  /\ WorkflowExists /\ wfEdits < MaxEdits
  /\ wf' = NoWorkflow
  /\ wfEdits' = wfEdits + 1
  /\ UNCHANGED <<tick, checks, wfRuns, time>>

\* The creator's account is deleted: created_by SET NULL.
OwnerDeleted ==
  /\ WorkflowExists /\ wf.owned /\ wfEdits < MaxEdits
  /\ wf' = [wf EXCEPT !.owned = FALSE]
  /\ wfEdits' = wfEdits + 1
  /\ UNCHANGED <<tick, checks, wfRuns, time>>

\* The API process restarts: its tick is lost, the anchors are in the database.
SchedulerRestarts(s) ==
  /\ tick[s] # Resting
  /\ tick' = [tick EXCEPT ![s] = Resting]
  /\ UNCHANGED <<wf, checks, wfRuns, time, wfEdits>>

TriggersNext ==
  \/ ClockTicks \/ TriggerRun \/ UpdateWorkflow \/ DeleteWorkflow \/ OwnerDeleted
  \/ \E s \in Schedulers : \/ TickStarts(s) \/ TickReadsCron(s) \/ TickClaimsCron(s)
                           \/ TickReadsSensor(s) \/ TickClaimsSensor(s) \/ SchedulerRestarts(s)
  \/ \E c \in DOMAIN checks : CheckEvaluates(c) \/ CheckClaims(c)

TriggersSpec == TriggersInit /\ [][TriggersNext]_triggerVars

----------------------------------------------------------------------------
(* Properties *)

TriggersTypeOK ==
  /\ WorkflowExists => /\ wf.period \in Periods
             /\ {wf.enabled, wf.scheduled, wf.sensing, wf.owned} \subseteq BOOLEAN
             /\ wf.fired \in Null..(time - 1)
             /\ {wf.checked, wf.triggered} \subseteq Null..time
  /\ \A s \in Schedulers : tick[s].at \in {"idle", "cron", "claim", "sensor", "check"}
  /\ Len(checks) <= MaxChecks
  /\ \A c \in DOMAIN checks : checks[c].at \in {"pending", "met", "done"}

(* The points a schedule has fired for grow from run to run: no point fires *)
(* twice, and a point that was missed is not caught up once a later one has *)
(* fired, with two schedulers, restarts and edits of the cron in between.   *)
FirePointsGrow ==
  \A i, j \in RunsBy("schedule") : i < j => wfRuns[i].point < wfRuns[j].point

(* Two runs that a sensor triggers are more than its cooldown apart, even   *)
(* when several checks are in flight at once.                               *)
CooldownHolds ==
  \A i, j \in RunsBy("sensor") : i # j =>
     wfRuns[i].point - wfRuns[j].point \notin (-Cooldown)..Cooldown

(* No run starts by a switch that is off: a workflow, schedule or sensor    *)
(* disabled after the scheduler or the check read it starts nothing.        *)
OffMeansOff == \A i \in DOMAIN wfRuns : wfRuns[i].allowed /\ wfRuns[i].wanted

(* One reading of the check anchor dispatches one check: two schedulers     *)
(* that saw the same row do not both send the sensor's SQL.                 *)
OneCheckPerReading ==
  \A c, d \in DOMAIN checks : c # d => checks[c].for # checks[d].for

(* Several schedulers on one table: a schedule's fire points only grow,     *)
(* nothing starts by a switch that is off, a sensor rests for its cooldown, *)
(* and a reading of the check anchor dispatches one check (tick,            *)
(* claim_trigger_and_enqueue).                                              *)
TriggersInv ==
    /\ TriggersTypeOK
    /\ FirePointsGrow
    /\ CooldownHolds
    /\ OffMeansOff
    /\ OneCheckPerReading
=============================================================================
