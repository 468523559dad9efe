------------------------------ MODULE Launcher ------------------------------
(***************************************************************************)
(* The launcher's process supervision (src/app/launcher.py): `up` starts   *)
(* the metadata PostgreSQL, migrates the schema, starts the API and the    *)
(* worker and watches them; `stop`, run by another process, asks the       *)
(* supervisor to end or, when there is none, stops by their pid files what *)
(* it left behind.  The two share only files (launcher.pid, api.pid,       *)
(* worker.pid and, on Windows, launcher.stop) and signals.                 *)
(*                                                                         *)
(* A process is named by the `up` that started it.  Pids are not reused.   *)
(* An `up` starts only when the one before has ended and no `stop` runs.   *)
(***************************************************************************)
EXTENDS Integers

CONSTANTS MaxUps,      \* bound: invocations of `up`, one after the other
          MaxStops,    \* bound: invocations of `stop`
          MaxKills   \* bound: children that exit by themselves

ASSUME LauncherBounds ==
    /\ MaxUps \in Nat \ {0}
    /\ MaxStops \in Nat
    /\ MaxKills \in Nat

VARIABLES platform,    \* "posix" or "windows"; fixed
          sup,         \* sup[u]: the supervisor process of the u-th `up`
          child,       \* child[u][k]: the process k it started
          pidFile,     \* the pid files; NoPid when the file is missing
          stopFile,    \* launcher.stop exists
          pg,          \* the metadata PostgreSQL runs
          stop,        \* the running `stop` command; unseen: the live supervisors
                       \* that some `stop` did not find (history)
          used         \* stops and crashes so far (bounds)

launcherVars == <<platform, sup, child, pidFile, stopFile, pg, stop, used>>

Ups   == 1..MaxUps
NoPid == 0
Kinds == {"api", "worker"}

(* The program counter of command_up: what the supervisor does next. *)
Startup  == {"pg", "schema", "spawnApi", "recordApi", "spawnWorker",
             "recordWorker", "handlers"}
Stopping == {"termApi", "waitApi", "termWorker", "waitWorker", "unlink", "stopPg",
             "cleanup"}
UpPcs    == {"idle", "watch", "ended"} \union Startup \union Stopping
StopPcs  == {"idle", "waitLauncher", "termApi", "waitApi", "termWorker",
             "waitWorker", "stopPg", "ok", "error"}

LauncherTypeOK ==
    /\ platform \in {"posix", "windows"}
    /\ sup \in [Ups -> [pc : UpPcs, alive : BOOLEAN, asked : BOOLEAN, failing : BOOLEAN]]
    /\ child \in [Ups -> [Kinds -> {"none", "up", "draining", "dead"}]]
    /\ pidFile \in [Kinds \union {"launcher"} -> Ups \union {NoPid}]
    /\ stopFile \in BOOLEAN
    /\ pg \in BOOLEAN
    /\ stop \in [pc : StopPcs, force : BOOLEAN, target : Ups \union {NoPid},
                 unseen : SUBSET Ups]
    /\ used \in [stops : 0..MaxStops, crashes : 0..MaxKills]
    /\ platform = "posix" => ~stopFile
    /\ \A u \in Ups : sup[u].alive => sup[u].pc \notin {"idle", "ended"}

LauncherInit ==
    /\ platform \in {"posix", "windows"}
    /\ sup = [u \in Ups |-> [pc |-> "idle", alive |-> FALSE, asked |-> FALSE,
                             failing |-> FALSE]]
    /\ child = [u \in Ups |-> [k \in Kinds |-> "none"]]
    /\ pidFile = [f \in Kinds \union {"launcher"} |-> NoPid]
    /\ stopFile = FALSE
    /\ pg = FALSE
    /\ stop = [pc |-> "idle", force |-> FALSE, target |-> NoPid, unseen |-> {}]
    /\ used = [stops |-> 0, crashes |-> 0]

Windows    == platform = "windows"
Alive(u, k) == child[u][k] \in {"up", "draining"}
StopRuns   == stop.pc \notin {"idle", "ok", "error"}
Supervises(u, pc) == sup[u].alive /\ sup[u].pc = pc
SupervisorAt(u, pc) == sup' = [sup EXCEPT ![u].pc = pc]
End(u)      == sup' = [sup EXCEPT ![u].pc = "ended", ![u].alive = FALSE]

(* child' after a signal or a kill of one process. *)
Signalled(u, k) == [child EXCEPT ![u][k] = IF @ = "up" THEN "draining" ELSE @]
Killed(u, k)    == [child EXCEPT ![u][k] = IF @ = "none" THEN @ ELSE "dead"]
(* taskkill /T takes the children of a killed supervisor with it. *)
KilledTree(u)   == IF Windows
                   THEN [child EXCEPT ![u] = [k \in Kinds |->
                                                 IF @[k] = "none" THEN "none" ELSE "dead"]]
                   ELSE child

---------------------------------------------------------------------------
(* command_up *)

UpStart(u) ==
    /\ sup[u].pc = "idle"
    /\ \A v \in 1..(u - 1) : sup[v].pc # "idle" /\ ~sup[v].alive
    /\ ~StopRuns
    /\ sup' = [sup EXCEPT ![u].pc = "pg", ![u].alive = TRUE]
    /\ pidFile' = IF Windows THEN [pidFile EXCEPT !["launcher"] = u] ELSE pidFile
    /\ UNCHANGED <<platform, child, stopFile, pg, stop, used>>

(* Windows: the files of this supervisor go away when it gives up early. *)
Withdraw(u) ==
    /\ End(u)
    /\ pidFile' = IF Windows THEN [pidFile EXCEPT !["launcher"] = NoPid] ELSE pidFile
    /\ stopFile' = FALSE

(* command_pg_up or command_alembic_up raises. *)
UpFails(u) ==
    /\ Supervises(u, "pg") \/ Supervises(u, "schema")
    /\ Withdraw(u)
    /\ pg' \in {pg, pg \/ sup[u].pc = "pg"}
    /\ UNCHANGED <<platform, child, stop, used>>

(* _finish_windows_startup_stop after either of them: PostgreSQL is stopped. *)
UpPg(u) ==
    /\ Supervises(u, "pg")
    /\ IF stopFile
       THEN Withdraw(u) /\ pg' = FALSE
       ELSE SupervisorAt(u, "schema") /\ pg' = TRUE /\ UNCHANGED <<pidFile, stopFile>>
    /\ UNCHANGED <<platform, child, stop, used>>

UpSchema(u) ==
    /\ Supervises(u, "schema")
    /\ pg
    /\ IF stopFile
       THEN Withdraw(u) /\ pg' = FALSE
       ELSE /\ SupervisorAt(u, "spawnApi")
            /\ pidFile' = [pidFile EXCEPT !["launcher"] = u]
            /\ UNCHANGED <<pg, stopFile>>
    /\ UNCHANGED <<platform, child, stop, used>>

(* _start_child: Popen, then the pid file. *)
Spawn(u, k, from, to) ==
    /\ Supervises(u, from)
    /\ SupervisorAt(u, to)
    /\ child' = [child EXCEPT ![u][k] = "up"]
    /\ UNCHANGED <<platform, pidFile, stopFile, pg, stop, used>>

Record(u, k, from, to) ==
    /\ Supervises(u, from)
    /\ SupervisorAt(u, to)
    /\ pidFile' = [pidFile EXCEPT ![k] = u]
    /\ UNCHANGED <<platform, child, stopFile, pg, stop, used>>

UpSpawnApi(u)     == Spawn(u, "api", "spawnApi", "recordApi")
UpRecordApi(u)    == Record(u, "api", "recordApi", "spawnWorker")
UpSpawnWorker(u)  == Spawn(u, "worker", "spawnWorker", "recordWorker")
UpRecordWorker(u) == Record(u, "worker", "recordWorker", "handlers")

UpHandlers(u) ==
    /\ Supervises(u, "handlers")
    /\ SupervisorAt(u, "watch")
    /\ UNCHANGED <<platform, child, pidFile, stopFile, pg, stop, used>>

(* The watch loop: a stop request, or a child that is gone. *)
UpSeesStop(u) ==
    /\ Supervises(u, "watch")
    /\ sup[u].asked \/ stopFile
    /\ SupervisorAt(u, "termApi")
    /\ UNCHANGED <<platform, child, pidFile, stopFile, pg, stop, used>>

UpSeesExit(u) ==
    /\ Supervises(u, "watch")
    /\ ~sup[u].asked /\ ~stopFile
    /\ \E k \in Kinds : child[u][k] = "dead"
    /\ sup' = [sup EXCEPT ![u].pc = "termApi", ![u].failing = TRUE]
    /\ UNCHANGED <<platform, child, pidFile, stopFile, pg, stop, used>>

(* Ctrl+C, or SIGTERM from the service manager, in the watch loop. *)
Interrupt(u) ==
    /\ Supervises(u, "watch")
    /\ sup' = [sup EXCEPT ![u].asked = TRUE]
    /\ UNCHANGED <<platform, child, pidFile, stopFile, pg, stop, used>>

(* _stop_children: _terminate_process sends the signal ... *)
UpTerm(u, k, from, to) ==
    /\ Supervises(u, from)
    /\ SupervisorAt(u, to)
    /\ child' = Signalled(u, k)
    /\ UNCHANGED <<platform, pidFile, stopFile, pg, stop, used>>

(* ... and waits for the grace period: a child that has not gone by then   *)
(* is killed when forced, else LauncherError ends the supervisor.          *)
UpWait(u, k, force, from, to) ==
    /\ Supervises(u, from)
    /\ IF Alive(u, k) /\ ~force
       THEN sup' = [sup EXCEPT ![u].alive = FALSE] /\ UNCHANGED child
       ELSE SupervisorAt(u, to) /\ child' = Killed(u, k)
    /\ UNCHANGED <<platform, pidFile, stopFile, pg, stop, used>>

UpTermApi(u)    == UpTerm(u, "api", "termApi", "waitApi")
UpWaitApi(u)    == UpWait(u, "api", TRUE, "waitApi", "termWorker")
UpTermWorker(u) == UpTerm(u, "worker", "termWorker", "waitWorker")
UpWaitWorker(u) == UpWait(u, "worker", sup[u].failing, "waitWorker",
                          IF sup[u].failing THEN "stopPg" ELSE "unlink")

(* _unlink_child_pid_files *)
UpUnlink(u) ==
    /\ Supervises(u, "unlink")
    /\ SupervisorAt(u, "stopPg")
    /\ pidFile' = [pidFile EXCEPT !["api"] = NoPid, !["worker"] = NoPid]
    /\ UNCHANGED <<platform, child, stopFile, pg, stop, used>>

(* command_pg_stop; after an unexpected exit `up` returns 1 at once. *)
UpStopPg(u) ==
    /\ Supervises(u, "stopPg")
    /\ pg' = FALSE
    /\ IF sup[u].failing THEN End(u) ELSE SupervisorAt(u, "cleanup")
    /\ UNCHANGED <<platform, child, pidFile, stopFile, stop, used>>

UpCleanup(u) ==
    /\ Supervises(u, "cleanup")
    /\ End(u)
    /\ pidFile' = [pidFile EXCEPT !["launcher"] = NoPid]
    /\ stopFile' = FALSE
    /\ UNCHANGED <<platform, child, pg, stop, used>>

---------------------------------------------------------------------------
(* The children *)

(* A signalled child drains and exits; the worker ends its active job first. *)
ChildDrained(u, k) ==
    /\ child[u][k] = "draining"
    /\ child' = [child EXCEPT ![u][k] = "dead"]
    /\ UNCHANGED <<platform, sup, pidFile, stopFile, pg, stop, used>>

ChildCrashes(u, k) ==
    /\ child[u][k] = "up"
    /\ used.crashes < MaxKills
    /\ child' = [child EXCEPT ![u][k] = "dead"]
    /\ used' = [used EXCEPT !.crashes = @ + 1]
    /\ UNCHANGED <<platform, sup, pidFile, stopFile, pg, stop>>

---------------------------------------------------------------------------
(* command_stop *)

(* SIGTERM to the supervisor: its own handler runs only in the watch loop; *)
(* before it is installed and after it is restored the signal kills.       *)
Terminated(u) == IF sup[u].pc = "watch" THEN [sup EXCEPT ![u].asked = TRUE]
                                         ELSE [sup EXCEPT ![u].alive = FALSE]

StopBegin(force) ==
    /\ ~StopRuns
    /\ used.stops < MaxStops
    /\ used' = [used EXCEPT !.stops = @ + 1]
    /\ LET u     == pidFile["launcher"]
           found == u # NoPid /\ sup[u].alive
       IN  /\ stop' = [pc |-> IF found THEN "waitLauncher" ELSE "termApi",
                       force |-> force, target |-> IF found THEN u ELSE NoPid,
                       unseen |-> stop.unseen \union {v \in Ups : sup[v].alive /\ v # u}]
           /\ stopFile' = (stopFile \/ (found /\ Windows))
           /\ sup' = IF found /\ ~Windows THEN Terminated(u) ELSE sup
    /\ UNCHANGED <<platform, child, pidFile, pg>>

(* _live_child_names *)
Leftovers(c) == {k \in Kinds : /\ pidFile[k] # NoPid
                               /\ c[pidFile[k]][k] \in {"up", "draining"}}

(* Mutant of SupervisorGone: what the supervisor left is not looked for. *)
SupervisorGoneBlind(c) ==
    /\ stopFile' = FALSE
    /\ pidFile' = [f \in DOMAIN pidFile |-> NoPid]
    /\ stop' = [stop EXCEPT !.pc = "ok"]

(* The supervisor has ended: done, unless it left children behind. *)
SupervisorGone(c) ==
    /\ stopFile' = FALSE
    /\ IF Leftovers(c) = {}
       THEN /\ pidFile' = [f \in DOMAIN pidFile |-> NoPid]
            /\ stop' = [stop EXCEPT !.pc = "ok"]
       ELSE /\ pidFile' = [pidFile EXCEPT !["launcher"] = NoPid]
            /\ stop' = [stop EXCEPT !.pc = "termApi"]

(* _wait_for_pid_exit on the supervisor; the deadline may pass at any time. *)
StopWaitsLauncher ==
    /\ stop.pc = "waitLauncher"
    /\ IF sup[stop.target].alive /\ ~stop.force
       THEN stop' = [stop EXCEPT !.pc = "error"] /\ UNCHANGED <<sup, child, pidFile, stopFile>>
       ELSE /\ sup' = [sup EXCEPT ![stop.target].alive = FALSE]
            /\ child' = IF sup[stop.target].alive THEN KilledTree(stop.target) ELSE child
            /\ SupervisorGone(child')
    /\ UNCHANGED <<platform, pg, used>>

(* _terminate_pid_file: no file, a stale file, or a live process; Windows  *)
(* cannot signal across consoles, so it kills or waits.                    *)
StopTerm(k, force, from, wait, next) ==
    /\ stop.pc = from
    /\ LET u == pidFile[k] IN
       IF u = NoPid \/ ~Alive(u, k) \/ (Windows /\ force)
       THEN /\ child' = IF u = NoPid THEN child ELSE Killed(u, k)
            /\ pidFile' = [pidFile EXCEPT ![k] = NoPid]
            /\ stop' = [stop EXCEPT !.pc = next, !.target = NoPid]
       ELSE /\ child' = IF Windows THEN child ELSE Signalled(u, k)
            /\ stop' = [stop EXCEPT !.pc = wait, !.target = u]
            /\ UNCHANGED pidFile
    /\ UNCHANGED <<platform, sup, stopFile, pg, used>>

StopWait(k, force, from, next) ==
    /\ stop.pc = from
    /\ IF Alive(stop.target, k) /\ ~force
       THEN stop' = [stop EXCEPT !.pc = "error"] /\ UNCHANGED <<child, pidFile>>
       ELSE /\ child' = Killed(stop.target, k)
            /\ pidFile' = [pidFile EXCEPT ![k] = NoPid]
            /\ stop' = [stop EXCEPT !.pc = next]
    /\ UNCHANGED <<platform, sup, stopFile, pg, used>>

StopTermApi    == StopTerm("api", TRUE, "termApi", "waitApi", "termWorker")
StopWaitApi    == StopWait("api", TRUE, "waitApi", "termWorker")
(* Mutant of StopTermWorker: PostgreSQL goes before the worker. *)
StopTermWorkerLast == StopTerm("worker", stop.force, "termWorker", "stopPg", "stopPg")
StopTermWorker == StopTerm("worker", stop.force, "termWorker", "waitWorker", "stopPg")
(* Mutant of StopWaitWorker: no deadline for a draining worker. *)
StopWaitWorkerForever == /\ stop.pc = "waitWorker" => ~Alive(stop.target, "worker")
                         /\ StopWait("worker", stop.force, "waitWorker", "stopPg")
StopWaitWorker == StopWait("worker", stop.force, "waitWorker", "stopPg")

StopStopsPg ==
    /\ stop.pc = "stopPg"
    /\ pg' = FALSE
    /\ pidFile' = [pidFile EXCEPT !["launcher"] = NoPid]
    /\ stop' = [stop EXCEPT !.pc = "ok"]
    /\ UNCHANGED <<platform, sup, child, stopFile, used>>

---------------------------------------------------------------------------
UpStep(u) ==
    \/ UpFails(u) \/ UpPg(u) \/ UpSchema(u) \/ UpSpawnApi(u) \/ UpRecordApi(u)
    \/ UpSpawnWorker(u) \/ UpRecordWorker(u) \/ UpHandlers(u) \/ UpSeesStop(u)
    \/ UpSeesExit(u) \/ UpTermApi(u) \/ UpWaitApi(u) \/ UpTermWorker(u)
    \/ UpWaitWorker(u) \/ UpUnlink(u) \/ UpStopPg(u) \/ UpCleanup(u)

StopStep == StopWaitsLauncher \/ StopTermApi \/ StopWaitApi \/ StopTermWorker
            \/ StopWaitWorker \/ StopStopsPg

LauncherNext ==
    \/ \E u \in Ups : UpStart(u) \/ UpStep(u) \/ Interrupt(u)
    \/ \E u \in Ups, k \in Kinds : ChildDrained(u, k) \/ ChildCrashes(u, k)
    \/ \E force \in BOOLEAN : StopBegin(force)
    \/ StopStep

(* The supervisor and the stop command are running processes whose every   *)
(* wait has a deadline; a child need not drain, a user need not act.       *)
LauncherFairness == WF_launcherVars(StopStep)
                    /\ \A u \in Ups : WF_launcherVars(UpStep(u))

LauncherSpec == LauncherInit /\ [][LauncherNext]_launcherVars /\ LauncherFairness

---------------------------------------------------------------------------
(* Properties *)

Recorded(u, k) == pidFile[k] = u
Overtaken(u)   == \E v \in Ups : v > u /\ sup[v].pc # "idle"

(* The clue is never lost: a live child is named by its pid file, so that  *)
(* a later `stop` finds it even when its supervisor was killed.  Three     *)
(* cases remain by the code's design: the supervisor was killed, or is,    *)
(* between Popen and the pid file, a later `up` has its own processes, or  *)
(* a `stop` ran while the supervisor, still starting on POSIX, had no      *)
(* launcher.pid yet.                                                       *)
NoLostChild ==
    \A u \in Ups, k \in Kinds :
        Alive(u, k) =>
            \/ Recorded(u, k)
            \/ sup[u].pc = (IF k = "api" THEN "recordApi" ELSE "recordWorker")
            \/ Overtaken(u)
            \/ u \in stop.unseen

(* PostgreSQL goes last: no step stops it while a child some pid file      *)
(* names is alive, unless that child's supervisor had not written          *)
(* launcher.pid when the stop command looked for it, or a later `up` was   *)
(* started over a worker that was still draining.                          *)
PgOutlivesChildren ==
    [][pg /\ ~pg' => \A u \in Ups, k \in Kinds :
           Alive(u, k) /\ Recorded(u, k) => u \in stop.unseen \/ Overtaken(u)]_launcherVars

(* `stop` returns: every wait of it has a deadline, whatever the           *)
(* supervisor and the children do.                                         *)
StopReturns == StopRuns ~> ~StopRuns

(* No child is lost: whatever up, stop and a kill of the supervisor do, a   *)
(* live child has a pid file by which a later stop finds it, but for the    *)
(* three cases named above (command_up, command_stop).                      *)
LauncherInv ==
    /\ LauncherTypeOK /\ NoLostChild
=============================================================================
