----------------------------- MODULE MCProcesses -----------------------------
(* The processes of an installation, side by side: workers that serve the    *)
(* queue, the launcher that starts and stops everything, a call into a       *)
(* business database, the updater, and an installation being set up.  A      *)
(* behaviour is one of a single part, the others rest where they begin, and  *)
(* fairness is each part's own.                                              *)
EXTENDS JobQueue, Launcher, AdapterCall, PayloadUpdater, Bootstrap

VARIABLE part

LauncherRests == platform = "posix" /\ LauncherInit

AdapterRests == dialect = "mysql" /\ AdapterInit

MCInit ==
    /\ part \in {"queue", "launcher", "adapter", "updater", "bootstrap"}
    /\ Init /\ UpdaterInit /\ BootstrapInit
    /\ part = "launcher" \/ LauncherRests
    /\ part = "adapter" \/ AdapterRests
    /\ CASE part = "launcher" -> LauncherInit [] part = "adapter" -> AdapterInit [] OTHER -> TRUE

MCNext ==
    /\ UNCHANGED part
    /\ \/ /\ part = "queue" /\ Next
          /\ UNCHANGED <<launcherVars, adapterVars, updaterVars, bootstrapVars>>
       \/ /\ part = "launcher" /\ LauncherNext
          /\ UNCHANGED <<vars, adapterVars, updaterVars, bootstrapVars>>
       \/ /\ part = "adapter" /\ AdapterNext
          /\ UNCHANGED <<vars, launcherVars, updaterVars, bootstrapVars>>
       \/ /\ part = "updater" /\ UpdaterNext
          /\ UNCHANGED <<vars, launcherVars, adapterVars, bootstrapVars>>
       \/ /\ part = "bootstrap" /\ BootstrapNext
          /\ UNCHANGED <<vars, launcherVars, adapterVars, updaterVars>>

\* Fairness, LauncherFairness and AdapterFairness, each where its part is on.
MCFairness ==
    /\ \A w \in Workers : WF_vars(part = "queue" /\ WorkerStep(w))
    /\ \A j \in Jobs : WF_vars(part = "queue" /\ Orphaned(j) /\ HeartbeatLapses(j))
    /\ WF_launcherVars(part = "launcher" /\ StopStep)
    /\ \A u \in Ups : WF_launcherVars(part = "launcher" /\ UpStep(u))
    /\ WF_adapterVars(part = "adapter" /\ (ExecuteRaises \/ ExecuteReturns))
    /\ WF_adapterVars(part = "adapter" /\ Watch)
    /\ WF_adapterVars(part = "adapter" /\ ServerSideCancel)
    /\ WF_adapterVars(part = "adapter" /\ TimeoutFires)

MCSpec ==
    /\ MCInit
    /\ [][MCNext]_<<part, vars, launcherVars, adapterVars, updaterVars, bootstrapVars>>
    /\ MCFairness
==============================================================================
