------------------------------- MODULE MCStudio ------------------------------
(* What users and administrators edit, side by side: compare tasks and their *)
(* uploads, the targets a workflow announces itself to, accounts, the AI     *)
(* configuration with the calls made under it, and the SQL workbench, whose  *)
(* documents and history share no state.  A behaviour is one of a single     *)
(* part, and the others rest where they begin.                               *)
EXTENDS CompareTasks, NotifyTargets, Accounts, AiCalls, SqlWorkbench

VARIABLE part

\* The handlers are the clients and the requests; the tasks are the users.
Symmetry == Permutations(Handlers) \union Permutations(Tasks)

NotifyRests == targets = << >> /\ secrets = {} /\ NotifyInit

AccountsRest == AccountsInit /\ user[CHOOSE u \in Users : TRUE].exists

MCInit ==
    /\ part \in {"tasks", "notify", "accounts", "ai", "documents", "history"}
    /\ TasksInit /\ AiInit /\ WorkbenchInit
    /\ part = "notify" \/ NotifyRests
    /\ part = "accounts" \/ AccountsRest
    /\ CASE part = "notify" -> NotifyInit [] part = "accounts" -> AccountsInit [] OTHER -> TRUE

MCNext ==
    /\ UNCHANGED part
    /\ \/ /\ part = "tasks" /\ TasksNext
          /\ UNCHANGED <<notifyVars, accountVars, aiVars, workbenchVars>>
       \/ /\ part = "notify" /\ NotifyNext
          /\ UNCHANGED <<taskVars, accountVars, aiVars, workbenchVars>>
       \/ /\ part = "accounts" /\ AccountsNext
          /\ UNCHANGED <<taskVars, notifyVars, aiVars, workbenchVars>>
       \/ /\ part = "ai" /\ AiNext
          /\ UNCHANGED <<taskVars, notifyVars, accountVars, workbenchVars>>
       \/ /\ part = "documents" /\ DocumentsNext
          /\ UNCHANGED <<taskVars, notifyVars, accountVars, aiVars>>
       \/ /\ part = "history" /\ HistoryNext
          /\ UNCHANGED <<taskVars, notifyVars, accountVars, aiVars>>

(* What administrators change under requests that are under way: a run can   *)
(* announce itself to the targets it was frozen with and succeeds only when  *)
(* each was reached (NotifyTargets), and second factors, forced logouts and  *)
(* the ownership of projects hold (Accounts).                                *)
AdministrationInv == NotifyInv /\ AccountsInv

MCSpec == MCInit /\ [][MCNext]_<<part, taskVars, notifyVars, accountVars, aiVars, workbenchVars>>
==============================================================================
