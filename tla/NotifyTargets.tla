--------------------------- MODULE NotifyTargets ---------------------------
(***************************************************************************)
(* Where a workflow run announces itself.  The targets live in the         *)
(* workflow's stored definition and hold only a reference to a secret      *)
(* (webhook URL or SMTP password).  A run freezes the definition when it   *)
(* is triggered, or takes over what the sensor check that fires it froze;  *)
(* its notify node and its final announcement reveal the secret at the     *)
(* moment of sending.                                                      *)
(*                                                                         *)
(* A request locks the workflow row for its transaction; the secret of a   *)
(* replaced or removed target is deleted after the commit.  A full PUT     *)
(* carries what its client read earlier.                                   *)
(***************************************************************************)
EXTENDS Integers, Sequences, FiniteSets, FiniteSetsExt, Functions

CONSTANTS Webhooks, Mails,  \* target ids by channel; a webhook always has a secret
          Clients,          \* API requests, each made once
          Runs,             \* workflow runs
          MaxRefs,          \* bound on secrets stored
          MaxNodeRetries    \* retries of a notify node

ASSUME NotifyBounds == /\ Webhooks \intersect Mails = {}
                       /\ MaxRefs \in Nat /\ MaxNodeRetries \in Nat
                       /\ IsFiniteSet(Webhooks) /\ Cardinality(Webhooks) <= MaxRefs

VARIABLES targets,   \* stored definition: target id -> [ref, enabled], absent ids are not configured
          nodes,     \* targets that the notify node of the stored definition names
          exists,    \* the workflow row exists
          secrets,   \* references in the secret store
          last,      \* last reference handed out
          client,    \* per client: what it has read and what it still deletes
          wfRun,     \* per run, or sensor check: status, frozen definition, announcement
          orphans,   \* history: references dropped without deleting the secret
          revived    \* history: references a PUT wrote back after they were dropped

notifyVars == <<targets, nodes, exists, secrets, last, client, wfRun, orphans, revived>>

TargetIds == Webhooks \union Mails
NoRef == 0
ClientIdle == [at |-> "idle"]
ClientDone == [at |-> "done"]
NoWorkflowRun == [st |-> "none"]
Active == {"checking", "pending", "running"}
Final == {"success", "failed", "cancelled"}
RefsOf(def) == {def[t].ref : t \in DOMAIN def} \ {NoRef}
\* NotifyTarget._validate_channel_fields
ValidTarget(t, ref) == t \in Webhooks => ref # NoRef
\* WorkflowSpec: every notify node names configured targets
ValidSpec(def, named) == named \subseteq DOMAIN def

\* Each webhook was configured with a secret of its own, or not at all.
NotifyInit ==
  /\ last = Cardinality(Webhooks)
  /\ \E first \in SUBSET Webhooks : \E own \in Injection(first, 1..last) :
       /\ targets = [t \in first |-> [ref |-> own[t], enabled |-> TRUE]]
       /\ secrets = {own[t] : t \in first}
  /\ nodes = {} /\ exists = TRUE
  /\ client = [c \in Clients |-> ClientIdle]
  /\ wfRun = [r \in Runs |-> NoWorkflowRun]
  /\ orphans = {} /\ revived = {}

----------------------------------------------------------------------------
(* Targets as a sub-resource *)

WithTarget(def, t, ref) ==
  [u \in DOMAIN def \union {t} |-> IF u = t THEN [ref |-> ref, enabled |-> TRUE] ELSE def[u]]

\* The secret is stored before the target is built: a body that fails validation leaves it.
CreateNotification(c) ==
  /\ client[c] = ClientIdle /\ exists /\ last < MaxRefs
  /\ \E t \in TargetIds \ DOMAIN targets, secret \in BOOLEAN, valid \in BOOLEAN :
       LET ref == IF secret THEN last + 1 ELSE NoRef
       IN /\ secret \/ t \in Mails
          /\ last' = IF secret THEN last + 1 ELSE last
          /\ secrets' = secrets \union ({ref} \ {NoRef})
          /\ targets' = IF valid /\ ValidTarget(t, ref)
                        THEN WithTarget(targets, t, ref) ELSE targets
          /\ orphans' = IF valid THEN orphans ELSE orphans \union ({ref} \ {NoRef})
  /\ client' = [client EXCEPT ![c] = ClientDone]
  /\ UNCHANGED <<nodes, exists, wfRun, revived>>

\* _require_no_active_workflow_run_notify_target
InActiveRunRunning(t) == \E r \in Runs : wfRun[r].st = "running" /\ t \in DOMAIN wfRun[r].def
InActiveRun(t) == \E r \in Runs : wfRun[r].st \in Active /\ t \in DOMAIN wfRun[r].def

\* SecretDropped: what the client deletes once its transaction has committed.  A body
\* that fails validation leaves the new secret here too.
UpdateNotification(c) ==
  /\ client[c] = ClientIdle /\ exists /\ last < MaxRefs
  /\ \E t \in DOMAIN targets, secret \in BOOLEAN, on \in BOOLEAN, valid \in BOOLEAN :
       /\ ~InActiveRun(t)
       /\ LET ref == IF secret THEN last + 1 ELSE targets[t].ref
          IN /\ last' = IF secret THEN last + 1 ELSE last
             /\ secrets' = IF secret THEN secrets \union {ref} ELSE secrets
             /\ targets' = IF valid THEN [targets EXCEPT ![t] = [ref |-> ref, enabled |-> on]]
                           ELSE targets
             /\ orphans' = IF secret /\ ~valid THEN orphans \union {ref} ELSE orphans
             /\ client' = [client EXCEPT ![c] =
                  IF secret /\ valid /\ targets[t].ref # NoRef
                  THEN [at |-> "drops", ref |-> targets[t].ref] ELSE ClientDone]
  /\ UNCHANGED <<nodes, exists, wfRun, revived>>

NamedByNode(t) == t \in nodes

DeleteNotification(c) ==
  /\ client[c] = ClientIdle /\ exists
  /\ \E t \in DOMAIN targets :
       /\ ~NamedByNode(t) /\ ~InActiveRun(t)
       /\ targets' = Restrict(targets, DOMAIN targets \ {t})
       /\ client' = [client EXCEPT ![c] = IF targets[t].ref = NoRef THEN ClientDone
                                          ELSE [at |-> "drops", ref |-> targets[t].ref]]
  /\ UNCHANGED <<nodes, exists, secrets, last, wfRun, orphans, revived>>

SecretsLeft(ref) == secrets \ {ref}
SecretDropped(c) ==
  /\ client[c].at = "drops"
  /\ secrets' = SecretsLeft(client[c].ref)
  /\ client' = [client EXCEPT ![c] = ClientDone]
  /\ UNCHANGED <<targets, nodes, exists, last, wfRun, orphans, revived>>

----------------------------------------------------------------------------
(* The whole definition *)

GetWorkflow(c) ==
  /\ client[c] = ClientIdle /\ exists
  /\ client' = [client EXCEPT ![c] = [at |-> "edits", def |-> targets]]
  /\ UNCHANGED <<targets, nodes, exists, secrets, last, wfRun, orphans, revived>>

\* notifications are kept when the body omits them, and validated against the nodes either way
Merged(omits, def) == IF omits THEN targets ELSE def
UpdateWorkflow(c) ==
  /\ client[c].at = "edits" /\ exists
  /\ \E omits \in BOOLEAN, kept \in SUBSET DOMAIN client[c].def, named \in SUBSET TargetIds :
       LET def == Merged(omits, Restrict(client[c].def, kept))
       IN /\ omits => kept = {}
          /\ ValidSpec(def, named)
          /\ targets' = def
          /\ nodes' = named
          /\ orphans' = (orphans \union (RefsOf(targets) \ RefsOf(def))) \ RefsOf(def)
          /\ revived' = revived \union (RefsOf(def) \ RefsOf(targets))
  /\ client' = [client EXCEPT ![c] = ClientDone]
  /\ UNCHANGED <<exists, secrets, last, wfRun>>

DeleteWorkflow(c) ==
  /\ client[c] = ClientIdle /\ exists
  /\ exists' = FALSE
  /\ orphans' = orphans \union RefsOf(targets)
  /\ targets' = << >> /\ nodes' = {}
  /\ client' = [client EXCEPT ![c] = ClientDone]
  /\ UNCHANGED <<secrets, last, wfRun, revived>>

----------------------------------------------------------------------------
(* Runs *)

Frozen(st) ==
  [st |-> st, def |-> targets, named |-> nodes, node |-> IF nodes = {} THEN "none" ELSE "waiting",
   tries |-> 0, sent |-> {}, told |-> "nothing", heard |-> {}, late |-> FALSE]

\* trigger_workflow_run and the scheduler, under the row lock
TriggerRun(r) ==
  /\ wfRun[r] = NoWorkflowRun /\ exists
  /\ wfRun' = [wfRun EXCEPT ![r] = Frozen("pending")]
  /\ UNCHANGED <<targets, nodes, exists, secrets, last, client, orphans, revived>>

\* The scheduler dispatches a sensor check, also under the row lock.
SensorChecks(r) ==
  /\ wfRun[r] = NoWorkflowRun /\ exists
  /\ wfRun' = [wfRun EXCEPT ![r] = Frozen("checking")]
  /\ UNCHANGED <<targets, nodes, exists, secrets, last, client, orphans, revived>>

\* The check's job ends without a run, or is given up under a worker that still goes on.
SensorEnds(r) ==
  /\ wfRun[r].st = "checking"
  /\ \E st \in {"unmet", "lost"} : wfRun' = [wfRun EXCEPT ![r] = [@ EXCEPT !.st = st]]
  /\ UNCHANGED <<targets, nodes, exists, secrets, last, client, orphans, revived>>

\* claim_trigger_and_enqueue: the run has what the check froze.
SensorFires(r) ==
  /\ wfRun[r].st \in {"checking", "lost"} /\ exists
  /\ wfRun' = [wfRun EXCEPT ![r] = [@ EXCEPT !.st = "pending", !.late = (wfRun[r].st = "lost")]]
  /\ UNCHANGED <<targets, nodes, exists, secrets, last, client, orphans, revived>>

RunStarts(r) ==
  /\ wfRun[r].st = "pending"
  /\ wfRun' = [wfRun EXCEPT ![r].st = "running"]
  /\ UNCHANGED <<targets, nodes, exists, secrets, last, client, orphans, revived>>

\* A channel reveals the secret just before it sends.
Revealable(def, t) == def[t].ref = NoRef \/ def[t].ref \in secrets
\* The channels' send: delivered, or a failure result; never an exception.
Deliveries(def, tried) == SUBSET {t \in tried : Revealable(def, t)}
\* notify_node: every enabled target is attempted; each may fail on its own
Attempted(def, named) == {t \in named : def[t].enabled}
NodeSucceeds(tried, got) == got = tried

MayRetry(tries) == tries < MaxNodeRetries

Sent(run, tried, got) ==
  [run EXCEPT !.sent = @ \union got,
              !.node = IF NodeSucceeds(tried, got) THEN "done"
                       ELSE IF MayRetry(run.tries) THEN "waiting" ELSE "failed",
              !.tries = IF NodeSucceeds(tried, got) THEN @ ELSE @ + 1]

NotifyNode(r) ==
  /\ wfRun[r].st = "running" /\ wfRun[r].node = "waiting"
  /\ LET tried == Attempted(wfRun[r].def, wfRun[r].named)
     IN \E got \in Deliveries(wfRun[r].def, tried) :
          wfRun' = [wfRun EXCEPT ![r] = Sent(@, tried, got)]
  /\ UNCHANGED <<targets, nodes, exists, secrets, last, client, orphans, revived>>

\* Its condition is false, or the branch that leads to it was not taken.
NodeSkipped(r) ==
  /\ wfRun[r].st = "running" /\ wfRun[r].node = "waiting" /\ wfRun[r].tries = 0
  /\ wfRun' = [wfRun EXCEPT ![r] = [@ EXCEPT !.node = "skipped"]]
  /\ UNCHANGED <<targets, nodes, exists, secrets, last, client, orphans, revived>>

\* The worker writes the status of a run first and announces it after.
RunEnds(r) ==
  /\ wfRun[r].st \in {"pending", "running"}
  /\ \E st \in Final :
       /\ st = "success" => wfRun[r].st = "running" /\ wfRun[r].node \in {"none", "done", "skipped"}
       /\ st = "failed"  => wfRun[r].st = "running"
       /\ wfRun' = [wfRun EXCEPT ![r] = [@ EXCEPT !.st = st, !.told = "due"]]
  /\ UNCHANGED <<targets, nodes, exists, secrets, last, client, orphans, revived>>

\* WorkflowNotifyService.notify: per target, failures are swallowed
Announce(r) ==
  /\ wfRun[r].st \in Final /\ wfRun[r].told = "due"
  /\ \E got \in Deliveries(wfRun[r].def, {t \in DOMAIN wfRun[r].def : wfRun[r].def[t].enabled}) :
       wfRun' = [wfRun EXCEPT ![r] = [@ EXCEPT !.told = wfRun[r].st, !.heard = got]]
  /\ UNCHANGED <<targets, nodes, exists, secrets, last, client, orphans, revived>>

\* The worker dies between the status and the announcement: nobody repeats it.
AnnouncerDies(r) ==
  /\ wfRun[r].st \in Final /\ wfRun[r].told = "due"
  /\ wfRun' = [wfRun EXCEPT ![r].told = "never"]
  /\ UNCHANGED <<targets, nodes, exists, secrets, last, client, orphans, revived>>

NotifyNext ==
  \/ \E c \in Clients : \/ CreateNotification(c) \/ UpdateNotification(c) \/ DeleteNotification(c)
                        \/ SecretDropped(c) \/ GetWorkflow(c) \/ UpdateWorkflow(c) \/ DeleteWorkflow(c)
  \/ \E r \in Runs : \/ TriggerRun(r) \/ SensorChecks(r) \/ SensorEnds(r) \/ SensorFires(r)
                     \/ RunStarts(r) \/ NotifyNode(r) \/ NodeSkipped(r)
                     \/ RunEnds(r) \/ Announce(r) \/ AnnouncerDies(r)

NotifySpec == NotifyInit /\ [][NotifyNext]_notifyVars

----------------------------------------------------------------------------
(* Properties *)

NotifyTypeOK ==
  /\ DOMAIN targets \subseteq TargetIds
  /\ \A t \in DOMAIN targets : targets[t].ref \in 0..last /\ ValidTarget(t, targets[t].ref)
  /\ secrets \subseteq 1..last /\ last <= MaxRefs
  /\ \A r \in Runs : wfRun[r] # NoWorkflowRun =>
       /\ wfRun[r].st \in Active \union Final \union {"unmet", "lost"}
       /\ wfRun[r].tries <= MaxNodeRetries + 1
       /\ wfRun[r].sent \subseteq DOMAIN wfRun[r].def

(* While a run is pending or running, and from the sensor check that fires  *)
(* it on, the secrets of the targets it froze stay in the store, however    *)
(* targets are changed meanwhile.  Two ways break it: a PUT that writes     *)
(* back a target read before its secret was replaced, and a check whose job *)
(* was given up before its worker fired the run.                            *)
FrozenSecretsStay ==
  \A r \in Runs : wfRun[r].st \in Active /\ ~wfRun[r].late =>
     RefsOf(wfRun[r].def) \ revived \subseteq secrets

(* A configured target can be revealed: replacing or removing a target      *)
(* deletes the reference that was taken out, never the one that is in use.  *)
ConfiguredSecretsStay == RefsOf(targets) \ revived \subseteq secrets

(* When no request is at work, a stored secret belongs to a configured      *)
(* target or was left by one of the operations known to leave it (a PUT     *)
(* that drops the target, a deleted workflow, a refused body).              *)
NotifySecretsReclaimed ==
  (\A c \in Clients : client[c].at # "drops") =>
     secrets \subseteq RefsOf(targets) \union orphans \union revived

(* No notify node of the stored definition names a target that is gone.     *)
NodesResolve == exists => ValidSpec(targets, nodes)

(* A run whose notify node was not skipped succeeds only when the node      *)
(* reached every enabled target it names, over all its retries.  A node     *)
(* that is skipped tells nobody, and the run may still succeed.             *)
SuccessWasHeard ==
  \A r \in Runs : wfRun[r].st = "success" /\ wfRun[r].node # "skipped" =>
     {t \in wfRun[r].named : wfRun[r].def[t].enabled} \subseteq wfRun[r].sent

(* A run can announce itself to what it was frozen with: the secrets of its *)
(* targets stay while it is active, configured ones stay with the row,      *)
(* others go but for the known leaks, nodes of the stored definition        *)
(* resolve, and a run succeeds only if its notify node was skipped or       *)
(* reached every enabled target (notify target routes, notify node).        *)
NotifyInv ==
    /\ NotifyTypeOK
    /\ FrozenSecretsStay
    /\ ConfiguredSecretsStay
    /\ NotifySecretsReclaimed
    /\ NodesResolve
    /\ SuccessWasHeard
=============================================================================
