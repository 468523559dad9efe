---------------------------- MODULE JobLifecycle -----------------------------
(***************************************************************************)
(* What the queue promises to those who submit jobs (the JobBackend        *)
(* contract, app/infrastructure/jobbackend/protocol.py): a job is leased   *)
(* to one worker at a time, a lease ends when its worker settles the job,  *)
(* yields it, dies, or is given up on, and only a worker that holds the    *)
(* lease records an outcome.  JobQueue implements this with guarded        *)
(* updates and heartbeats, and no lease is stored anywhere.                *)
(***************************************************************************)
CONSTANTS
    Jobs,       \* job ids
    Runs,       \* the jobs that may be yielded
    Nodes,      \* the jobs that may be withdrawn and reopened
    Workers     \* worker ids

VARIABLES
    phase,      \* what a job's submitter sees
    leases      \* pairs of a worker and the job it works on

LifecycleInit == phase = [j \in Jobs |-> "absent"] /\ leases = {}

LeasesOn(j) == {l \in leases : l[2] = j}

LeasesOf(w) == {l \in leases : l[1] = w}

Become(j, from, to) == phase[j] = from /\ phase' = [phase EXCEPT ![j] = to]

Submit(j) == Become(j, "absent", "pending") /\ UNCHANGED leases

Withdraw(j) == j \in Nodes /\ Become(j, "pending", "cancelled") /\ UNCHANGED leases

Reopen(j) == j \in Nodes /\ Become(j, "failed", "pending") /\ UNCHANGED leases

Take(w, j) ==
    /\ Become(j, "pending", "running")
    /\ LeasesOf(w) = {} /\ LeasesOn(j) = {}
    /\ leases' = leases \union {<<w, j>>}

\* A job whose lease was given up on is running again for somebody else, or is
\* over: its former worker can neither settle nor yield it.
Settle(w, j, out) ==
    /\ Become(j, "running", out)
    /\ <<w, j>> \in leases
    /\ leases' = leases \ {<<w, j>>}

Yield(w, j) ==
    /\ j \in Runs /\ Become(j, "running", "pending")
    /\ <<w, j>> \in leases
    /\ leases' = leases \ {<<w, j>>}

\* The worker dies: the job stays running until it is given up on.
Lose(w, j) ==
    /\ <<w, j>> \in leases
    /\ leases' = leases \ {<<w, j>>}
    /\ UNCHANGED phase

\* Some running jobs are queued again or failed, and their leases end.
GiveUpOn(js) ==
    /\ js # {} /\ \A j \in js : phase[j] = "running"
    /\ \A j \in js : phase'[j] \in {"pending", "failed"}
    /\ phase' = [j \in Jobs |-> IF j \in js THEN phase'[j] ELSE phase[j]]
    /\ leases' = {l \in leases : l[2] \notin js}

\* Every operation changes what a submitter or a worker sees.
LifecycleNext ==
    /\ <<phase, leases>>' # <<phase, leases>>
    /\ \/ \E j \in Jobs : Submit(j) \/ Withdraw(j) \/ Reopen(j)
       \/ \E w \in Workers, j \in Jobs :
             \/ Take(w, j) \/ Yield(w, j) \/ Lose(w, j)
             \/ \E out \in {"success", "failed", "cancelled"} : Settle(w, j, out)
       \/ \E js \in SUBSET Jobs : GiveUpOn(js)

LifecycleSpec == LifecycleInit /\ [][LifecycleNext]_<<phase, leases>>
==============================================================================
