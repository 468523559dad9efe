------------------------------ MODULE MigrateV1 ------------------------------
(***************************************************************************)
(* The migration of a 1.x instance (tools/migrate_from_v1.py): table after *)
(* table, each in a transaction of its own, while the secrets of a table   *)
(* are stored one by one in transactions that are committed at once.  What *)
(* a table may refer to is known from the tables before it in this run.    *)
(* The run ends with a report and an exit code; it may also be killed.  The*)
(* operator may correct the workflows of the source and run it again.      *)
(***************************************************************************)
EXTENDS Naturals

CONSTANTS
    V1Users, V1Projects, V1Sources, V1Flows, V1Jobs, \* ids in the source
    V1States,   \* the states its jobs are in
    Global,     \* in place of a project: none; as a name: that of no project
    MaxRuns     \* bound: runs of the tool

ASSUME MigrateBounds == Global \notin V1Projects /\ MaxRuns \in Nat

VARIABLES
    v1,      \* the source
    options, \* whether a project takes in global datasources; its name and owner
    newDb,  \* the target database, a set of ids or a function per table
    vault,   \* the ids of users and datasources whose secret was newDb
    known,   \* the users and projects migrated by this run
    report,  \* rows counted as migrated and as skipped, and the exit code
    step,    \* the table to be migrated next, "off" between runs
    ran      \* runs started

migrateVars == <<v1, options, newDb, vault, known, report, step, ran>>

NoReport == [migrated |-> [t \in {"users", "projects", "sources", "flows", "jobs"} |-> {}],
             skipped |-> {}, exit |-> "none"]

NothingKnown == [users |-> {}, projects |-> {}, home |-> "none"]

EmptyTarget == [users |-> {}, projects |-> {}, members |-> {}, sources |-> {},
                flows |-> {}, jobs |-> {}]

\* A user lacks a required field, or has a second factor whose secret can or
\* cannot be decrypted.
UserRows == [V1Users -> {"lacking", "decrypts", "garbled"}]

-----------------------------------------------------------------------------
(* What each table keeps of its rows.                                       *)

KeptUsers == {u \in V1Users : v1.users[u] # "lacking"}

KeptProjects == {p \in V1Projects : v1.projects[p].owner \in known.users}

\* The owner is a member whether listed or not; others only if migrated.
MembersListed(p) == {<<p, u>> : u \in v1.projects[p].members \intersect known.users}

MembersOf(p) == MembersListed(p) \union {<<p, v1.projects[p].owner>>}

\* A global datasource goes to the project taking those in, if there is one.
ProjectOf(s) == IF v1.sources[s] = Global THEN known.home
                ELSE IF v1.sources[s] \in known.projects THEN v1.sources[s] ELSE "none"

KeptSources == {s \in V1Sources : ProjectOf(s) # "none"}

\* Workflows in migrated projects; one of them with a node that may not be
\* migrated keeps all of them out.

CandidateFlows == {w \in V1Flows : v1.flows[w].project \in known.projects}

AllFit == \A w \in CandidateFlows : v1.flows[w].fit

KeptJobs == {j \in V1Jobs : /\ v1.jobs[j].owner \in known.users
                            /\ v1.jobs[j].project \in known.projects}

\* What was under way has failed, and so has what is in no known state; what
\* was waiting is pending again, for a worker of the new instance.
JobStatus(s) ==
    CASE s \in {"pending", "cancelled"} -> s
      [] s \in {"succeeded", "success"} -> "success"
      [] OTHER -> "failed"

-----------------------------------------------------------------------------
NotMigrating == step = "off"

\* A run starts on whatever the target holds.
StartRun ==
    /\ NotMigrating /\ ran < MaxRuns
    /\ ran' = ran + 1 /\ step' = "users" /\ report' = NoReport
    /\ known' = NothingKnown
    /\ UNCHANGED <<v1, options, newDb, vault>>

Tallied(table, kept, all) ==
    [report EXCEPT !.migrated[table] = kept, !.skipped = @ \union (all \ kept)]

Advance(to) == step' = to

\* Rows are inserted: an id the target holds already is an error.
MigrateUsers ==
    /\ step = "users" /\ KeptUsers \intersect newDb.users = {}
    /\ newDb' = [newDb EXCEPT !.users = @ \union KeptUsers]
    /\ vault' = vault \union {u \in KeptUsers : v1.users[u] = "decrypts"}
    /\ known' = [known EXCEPT !.users = KeptUsers]
    /\ report' = Tallied("users", KeptUsers, V1Users)
    /\ Advance("projects") /\ UNCHANGED <<v1, options, ran>>

Stores(p) == \E q \in newDb.projects : q.id = p

MigrateProjects ==
    /\ step = "projects" /\ \A p \in KeptProjects : ~Stores(p)
    /\ newDb' = [newDb EXCEPT
                    !.projects = @ \union {[id |-> p, owner |-> v1.projects[p].owner] :
                                           p \in KeptProjects},
                    !.members = @ \union UNION {MembersOf(p) : p \in KeptProjects}]
    /\ known' = [known EXCEPT !.projects = KeptProjects]
    /\ report' = Tallied("projects", KeptProjects, V1Projects)
    /\ Advance("global") /\ UNCHANGED <<v1, options, vault, ran>>

NeedsGlobal == options.taking /\ \E s \in V1Sources : v1.sources[s] = Global

Home == IF Stores(options.name) THEN options.name ELSE Global

\* The project for global datasources, found by its name or created; a name
\* for its owner that no migrated user has ends the run.
TakeInGlobal ==
    /\ step = "global"
    /\ IF NeedsGlobal /\ options.owner \notin known.users
       THEN /\ report' = [report EXCEPT !.exit = "misconfigured"] /\ Advance("off")
            /\ UNCHANGED <<newDb, known>>
       ELSE /\ Advance("sources") /\ UNCHANGED report
            /\ IF NeedsGlobal
               THEN /\ known' = [known EXCEPT !.home = Home]
                    /\ newDb' = IF Stores(Home) THEN newDb
                                 ELSE [newDb EXCEPT
                                         !.projects = @ \union {[id |-> Home,
                                                                 owner |-> options.owner]},
                                         !.members = @ \union {<<Home, options.owner>>}]
               ELSE UNCHANGED <<newDb, known>>
    /\ UNCHANGED <<v1, options, vault, ran>>

MigrateDatasources ==
    /\ step = "sources" /\ \A d \in newDb.sources : d.id \notin KeptSources
    /\ newDb' = [newDb EXCEPT !.sources = @ \union
                     {[id |-> s, project |-> ProjectOf(s)] : s \in KeptSources}]
    /\ vault' = vault \union KeptSources
    /\ report' = Tallied("sources", KeptSources, V1Sources)
    /\ Advance("flows") /\ UNCHANGED <<v1, options, known, ran>>

\* Workflows (and templates, alike): checked as a whole before any is written.
MigrateWorkflows ==
    /\ step = "flows" /\ AllFit
    /\ \A w \in CandidateFlows : w \notin newDb.flows
    /\ newDb' = [newDb EXCEPT !.flows = @ \union CandidateFlows]
    /\ report' = Tallied("flows", CandidateFlows, V1Flows)
    /\ Advance("jobs") /\ UNCHANGED <<v1, options, vault, known, ran>>

\* Jobs and audit entries, after which the run is complete.
MigrateJobs ==
    /\ step = "jobs" /\ \A j \in newDb.jobs : j.id \notin KeptJobs
    /\ newDb' = [newDb EXCEPT !.jobs = @ \union
                     {[id |-> j, owner |-> v1.jobs[j].owner, project |-> v1.jobs[j].project,
                       status |-> JobStatus(v1.jobs[j].status)] : j \in KeptJobs}]
    /\ report' = [Tallied("jobs", KeptJobs, V1Jobs) EXCEPT !.exit = "complete"]
    /\ Advance("off") /\ UNCHANGED <<v1, options, vault, known, ran>>

\* The secrets a table has stored when it is given up.
SecretsOf(table) ==
    IF table = "users" THEN {u \in KeptUsers : v1.users[u] = "decrypts"}
    ELSE IF table = "sources" THEN KeptSources ELSE {}

ExitIncomplete == "incomplete"

\* A statement fails, or a workflow does not fit: the table is rolled back, what
\* was committed before stays, and so do the secrets stored on the way.
Abort ==
    /\ ~NotMigrating
    /\ step = "global" => NeedsGlobal /\ options.owner \in known.users
    /\ \E sub \in SUBSET SecretsOf(step) : vault' = vault \union sub
    /\ report' = [report EXCEPT !.exit = ExitIncomplete]
    /\ Advance("off") /\ UNCHANGED <<v1, options, newDb, known, ran>>

\* The process is killed: there is no report.
Killed ==
    /\ ~NotMigrating
    /\ \E sub \in SUBSET SecretsOf(step) : vault' = vault \union sub
    /\ report' = NoReport
    /\ Advance("off") /\ UNCHANGED <<v1, options, newDb, known, ran>>

\* The operator rewrites the workflows that do not fit.
CorrectFlows ==
    /\ NotMigrating /\ ran > 0 /\ \E w \in V1Flows : ~v1.flows[w].fit
    /\ v1' = [v1 EXCEPT !.flows = [w \in V1Flows |-> [@[w] EXCEPT !.fit = TRUE]]]
    /\ UNCHANGED <<options, newDb, vault, known, report, step, ran>>

MigrateInit ==
    /\ v1 \in [users : UserRows,
               projects : [V1Projects -> [owner : V1Users, members : SUBSET V1Users]],
               sources : [V1Sources -> V1Projects \union {Global}],
               flows : [V1Flows -> [project : V1Projects, fit : BOOLEAN]],
               jobs : [V1Jobs -> [owner : V1Users, project : V1Projects,
                                  status : V1States]]]
    /\ options \in [taking : BOOLEAN, owner : V1Users, name : V1Projects \union {Global}]
    /\ newDb = EmptyTarget /\ vault = {} /\ report = NoReport
    /\ known = NothingKnown /\ step = "off" /\ ran = 0

MigrateNext ==
    \/ StartRun \/ MigrateUsers \/ MigrateProjects \/ TakeInGlobal \/ MigrateDatasources
    \/ MigrateWorkflows \/ MigrateJobs \/ Abort \/ Killed \/ CorrectFlows

MigrateSpec == MigrateInit /\ [][MigrateNext]_migrateVars

-----------------------------------------------------------------------------
(* Properties.                                                              *)

\* Only rows of the source are stored.
MigrateTypeOK ==
    /\ newDb.users \subseteq V1Users /\ newDb.flows \subseteq V1Flows
    /\ vault \subseteq V1Users \union V1Sources
    /\ report.exit \in {"none", "complete", "incomplete", "misconfigured"}
    /\ \A j \in newDb.jobs : j.id \in V1Jobs

\* Whatever is left after an abort, a kill or a second run, no stored row
\* refers to one that is not stored, and every password and every second
\* factor that could be decrypted is in the secret store.
ReferencesHold ==
    LET ids == {p.id : p \in newDb.projects}
    IN /\ \A p \in newDb.projects : p.owner \in newDb.users /\ <<p.id, p.owner>> \in newDb.members
       /\ \A m \in newDb.members : m[1] \in ids /\ m[2] \in newDb.users
       /\ \A d \in newDb.sources : d.project \in ids /\ d.id \in vault
       /\ \A w \in newDb.flows : v1.flows[w].project \in ids
       /\ \A j \in newDb.jobs : j.owner \in newDb.users /\ j.project \in ids
       /\ \A u \in newDb.users : v1.users[u] = "decrypts" => u \in vault

\* An exit code of success means that the whole source is accounted for: each
\* row is stored or was reported as skipped, and the rows the report counts
\* are the rows there are.
SuccessIsWhole ==
    report.exit = "complete" =>
        /\ V1Users \union V1Projects \union V1Sources \union V1Flows \union V1Jobs
             = (UNION {report.migrated[t] : t \in DOMAIN report.migrated}) \union report.skipped
        /\ report.migrated["users"] = newDb.users
        /\ report.migrated["sources"] = {d.id : d \in newDb.sources}
        /\ report.migrated["flows"] = newDb.flows
        /\ report.migrated["jobs"] = {j.id : j \in newDb.jobs}

\* The workflows of an instance arrive together: if one is stored, so are all
\* those whose project was migrated.
FlowsAllOrNone ==
    newDb.flows # {} => \A w \in V1Flows : v1.flows[w].project \in {p.id : p \in newDb.projects}
                                             => w \in newDb.flows

\* No job begins a second time: the workers of the new instance may claim only
\* those that were still waiting in the source, and no job looks as if it were
\* running there, where no worker holds it.
NothingBeginsAgain ==
    \A j \in newDb.jobs :
        /\ j.status \in {"pending", "success", "failed", "cancelled"}
        /\ j.status = "pending" => v1.jobs[j.id].status = "pending"
        /\ j.status = "success" => v1.jobs[j.id].status \in {"succeeded", "success"}

(* A migration leaves no row that refers to nothing, says complete only     *)
(* when everything was carried over, carries workflows over together or not  *)
(* at all, and starts no job that had begun (migrate_from_v1).              *)
MigrateInv ==
    /\ MigrateTypeOK /\ ReferencesHold /\ SuccessIsWhole /\ FlowsAllOrNone
    /\ NothingBeginsAgain
==============================================================================
