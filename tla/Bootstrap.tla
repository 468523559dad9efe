------------------------------ MODULE Bootstrap ------------------------------
(***************************************************************************)
(* An installation from nothing: the launcher's commands that generate the *)
(* bootstrap secrets, initialise and start the metadata PostgreSQL and     *)
(* migrate its schema (app/launcher.py), the reading of those files        *)
(* (infrastructure/bootstrap/local_file.py) and the store of application   *)
(* secrets that every server process opens with the master key             *)
(* (infrastructure/secretstore/local_file.py).  Commands run one at a time *)
(* and may be killed between any two of their steps; server processes come *)
(* and go.  The content of a file is the number of times it was generated; *)
(* what a secret says and how it is encrypted are not modelled, only the   *)
(* key that can read it.                                                   *)
(***************************************************************************)
EXTENDS Naturals, FiniteSets

CONSTANTS
    Processes,    \* server processes, each with its own secret store
    Refs,         \* references of application secrets
    MaxCommands,  \* bound: commands given
    MaxReveals    \* bound: recorded reveals after which none begins

ASSUME BootstrapBounds ==
    IsFiniteSet(Processes) /\ MaxCommands \in Nat /\ MaxReveals \in Nat

VARIABLES
    files,    \* the bootstrap secrets on disk
    pgsql,    \* the PostgreSQL cluster
    cmd,      \* the command under way; forced: one was given with --force
    store,    \* the secret store of each process: the key it was opened with
    rows      \* secret_refs and audit_logs

bootstrapVars == <<files, pgsql, cmd, store, rows>>

Secrets == {"master", "app", "super", "jwt"}

\* The order in which command_bootstrap_init generates them.
After(f) == CASE f = "master" -> "app" [] f = "app" -> "super" [] f = "super" -> "jwt"
              [] OTHER -> "end"

NoFile == [state |-> "missing", gen |-> 0]

NoCluster == [state |-> "absent", running |-> FALSE, super |-> 0, role |-> 0,
              database |-> FALSE, schema |-> FALSE]

NoCommand == [kind |-> "none", at |-> "end", force |-> FALSE, open |-> FALSE, given |-> 0,
              forced |-> FALSE]

NoStore == [key |-> 0, pc |-> "down"]

BootstrapInit ==
    /\ files = [f \in Secrets |-> NoFile]
    /\ pgsql = NoCluster /\ cmd = NoCommand
    /\ store = [p \in Processes |-> NoStore]
    /\ rows = [key |-> [r \in Refs |-> 0], returned |-> 0, audited |-> 0]

serving == <<store, rows>>

-----------------------------------------------------------------------------
(* Commands of the launcher, one at a time. *)

Gives(kind, first, force) ==
    /\ cmd.at = "end" /\ cmd.given < MaxCommands
    /\ cmd' = [cmd EXCEPT !.kind = kind, !.at = first, !.force = force, !.open = FALSE,
                          !.given = @ + 1, !.forced = @ \/ force]

Goes(step) == cmd' = [cmd EXCEPT !.at = step, !.open = FALSE]

At(kind, step) == cmd.kind = kind /\ cmd.at = step

\* A command may be killed where it stands.  initdb writes PG_VERSION early and
\* is not there to clean up.
CommandKilled ==
    /\ cmd.at # "end"
    /\ Goes("end")
    /\ pgsql' = IF cmd.at = "initdb" THEN [pgsql EXCEPT !.state = "partial"] ELSE pgsql
    /\ UNCHANGED <<files, serving>>

InitGiven ==
    /\ \E force \in BOOLEAN : Gives("init", "master", force)
    /\ UNCHANGED <<files, pgsql, serving>>

\* Mutant of Keeps: a file that exists is generated anew.
KeepsNone(f) == FALSE

\* _write_secret_file keeps a file that exists, whatever is in it.
Keeps(f) == files[f].state # "missing" /\ ~cmd.force

SecretKept(f) ==
    /\ At("init", f) /\ ~cmd.open /\ Keeps(f)
    /\ Goes(After(f))
    /\ UNCHANGED <<files, pgsql, serving>>

\* Opening the file for writing empties it.
SecretOpened(f) ==
    /\ At("init", f) /\ ~cmd.open /\ ~Keeps(f)
    /\ files' = [files EXCEPT ![f].state = "empty"]
    /\ cmd' = [cmd EXCEPT !.open = TRUE]
    /\ UNCHANGED <<pgsql, serving>>

SecretWritten(f) ==
    /\ At("init", f) /\ cmd.open
    /\ files' = [files EXCEPT ![f] = [state |-> "full", gen |-> @.gen + 1]]
    /\ Goes(After(f))
    /\ UNCHANGED <<pgsql, serving>>

-----------------------------------------------------------------------------
(* pg-up, pg-stop and alembic-up *)

\* What reading a secret gives: nothing for an empty file.
Read(f) == IF files[f].state = "full" THEN files[f].gen ELSE 0

PgUpGiven ==
    /\ Gives("pgup", IF pgsql.state = "absent" THEN "initdb" ELSE "start", FALSE)
    /\ UNCHANGED <<files, pgsql, serving>>

\* initdb gives the superuser the password in the file, and refuses to work
\* without one.
InitDb ==
    /\ At("pgup", "initdb")
    /\ IF Read("super") # 0
       THEN /\ pgsql' = [pgsql EXCEPT !.state = "ready", !.super = Read("super")]
            /\ Goes("start")
       ELSE UNCHANGED pgsql /\ Goes("end")
    /\ UNCHANGED <<files, serving>>

\* _database_ready and _wait_for_database log in as the superuser.
SuperLogsIn(pg) == pg.running /\ Read("super") # 0 /\ pg.super = Read("super")

\* A cluster that answers is used; else pg_ctl starts it, which fails if it
\* runs or is broken, and the launcher waits for it to answer.
StartPg ==
    /\ At("pgup", "start") /\ files["super"].state # "missing"
    /\ pgsql' = [pgsql EXCEPT !.running = @ \/ pgsql.state = "ready"]
    /\ Goes(IF SuperLogsIn(pgsql) \/ (~pgsql.running /\ SuperLogsIn(pgsql'))
            THEN "role" ELSE "end")
    /\ UNCHANGED <<files, serving>>

\* _ensure_metadata_database: the role gets the password of the file whether it
\* is new or not, the database is created if it is not there.
EnsureRole ==
    /\ At("pgup", "role") /\ files["app"].state # "missing"
    /\ pgsql' = [pgsql EXCEPT !.role = Read("app")]
    /\ Goes("database")
    /\ UNCHANGED <<files, serving>>

EnsureDatabase ==
    /\ At("pgup", "database")
    /\ pgsql' = [pgsql EXCEPT !.database = TRUE]
    /\ Goes("end")
    /\ UNCHANGED <<files, serving>>

\* The command failed: a file it needs is missing.
FileMissing ==
    /\ \/ At("pgup", "start") /\ files["super"].state = "missing"
       \/ At("pgup", "role") /\ files["app"].state = "missing"
    /\ Goes("end")
    /\ UNCHANGED <<files, pgsql, serving>>

PgStop ==
    /\ Gives("pgstop", "end", FALSE)
    /\ pgsql' = [pgsql EXCEPT !.running = FALSE]
    /\ UNCHANGED <<files, serving>>

\* What the application needs to log in to its database.
AppLogsIn ==
    pgsql.running /\ pgsql.database /\ Read("app") # 0 /\ pgsql.role = Read("app")

AlembicUp ==
    /\ Gives("alembic", "end", FALSE)
    /\ pgsql' = [pgsql EXCEPT !.schema = @ \/ AppLogsIn]
    /\ UNCHANGED <<files, serving>>

-----------------------------------------------------------------------------
(* The secret store of a server process. *)

\* LocalFileSecretStore reads the master key once, when it is constructed.
StoreOpens(p) ==
    /\ store[p].pc = "down" /\ AppLogsIn /\ pgsql.schema /\ Read("master") # 0
    /\ store' = [store EXCEPT ![p] = [key |-> Read("master"), pc |-> "open"]]
    /\ UNCHANGED <<files, pgsql, cmd, rows>>

StoreCloses(p) ==
    /\ store[p].pc # "down"
    /\ store' = [store EXCEPT ![p] = NoStore]
    /\ UNCHANGED <<files, pgsql, cmd, rows>>

Encrypted(r, k) == [rows EXCEPT !.key[r] = k]

\* store_secret, and rotate_secret on a row that exists, with the store's key.
StoresSecret(p, r) ==
    /\ store[p].pc = "open" /\ pgsql.running
    /\ rows' = Encrypted(r, store[p].key)
    /\ UNCHANGED <<files, pgsql, cmd, store>>

Deletes(p, r) ==
    /\ store[p].pc = "open" /\ pgsql.running /\ rows.key[r] # 0
    /\ rows' = Encrypted(r, 0)
    /\ UNCHANGED <<files, pgsql, cmd, store>>

\* reveal_secret: the row is read and decrypted, the reveal is recorded, and
\* only then is the plaintext handed out; a record that fails keeps it back,
\* for allow_audit_failure is set by none of the programs.
Decrypts(p, r) ==
    /\ store[p].pc = "open" /\ pgsql.running /\ rows.audited < MaxReveals
    /\ rows.key[r] = store[p].key
    /\ store' = [store EXCEPT ![p].pc = "auditing"]
    /\ UNCHANGED <<files, pgsql, cmd, rows>>

AuditFails(p) ==
    /\ store[p].pc = "auditing"
    /\ store' = [store EXCEPT ![p].pc = "open"]
    /\ UNCHANGED <<files, pgsql, cmd, rows>>

Audits(p) ==
    /\ store[p].pc = "auditing" /\ pgsql.running
    /\ rows' = [rows EXCEPT !.audited = @ + 1]
    /\ store' = [store EXCEPT ![p].pc = "returning"]
    /\ UNCHANGED <<files, pgsql, cmd>>

Returns(p) ==
    /\ store[p].pc = "returning"
    /\ rows' = [rows EXCEPT !.returned = @ + 1]
    /\ store' = [store EXCEPT ![p].pc = "open"]
    /\ UNCHANGED <<files, pgsql, cmd>>

BootstrapNext ==
    \/ CommandKilled \/ InitGiven \/ PgUpGiven \/ InitDb \/ StartPg \/ EnsureRole \/ EnsureDatabase
    \/ FileMissing \/ PgStop \/ AlembicUp
    \/ \E f \in Secrets : SecretKept(f) \/ SecretOpened(f) \/ SecretWritten(f)
    \/ \E p \in Processes :
         \/ StoreOpens(p) \/ StoreCloses(p) \/ AuditFails(p) \/ Audits(p) \/ Returns(p)
         \/ \E r \in Refs : StoresSecret(p, r) \/ Deletes(p, r) \/ Decrypts(p, r)

BootstrapSpec == BootstrapInit /\ [][BootstrapNext]_bootstrapVars

-----------------------------------------------------------------------------
(* Properties. *)

SecretFiles == [state : {"missing", "empty", "full"}, gen : Nat]

Clusters == [state : {"absent", "partial", "ready"}, running : BOOLEAN, super : Nat,
             role : Nat, database : BOOLEAN, schema : BOOLEAN]

Commands == [kind : {"none", "init", "pgup", "pgstop", "alembic"},
             at : Secrets \union {"initdb", "start", "role", "database", "end"},
             force : BOOLEAN, open : BOOLEAN, given : Nat, forced : BOOLEAN]

SecretStores == [key : Nat, pc : {"down", "open", "auditing", "returning"}]

BootstrapTypeOK ==
    /\ files \in [Secrets -> SecretFiles] /\ pgsql \in Clusters /\ cmd \in Commands
    /\ store \in [Processes -> SecretStores]
    /\ rows \in [key : [Refs -> Nat], returned : Nat, audited : Nat]

\* Unless somebody said --force, no secret is ever replaced, however often the
\* command is given, killed and given again.
GeneratedOnce == ~cmd.forced => \A f \in Secrets : files[f].gen <= 1

\* Nor is anybody locked out: the cluster's superuser has the password of the
\* file, and every row of secret_refs can be read by a process that starts now.
NobodyIsLockedOut ==
    ~cmd.forced =>
       /\ pgsql.state = "ready" => pgsql.super = Read("super")
       /\ \A r \in Refs : rows.key[r] \in {0, Read("master")}

\* pg-up got as far as the role only on a cluster it could log in to.
RoleOnlyOnReady == pgsql.role # 0 => pgsql.state = "ready" /\ pgsql.super # 0

\* No plaintext leaves a store without a row in audit_logs.
RevealsAreAudited == rows.returned <= rows.audited

(* Bootstrap secrets survive reruns and kills of the commands that make      *)
(* them, what was set up with them stays reachable, and no secret is         *)
(* revealed off the record (app/launcher.py, LocalFileSecretStore).          *)
BootstrapInv == BootstrapTypeOK /\ GeneratedOnce /\ NobodyIsLockedOut /\ RoleOnlyOnReady
                /\ RevealsAreAudited
=============================================================================
