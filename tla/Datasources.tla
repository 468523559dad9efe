----------------------------- MODULE Datasources -----------------------------
(***************************************************************************)
(* Datasources, their passwords in the secret store, the metadata cache    *)
(* and the jobs that connect to them (src/app/api/routes/core.py,          *)
(* src/app/infrastructure/secretstore/local_file.py, src/app/worker.py).   *)
(* The secret store writes in transactions of its own: a request that      *)
(* changes a password stores the new secret, commits the row and deletes   *)
(* the old secret in three steps that other requests, jobs and a crash of  *)
(* the process can separate.                                               *)
(***************************************************************************)
EXTENDS Integers, FiniteSets

CONSTANTS Sources,       \* datasource ids; an id is used once
          Calls,         \* concurrent API requests
          ConnJobs,      \* test_connection and metadata_sync jobs
          MaxRefs,       \* bound: secrets ever stored
          MaxConfig,     \* bound: changes of a datasource's address
          MaxDeaths      \* bound: requests cut off by a crash

ASSUME DatasourceBounds == MaxRefs \in Nat /\ MaxConfig \in Nat /\ MaxDeaths \in Nat

VARIABLES ds,            \* the datasources table
          secret,        \* the secret_refs table
          call,          \* the requests in flight
          conn,          \* the jobs
          metadata,      \* metadata_caches: the address whose columns are cached
          refTask,       \* a compare task refers to the datasource (FK, RESTRICT)
          deaths,        \* requests cut off so far
          disturbed      \* history: a crash, a refused insert or password change,
                         \* or two requests at once on one datasource

datasourceVars == <<ds, secret, call, conn, metadata, refTask, deaths, disturbed>>

Refs     == 1..MaxRefs
NoRef    == 0
NoMetadata  == -1
IdleCall     == [op |-> "none", pc |-> "none", source |-> "none", old |-> NoRef,
             new |-> NoRef, config |-> 0]
Request(op, d, old, new, config) ==
    [op |-> op, pc |-> "write", source |-> d, old |-> old, new |-> new, config |-> config]
JobEnd   == {"done", "missing", "nosecret", "failed"}

DatasourcesTypeOK ==
    /\ ds \in [Sources -> [state : {"free", "live", "gone"}, ref : Refs \union {NoRef},
                           config : 0..MaxConfig]]
    /\ secret \in [Refs -> {"free", "live", "deleted"}]
    /\ call \in [Calls -> [op : {"none", "create", "update", "delete", "metadata"},
                           pc : {"none", "write", "drop"}, source : Sources \union {"none"},
                           old : Refs \union {NoRef}, new : Refs \union {NoRef},
                           config : 0..MaxConfig]]
    /\ conn \in [ConnJobs -> [pc : {"none", "asked", "queued", "loaded", "open"} \union JobEnd,
                              source : Sources \union {"none"}, kind : {"test", "sync"},
                              ref : Refs \union {NoRef}, config : 0..MaxConfig, raced : BOOLEAN]]
    /\ metadata \in [Sources -> {NoMetadata} \union (0..MaxConfig)]
    /\ refTask \in [Sources -> BOOLEAN]
    /\ deaths \in 0..MaxDeaths
    /\ disturbed \in BOOLEAN
    /\ \A d \in Sources : ds[d].state # "live" => metadata[d] = NoMetadata /\ ~refTask[d]

DatasourcesInit ==
    /\ ds = [d \in Sources |-> [state |-> "free", ref |-> NoRef, config |-> 0]]
    /\ secret = [r \in Refs |-> "free"]
    /\ call = [q \in Calls |-> IdleCall]
    /\ conn = [j \in ConnJobs |-> [pc |-> "none", source |-> "none", kind |-> "test",
                                   ref |-> NoRef, config |-> 0, raced |-> FALSE]]
    /\ metadata = [d \in Sources |-> NoMetadata]
    /\ refTask = [d \in Sources |-> FALSE]
    /\ deaths = 0
    /\ disturbed = FALSE

Live(d)   == ds[d].state = "live"
Writers(d) == {q \in Calls : call[q].source = d /\ call[q].op \in {"update", "delete"}}
Finish(q) == call' = [call EXCEPT ![q] = IdleCall]
CallAt(q, op, pc) == call[q].op = op /\ call[q].pc = pc

(* store_secret: a fresh ref, committed at once.  delete_secret likewise.  *)
StoreSecret(r) ==
    /\ secret[r] = "free" /\ \A s \in 1..(r - 1) : secret[s] # "free"
    /\ secret' = [secret EXCEPT ![r] = "live"]
DeleteSecret(r) == secret' = [secret EXCEPT ![r] = "deleted"]

---------------------------------------------------------------------------
(* create_datasource *)

CreateStore(q, d) ==
    /\ call[q] = IdleCall
    /\ ds[d].state = "free" /\ \A p \in Calls : call[p].source # d
    /\ \E r \in Refs : StoreSecret(r)
           /\ call' = [call EXCEPT ![q] = Request("create", d, NoRef, r, 0)]
    /\ UNCHANGED <<ds, conn, metadata, refTask, deaths, disturbed>>

(* The insert is refused by uq_datasources_project_name, or commits. *)
CreateInsert(q) ==
    /\ CallAt(q, "create", "write")
    /\ \/ /\ ds' = [ds EXCEPT ![call[q].source] = [state |-> "live", ref |-> call[q].new,
                                                   config |-> 0]]
          /\ UNCHANGED disturbed
       \/ disturbed' = TRUE /\ UNCHANGED ds
    /\ Finish(q)
    /\ UNCHANGED <<secret, conn, metadata, refTask, deaths>>

(* update_datasource: the row is read without a lock; the new password is  *)
(* stored before the row is written.                                       *)
UpdateRead(q, d, password) ==
    /\ call[q] = IdleCall /\ Live(d)
    /\ IF password
       THEN \E r \in Refs : StoreSecret(r)
                /\ call' = [call EXCEPT ![q] = Request("update", d, ds[d].ref, r, 0)]
       ELSE /\ call' = [call EXCEPT ![q] = Request("update", d, NoRef, NoRef, 0)]
            /\ UNCHANGED secret
    /\ disturbed' = (disturbed \/ Writers(d) # {})
    /\ UNCHANGED <<ds, conn, metadata, refTask, deaths>>

(* UPDATE ... WHERE id: no row is written when it was deleted meanwhile.   *)
UpdateWrite(q) ==
    /\ CallAt(q, "update", "write")
    /\ LET d == call[q].source IN
       \/ ~Live(d) /\ UNCHANGED ds
       \/ /\ Live(d)
          /\ call[q].new # NoRef
          /\ ds' = [ds EXCEPT ![d].ref = call[q].new]
       \/ /\ Live(d)
          /\ call[q].new = NoRef
          /\ ds[d].config < MaxConfig
          /\ ds' = [ds EXCEPT ![d].config = @ + 1]
    /\ IF call[q].new = NoRef THEN Finish(q) ELSE call' = [call EXCEPT ![q].pc = "drop"]
    /\ UNCHANGED <<secret, conn, metadata, refTask, deaths, disturbed>>

(* The new name is taken (uq_datasources_project_name): the row stays, and  *)
(* so does the secret that was just stored.                                *)
UpdateRefused(q) ==
    /\ CallAt(q, "update", "write") /\ Live(call[q].source)
    /\ Finish(q)
    /\ disturbed' = (disturbed \/ call[q].new # NoRef)
    /\ UNCHANGED <<ds, secret, conn, metadata, refTask, deaths>>

(* Mutant of DropSecret: the secret just stored is deleted. *)
DropSecretNew(q) ==
    /\ call[q].pc = "drop"
    /\ DeleteSecret(IF call[q].op = "update" THEN call[q].new ELSE call[q].old)
    /\ Finish(q)
    /\ UNCHANGED <<ds, conn, metadata, refTask, deaths, disturbed>>

(* After the commit of an update or a delete: the old secret goes. *)
DropSecret(q) ==
    /\ call[q].pc = "drop"
    /\ DeleteSecret(call[q].old)
    /\ Finish(q)
    /\ UNCHANGED <<ds, conn, metadata, refTask, deaths, disturbed>>

(* _datasource_job_references: test_connection jobs count until they end,  *)
(* every other job for ever.                                               *)
JobReferences(d) ==
    {j \in ConnJobs : /\ conn[j].source = d
                      /\ conn[j].pc \notin {"none", "asked"}
                      /\ conn[j].kind # "test" \/ conn[j].pc \notin JobEnd}

(* delete_datasource: refused (409) while referenced.                      *)
DeleteRead(q, d) ==
    /\ call[q] = IdleCall /\ Live(d)
    /\ JobReferences(d) = {} /\ ~refTask[d]
    /\ call' = [call EXCEPT ![q] = Request("delete", d, ds[d].ref, NoRef, 0)]
    /\ disturbed' = (disturbed \/ Writers(d) # {})
    /\ UNCHANGED <<ds, secret, conn, metadata, refTask, deaths>>

(* The foreign key of a compare task made meanwhile refuses the delete     *)
(* (the request fails); otherwise the metadata cache goes with the row.    *)
DeleteWrite(q) ==
    /\ CallAt(q, "delete", "write")
    /\ LET d == call[q].source IN
       IF refTask[d]
       THEN Finish(q) /\ UNCHANGED <<ds, metadata>>
       ELSE /\ ds' = [ds EXCEPT ![d].state = "gone"]
            /\ metadata' = [metadata EXCEPT ![d] = NoMetadata]
            /\ call' = [call EXCEPT ![q].pc = "drop"]
    /\ UNCHANGED <<secret, conn, refTask, deaths, disturbed>>

(* The process dies with the request in flight. *)
CallDies(q) ==
    /\ call[q] # IdleCall
    /\ deaths < MaxDeaths
    /\ deaths' = deaths + 1
    /\ disturbed' = TRUE
    /\ Finish(q)
    /\ UNCHANGED <<ds, secret, conn, metadata, refTask>>

(* _create_compare_task_record and delete_compare_task, as far as the      *)
(* datasource is concerned.                                                *)
TaskRefers(d) ==
    /\ Live(d)
    /\ refTask' = [refTask EXCEPT ![d] = ~@]
    /\ UNCHANGED <<ds, secret, call, conn, metadata, deaths, disturbed>>

---------------------------------------------------------------------------
(* _metadata_payload: a miss probes the datasource with the row as it was  *)
(* read, and writes the cache in a transaction of its own.                 *)

MetadataMiss(q, d) ==
    /\ call[q] = IdleCall /\ Live(d)
    /\ call' = [call EXCEPT ![q] = Request("metadata", d, ds[d].ref, NoRef, ds[d].config)]
    /\ UNCHANGED <<ds, secret, conn, metadata, refTask, deaths, disturbed>>

(* The probe fails without the password; the insert fails without the row. *)
MetadataWrite(q) ==
    /\ CallAt(q, "metadata", "write")
    /\ LET d == call[q].source IN
       metadata' = IF secret[call[q].old] = "live" /\ Live(d)
                   THEN [metadata EXCEPT ![d] = call[q].config] ELSE metadata
    /\ Finish(q)
    /\ UNCHANGED <<ds, secret, conn, refTask, deaths, disturbed>>

(* _METADATA_CACHE_TTL has passed. *)
MetadataExpires(d) ==
    /\ metadata[d] # NoMetadata
    /\ metadata' = [metadata EXCEPT ![d] = NoMetadata]
    /\ UNCHANGED <<ds, secret, call, conn, refTask, deaths, disturbed>>

---------------------------------------------------------------------------
(* test_datasource and create_metadata_sync read the row, then enqueue.    *)

JobAsk(j, d, kind) ==
    /\ conn[j].pc = "none" /\ Live(d)
    /\ conn' = [conn EXCEPT ![j].pc = "asked", ![j].source = d, ![j].kind = kind]
    /\ UNCHANGED <<ds, secret, call, metadata, refTask, deaths, disturbed>>

JobEnqueue(j) ==
    /\ conn[j].pc = "asked"
    /\ LET d == conn[j].source IN
       conn' = [conn EXCEPT ![j].pc = "queued",
                            ![j].raced = \/ ~Live(d)
                                         \/ \E q \in Calls : CallAt(q, "delete", "write")
                                                             /\ call[q].source = d]
    /\ UNCHANGED <<ds, secret, call, metadata, refTask, deaths, disturbed>>

(* PostgresDatasourceLoader in the worker. *)
JobLoad(j) ==
    /\ conn[j].pc = "queued"
    /\ LET d == conn[j].source IN
       conn' = [conn EXCEPT ![j] = IF Live(d)
                   THEN [@ EXCEPT !.pc = "loaded", !.ref = ds[d].ref, !.config = ds[d].config]
                   ELSE [@ EXCEPT !.pc = "missing"]]
    /\ UNCHANGED <<ds, secret, call, metadata, refTask, deaths, disturbed>>

(* reveal_secret when the adapter connects: the row, then the audit record *)
(* (fail-closed), then the plaintext.                                      *)
JobReveal(j) ==
    /\ conn[j].pc = "loaded"
    /\ \E pc \in IF secret[conn[j].ref] = "live" THEN {"open", "failed"} ELSE {"nosecret"} :
           conn' = [conn EXCEPT ![j].pc = pc]
    /\ UNCHANGED <<ds, secret, call, metadata, refTask, deaths, disturbed>>

(* _execute_test_connection ends; _execute_metadata_sync writes a table's  *)
(* columns and goes on, or is done, cancelled or refused by the foreign    *)
(* key of the cache.                                                       *)
JobRuns(j) ==
    /\ conn[j].pc = "open"
    /\ \/ /\ conn[j].kind = "sync" /\ Live(conn[j].source)
          /\ metadata' = [metadata EXCEPT ![conn[j].source] = conn[j].config]
          /\ UNCHANGED conn
       \/ /\ \E pc \in {"done", "failed"} : conn' = [conn EXCEPT ![j].pc = pc]
          /\ UNCHANGED metadata
    /\ UNCHANGED <<ds, secret, call, refTask, deaths, disturbed>>

---------------------------------------------------------------------------
DatasourcesNext ==
    \/ \E q \in Calls, d \in Sources : CreateStore(q, d) \/ DeleteRead(q, d) \/ MetadataMiss(q, d)
    \/ \E q \in Calls, d \in Sources, p \in BOOLEAN : UpdateRead(q, d, p)
    \/ \E q \in Calls : \/ CreateInsert(q) \/ UpdateWrite(q) \/ UpdateRefused(q)
                        \/ DropSecret(q) \/ DeleteWrite(q) \/ CallDies(q) \/ MetadataWrite(q)
    \/ \E d \in Sources : TaskRefers(d) \/ MetadataExpires(d)
    \/ \E j \in ConnJobs, d \in Sources, k \in {"test", "sync"} : JobAsk(j, d, k)
    \/ \E j \in ConnJobs : JobEnqueue(j) \/ JobLoad(j) \/ JobReveal(j) \/ JobRuns(j)

DatasourcesSpec == DatasourcesInit /\ [][DatasourcesNext]_datasourceVars

---------------------------------------------------------------------------
(* Properties *)

(* A datasource can always be connected to: whatever the order of the      *)
(* steps of several password changes, deletes and crashes, the row refers  *)
(* to a secret that is still in the store.                                 *)
NoDanglingSecret == \A d \in Sources : Live(d) => secret[ds[d].ref] = "live"

(* Secrets are reclaimed: when no request is in flight and requests never  *)
(* overlapped, failed or died, the store holds the secrets of the          *)
(* datasources that exist and no others.                                   *)
SecretsReclaimed ==
    (~disturbed /\ \A q \in Calls : call[q] = IdleCall) =>
        {r \in Refs : secret[r] = "live"} = {ds[d].ref : d \in {e \in Sources : Live(e)}}

(* Deleting a datasource takes it from no job that was queued when the     *)
(* references were looked up: only a job enqueued while the delete was     *)
(* under way, or after it, finds the datasource missing.                   *)
MissingOnlyByRace == \A j \in ConnJobs : conn[j].pc = "missing" => conn[j].raced

(* A datasource and its password stay together through overlapping edits,   *)
(* deletes and crashes: no row names a secret that is gone, nothing is left *)
(* behind by calls that did not overlap, fail or die, and a job misses its  *)
(* source only when it was enqueued behind the delete's back (create_,      *)
(* update_ and delete_datasource).                                          *)
DatasourcesInv ==
    /\ DatasourcesTypeOK
    /\ NoDanglingSecret
    /\ SecretsReclaimed
    /\ MissingOnlyByRace
=============================================================================
