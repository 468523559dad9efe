---------------------------- MODULE CompareTasks ----------------------------
(***************************************************************************)
(* Compare tasks as the API keeps them: created, cloned, patched, deleted  *)
(* and run by several clients at once, over files that are uploaded and    *)
(* collected by their time to live.                                        *)
(*                                                                         *)
(* A task is modelled by its source side (the target side is checked and   *)
(* stored the same way) and its name; its columns and rules are taken to   *)
(* name a key, without which a run is refused before it reads anything.    *)
(* A handler that reads a row and writes later in the same request takes   *)
(* two steps: rows are read without a lock, the database is READ COMMITTED. *)
(***************************************************************************)
EXTENDS Naturals, Sequences, FiniteSets

CONSTANTS
    Tasks,       \* identifiers of compare tasks
    UploadIds,   \* identifiers of uploads
    Handlers,    \* API requests in several steps, one each
    CompareRuns, \* identifiers of runs
    MaxCopies    \* bound: how often a copy is copied

ASSUME CompareTasksBounds == MaxCopies \in Nat \ {0} /\ IsFiniteSet(Tasks)

VARIABLES
    task,    \* compare_tasks: the row of each identifier, or NoTask
    upload,  \* uploads and the file of each upload
    run,     \* run_index and the frozen payload of the run's job
    handler, \* what each request has read and is about to write
    temps,   \* temporary files left behind by previews
    raced,   \* history: some task was patched from a row that had changed since
    taken    \* history: names inserted while a clone was choosing its own

taskVars == <<task, upload, run, handler, temps, raced, taken>>

NoTask == [name |-> <<0>>]
NoFile == "no_file"
NoRun == [task |-> NoFile]
Ready == [at |-> "ready"]
Over == [at |-> "over"]

RefKinds == {"table", "file", "result_snapshot"}

\* A name is the sequence of the numbers of its copies: <<>> is the name the
\* user chose, <<1>> is "name (copy)", <<2>> is "name (copy 2)".
Names == UNION {[1..n -> 1..(Cardinality(Tasks) + 1)] : n \in 0..MaxCopies}

\* One side of a task: how its rows are named, by which datasource or file.
Side == [kind : RefKinds, ds : BOOLEAN, file : UploadIds \union {NoFile}]

Task == [name : Names, side : Side]

Stored(t) == task[t] # NoTask

UsedNames == {task[t].name : t \in {t \in Tasks : Stored(t)}}

Upload == [file : {"none", "present", "collected"}, row : BOOLEAN,
           purpose : {"lineage_batch", "compare_source"}]

Run == [task : Tasks \union {NoFile}, side : Side,
        status : {"pending", "success", "failed", "unreadable"}]

-----------------------------------------------------------------------------
(* Validation.                                                              *)

\* A ref of kind file names an upload; no other does.
RefIsValid(side) == (side.kind = "file") <=> (side.file # NoFile)

SideFits(side) == /\ side.kind = "table" => side.ds
                  /\ side.kind = "result_snapshot" => ~side.ds

UploadIsUsableSoon(side) ==
    side.kind = "file" => upload[side.file].purpose = "compare_source"

UploadIsUsable(side) ==
    side.kind = "file" => upload[side.file].row
                          /\ upload[side.file].purpose = "compare_source"

\* What a request's body may ask for: a well-formed ref with its datasource.
Bodies == {side \in Side : RefIsValid(side)}

\* uq_compare_tasks_project_name, evaluated when the row is written.
NameIsFree(name) == name \notin UsedNames

CopyName(base, n) == Append(base, n)

NextCopyName(base, existing) ==
    CopyName(base, CHOOSE n \in 1..(Cardinality(Tasks) + 1) :
                       /\ CopyName(base, n) \notin existing
                       /\ \A k \in 1..(n - 1) : CopyName(base, k) \in existing)

-----------------------------------------------------------------------------
(* Uploads.                                                                 *)

\* The body has been received within the size limit: the artifact is put in
\* the result store before the row is inserted.
PutArtifact(u) == [upload[u] EXCEPT !.file = "present"]

CreateUpload(u, h, purpose) ==
    /\ handler[h] = Ready /\ upload[u].file = "none" /\ ~upload[u].row
    /\ \A k \in Handlers : handler[k].at = "upload" => handler[k].file # u
    /\ upload' = [upload EXCEPT ![u] = [PutArtifact(u) EXCEPT !.purpose = purpose]]
    /\ handler' = [handler EXCEPT ![h] = [at |-> "upload", file |-> u]]
    /\ UNCHANGED <<task, run, temps, raced, taken>>

RegisterUpload(h) ==
    /\ handler[h].at = "upload"
    /\ upload' = [upload EXCEPT ![handler[h].file].row = TRUE]
    /\ handler' = [handler EXCEPT ![h] = Over]
    /\ UNCHANGED <<task, run, temps, raced, taken>>

\* gc_expired removes the directory of an upload older than its time to live;
\* nothing ever deletes the row.
CollectUpload(u) ==
    /\ upload[u].file = "present"
    /\ upload' = [upload EXCEPT ![u].file = "collected"]
    /\ UNCHANGED <<task, run, handler, temps, raced, taken>>

\* The preview of a file copies it to a temporary file, which is unlinked
\* whether or not the reader accepts it.  The copy is made before that block:
\* a missing artifact leaves the temporary file behind.

Unlinked(copied, parsed) == copied

PreviewFile(u, parsed) ==
    /\ upload[u].row /\ upload[u].purpose = "compare_source"
    /\ temps' = IF Unlinked(upload[u].file = "present", parsed)
                THEN temps ELSE temps \union {u}
    /\ UNCHANGED <<task, upload, run, handler, raced, taken>>

-----------------------------------------------------------------------------
(* Tasks.                                                                   *)

Noted(name) == [h \in Handlers |-> IF handler[h].at = "clone_insert"
                                   THEN taken[h] \union {name} ELSE taken[h]]

CreateTask(t, side) ==
    /\ ~Stored(t) /\ NameIsFree(<<>>)
    /\ SideFits(side) /\ UploadIsUsable(side)
    /\ task' = [task EXCEPT ![t] = [name |-> <<>>, side |-> side]]
    /\ taken' = Noted(<<>>)
    /\ UNCHANGED <<upload, run, handler, temps, raced>>

\* The row that is cloned is read on a connection of its own.
CloneRead(h, t) ==
    /\ handler[h] = Ready /\ Stored(t) /\ Len(task[t].name) < MaxCopies
    /\ handler' = [handler EXCEPT ![h] = [at |-> "clone_name", row |-> task[t]]]
    /\ UNCHANGED <<task, upload, run, temps, raced, taken>>

CloneName(h) ==
    /\ handler[h].at = "clone_name"
    /\ handler' = [handler EXCEPT ![h] =
         [at |-> "clone_insert", row |-> handler[h].row,
          name |-> NextCopyName(handler[h].row.name, UsedNames)]]
    /\ taken' = [taken EXCEPT ![h] = {}]
    /\ UNCHANGED <<task, upload, run, temps, raced>>

\* Two clones that chose the same name: the unique constraint refuses the
\* later insert, the request ends with an internal error.
CloneInsert(h, t) ==
    /\ handler[h].at = "clone_insert" /\ ~Stored(t)
    /\ NameIsFree(handler[h].name)
    /\ task' = [task EXCEPT ![t] = [handler[h].row EXCEPT !.name = handler[h].name]]
    /\ taken' = [Noted(handler[h].name) EXCEPT ![h] = {}]
    /\ handler' = [handler EXCEPT ![h] = Over]
    /\ UNCHANGED <<upload, run, temps, raced>>

CloneRefused(h) ==
    /\ handler[h].at = "clone_insert" /\ ~NameIsFree(handler[h].name)
    /\ handler' = [handler EXCEPT ![h] =
         [at |-> "clone_failed", name |-> handler[h].name]]
    /\ UNCHANGED <<task, upload, run, temps, raced, taken>>

CloneReports(h) ==
    /\ handler[h].at = "clone_failed"
    /\ handler' = [handler EXCEPT ![h] = Over]
    /\ taken' = [taken EXCEPT ![h] = {}]
    /\ UNCHANGED <<task, upload, run, temps, raced>>

\* A patch gives the name the user chose, or a new ref, a new datasource or
\* both; "unset" stands for a field that the body does not name.
Patches ==
    {p \in [renames : BOOLEAN, ref : {"unset"} \union RefKinds,
            file : UploadIds \union {NoFile}, ds : {"unset", "given", "null"}] :
        /\ (p.ref = "file") <=> (p.file # NoFile)
        /\ p.renames <=> (p.ref = "unset" /\ p.ds = "unset")}

PatchedDs(row, patch) ==
    IF patch.ref = "result_snapshot" THEN FALSE
    ELSE IF patch.ds = "unset" THEN row.side.ds ELSE patch.ds = "given"

PatchedSide(row, patch) ==
    [kind |-> IF patch.ref = "unset" THEN row.side.kind ELSE patch.ref,
     file |-> IF patch.ref = "unset" THEN row.side.file ELSE patch.file,
     ds |-> PatchedDs(row, patch)]

\* The body is checked against the row as it was read.
UpdateRead(h, t, patch) ==
    /\ handler[h] = Ready /\ Stored(t)
    /\ SideFits(PatchedSide(task[t], patch))
    /\ UploadIsUsable(PatchedSide(task[t], patch))
    /\ handler' = [handler EXCEPT ![h] =
         [at |-> "update", id |-> t, row |-> task[t], patch |-> patch]]
    /\ UNCHANGED <<task, upload, run, temps, raced, taken>>

\* Only the columns of the fields that are given, and a datasource that the
\* patch changed, are written.

UpdatedRow(now, row, patch) ==
    LET side == PatchedSide(row, patch)
        writesDs == patch.ds # "unset" \/ side.ds # row.side.ds
    IN [name |-> IF patch.renames THEN <<>> ELSE now.name,
        side |-> [kind |-> IF patch.ref = "unset" THEN now.side.kind ELSE side.kind,
                  file |-> IF patch.ref = "unset" THEN now.side.file ELSE side.file,
                  ds |-> IF writesDs THEN side.ds ELSE now.side.ds]]

\* A row deleted since is reported as not found, a name taken since is refused
\* by the unique constraint.
UpdateWrite(h) ==
    /\ handler[h].at = "update"
    /\ LET t == handler[h].id
           now == UpdatedRow(task[t], handler[h].row, handler[h].patch)
           accepted == Stored(t) /\ (now.name = task[t].name \/ NameIsFree(now.name))
       IN IF accepted
          THEN /\ task' = [task EXCEPT ![t] = now]
               /\ raced' = (raced \/ task[t] # handler[h].row)
               /\ taken' = Noted(now.name)
          ELSE UNCHANGED <<task, raced, taken>>
    /\ handler' = [handler EXCEPT ![h] = Over]
    /\ UNCHANGED <<upload, run, temps>>

\* run_index.task_id is set to null with the task.

DeletedIndex(t) ==
    [r \in CompareRuns |-> IF run[r] # NoRun /\ run[r].task = t
                           THEN [run[r] EXCEPT !.task = NoFile] ELSE run[r]]

DeleteTask(t) ==
    /\ Stored(t)
    /\ task' = [task EXCEPT ![t] = NoTask]
    /\ run' = DeletedIndex(t)
    /\ UNCHANGED <<upload, handler, temps, raced, taken>>

-----------------------------------------------------------------------------
(* Runs.                                                                    *)

RunRead(h, t) ==
    /\ handler[h] = Ready /\ Stored(t)
    /\ UploadIsUsable(task[t].side)
    /\ handler' = [handler EXCEPT ![h] = [at |-> "run", id |-> t, row |-> task[t]]]
    /\ UNCHANGED <<task, upload, run, temps, raced, taken>>

\* The job and its run_index row are inserted in one transaction: the foreign
\* key refuses both when the task is gone.
RunEnqueue(h, r) ==
    /\ handler[h].at = "run" /\ run[r] = NoRun
    /\ LET t == handler[h].id IN
       run' = IF Stored(t)
              THEN [run EXCEPT ![r] = [task |-> t, side |-> handler[h].row.side,
                                       status |-> "pending"]]
              ELSE run
    /\ handler' = [handler EXCEPT ![h] = Over]
    /\ UNCHANGED <<task, upload, temps, raced, taken>>

\* The worker copies the file, through the storage uri frozen in the payload,
\* to a temporary file of its own in the same way.
ExecuteRun(r, parsed) ==
    /\ run[r] # NoRun /\ run[r].status = "pending"
    /\ LET u == run[r].side.file
           copied == run[r].side.kind = "file" => upload[u].file = "present"
       IN /\ run' = [run EXCEPT ![r].status =
                       IF ~copied THEN "failed"
                       ELSE IF parsed THEN "success" ELSE "unreadable"]
          /\ temps' = IF Unlinked(copied, parsed) THEN temps ELSE temps \union {u}
    /\ UNCHANGED <<task, upload, handler, raced, taken>>

-----------------------------------------------------------------------------
TasksInit ==
    /\ task = [t \in Tasks |-> NoTask]
    /\ upload = [u \in UploadIds |-> [file |-> "none", row |-> FALSE,
                                  purpose |-> "compare_source"]]
    /\ run = [r \in CompareRuns |-> NoRun]
    /\ handler = [h \in Handlers |-> Ready]
    /\ temps = {} /\ raced = FALSE /\ taken = [h \in Handlers |-> {}]

TasksNext ==
    \/ \E u \in UploadIds : \/ \E h \in Handlers, p \in {"lineage_batch", "compare_source"} :
                              CreateUpload(u, h, p)
                        \/ CollectUpload(u)
                        \/ \E parsed \in BOOLEAN : PreviewFile(u, parsed)
    \/ \E t \in Tasks : \/ \E side \in Bodies : CreateTask(t, side)
                        \/ DeleteTask(t)
    \/ \E h \in Handlers :
        \/ RegisterUpload(h) \/ CloneName(h) \/ CloneRefused(h) \/ CloneReports(h)
        \/ UpdateWrite(h)
        \/ \E t \in Tasks : \/ CloneRead(h, t) \/ CloneInsert(h, t) \/ RunRead(h, t)
                            \/ \E patch \in Patches : UpdateRead(h, t, patch)
        \/ \E r \in CompareRuns : RunEnqueue(h, r)
    \/ \E r \in CompareRuns, parsed \in BOOLEAN : ExecuteRun(r, parsed)

TasksSpec == TasksInit /\ [][TasksNext]_taskVars

-----------------------------------------------------------------------------
(* Properties.                                                              *)

\* Every row, upload and run has its shape, and every stored ref is one that
\* the request's validation would accept.
TasksTypeOK ==
    /\ \A t \in Tasks : Stored(t) => task[t] \in Task /\ RefIsValid(task[t].side)
    /\ upload \in [UploadIds -> Upload]
    /\ \A r \in CompareRuns : run[r] # NoRun => run[r] \in Run
    /\ temps \subseteq UploadIds /\ raced \in BOOLEAN

\* Whatever clients patch, a stored side can be run (a table has its
\* datasource, a snapshot has none), unless two patches overlapped: each is
\* checked against the row it read, neither against what both wrote.
SidesFitUnlessRaced ==
    ~raced => \A t \in Tasks : Stored(t) =>
                 /\ task[t].side.kind = "table" => task[t].side.ds
                 /\ task[t].side.kind = "result_snapshot" => ~task[t].side.ds

\* The index of runs never names a task that is gone, also when the task is
\* deleted between the read and the enqueue of a run.
RunsNameStoredTasks ==
    \A r \in CompareRuns : run[r] # NoRun /\ run[r].task # NoFile => Stored(run[r].task)

\* A run fails for want of its file only after the file was collected: the
\* row by which a task finds an upload is written after the file.
MissingFileWasCollected ==
    \A r \in CompareRuns : run[r] # NoRun /\ run[r].status = "failed"
                           => upload[run[r].side.file].file = "collected"

\* A clone is refused its name only if that name was inserted after the clone
\* had looked for a free one.
CloneFailsOnlyByRace ==
    \A h \in Handlers : handler[h].at = "clone_failed" => handler[h].name \in taken[h]

\* A preview or a run leaves a temporary file behind only for an upload whose artifact
\* has been collected.
TempsOnlyOfCollected == \A u \in temps : upload[u].file = "collected"

(* Tasks, uploads and runs stay consistent: a side can be run and a clone   *)
(* finds a name unless two requests raced, runs name stored tasks, and a    *)
(* missing upload or a temporary file left behind means that the upload had *)
(* been collected (compare task and upload routes, upload GC).              *)
TasksInv ==
    /\ TasksTypeOK
    /\ SidesFitUnlessRaced
    /\ RunsNameStoredTasks
    /\ MissingFileWasCollected
    /\ CloneFailsOnlyByRace
    /\ TempsOnlyOfCollected
=============================================================================
