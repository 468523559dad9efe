---------------------------- MODULE LineageBatch ----------------------------
(* A batch analysis: the worker goes through the members of an uploaded ZIP  *)
(* file by file, stores what it finds and writes one report for the batch.   *)
(* LineageStore has the rows of lineage_runs in full; here a script has as   *)
(* many rows as analyses rowsOf it.                                          *)
EXTENDS Integers, SequencesExt

CONSTANTS Archives,        \* ZIPs: sequences of [script, sql, size, ops, reads, rows]
          Undecodable,     \* the scripts that are empty or of no known encoding
          NamedRoles,      \* [tables -> roles read off a table's name]
          MaxFiles,        \* _LINEAGE_BATCH_MAX_FILES
          MaxFileBytes,    \* _LINEAGE_BATCH_MAX_FILE_BYTES
          MaxTotalBytes,   \* _LINEAGE_BATCH_MAX_TOTAL_BYTES
          RowsPerFile,     \* _LINEAGE_BATCH_DETAIL_MAX_ROWS_PER_FILE
          TotalRows,       \* _LINEAGE_BATCH_DETAIL_MAX_TOTAL_ROWS
          BatchWorkers, MaxTries

ASSUME BatchBounds == {MaxFiles, MaxFileBytes, MaxTotalBytes,
                       RowsPerFile, TotalRows, MaxTries} \subseteq Nat

VARIABLES archive,      \* the members in their order
          hasSource,    \* the batch names a datasource: its runs are stored
          rowsOf,       \* [scripts -> rows of lineage_runs]
          batchJob,     \* the job: status, owner, tries, cancel
          progress,     \* [BatchWorkers -> where a worker is in the batch]
          batchReport,  \* lineage_batch_report.json
          disturbed,    \* the report was collected, or reopened by a worker
                        \* that no longer owned the job
          batchAnswer   \* what the last reader got

batchVars == <<archive, hasSource, rowsOf, batchJob, progress, batchReport, disturbed,
               batchAnswer>>

BatchScripts == UNION {{a[i].script : i \in DOMAIN a} : a \in Archives}
BatchTables == DOMAIN NamedRoles
NotThere == [kind |-> "none"]        \* there is no such file
Truncated == [kind |-> "truncated"]  \* opened for writing, nothing written yet
NoOwner == "nobody"
NotWorking == [pc |-> "idle"]

----------------------------------------------------------------------------
(* What one script does to a table, and what a batch of them adds up to.     *)

WrittenBy(m) == {m.ops[i].table : i \in DOMAIN m.ops}
OpsOn(m, t, names) == {i \in DOMAIN m.ops : m.ops[i].table = t /\ m.ops[i].op \in names}
Inserts == {"insert", "create"}
Precede(A, B) == \E i \in A, j \in B : i < j

(* classify_refresh_mode for the statements of one script.                   *)
RefreshMode(m, t) ==
    LET ins == OpsOn(m, t, Inserts)
        upd == OpsOn(m, t, {"update"})
        mrg == OpsOn(m, t, {"merge"})
        del == OpsOn(m, t, {"delete"})
    IN  IF Precede(OpsOn(m, t, {"truncate"}), ins) THEN "truncate_insert"
        ELSE IF Precede(del, ins)
             THEN IF \E i \in del : m.ops[i].full THEN "delete_insert"
                  ELSE "delete_insert_partial"
        ELSE IF mrg # {} /\ ins = {} /\ upd = {} THEN "merge"
        ELSE IF upd # {} /\ ins = {} /\ mrg = {} THEN "update"
        ELSE IF ins # {} /\ upd = {} /\ mrg = {} THEN "append"
        ELSE IF ins \union upd \union mrg # {} THEN "mixed"
        ELSE "none"

RefreshSeverity == <<"none", "append", "mixed", "update", "merge",
                     "delete_insert_partial", "delete_insert", "truncate_insert">>
FullReload == {"truncate_insert", "delete_insert"}

(* build_target_integration: each script on its own, then the strongest.     *)
TargetMode(ms, t) ==
    LET modes == {RefreshMode(ms[i], t) : i \in DOMAIN ms}
        rank == {k \in DOMAIN RefreshSeverity : RefreshSeverity[k] \in modes}
    IN IF ms = <<>> THEN "none" ELSE RefreshSeverity[Max(rank)]

(* _classify_table and its merge over the scripts.                           *)
RolesIn(m, t) ==
    LET found == NamedRoles[t] \union
            (IF t \notin WrittenBy(m) THEN {}
             ELSE IF t \in m.reads THEN {"intermediate"} ELSE {"target"})
    IN IF found = {} THEN {"source_fact"} ELSE found
MergedRoles(ms, t) ==
    UNION {RolesIn(ms[i], t) :
              i \in {j \in DOMAIN ms : t \in WrittenBy(ms[j]) \union ms[j].reads}}

PrimaryOrder == <<"remote_dblink", "intermediate", "target", "config", "reference",
                  "dimension", "filter", "source_fact">>
PrimaryRole(roles) ==
    LET hit == {k \in DOMAIN PrimaryOrder : PrimaryOrder[k] \in roles}
    IN PrimaryOrder[Min(hit)]

(* _project_lineage_batch_details: rows kept of each kind of each file while *)
(* the budget of the batch lasts.                                            *)
KeepRows(sum, total) ==
    LET kept == Min({RowsPerFile, Max({sum.left, 0}), total})
    IN [left |-> sum.left - kept, cut |-> sum.cut \/ kept < total,
        kept |-> Append(sum.kept, kept)]
Details(ms) == FoldLeft(KeepRows, [left |-> TotalRows, cut |-> FALSE, kept |-> <<>>],
                        FlattenSeq([i \in DOMAIN ms |-> ms[i].rows]))

(* _lineage_batch_script_edges.                                              *)
ScriptEdges(files) ==
    {<<i, j>> \in (DOMAIN files) \X (DOMAIN files) :
        /\ i # j /\ "failed" \notin {files[i].status, files[j].status}
        /\ WrittenBy(files[i].of) \intersect files[j].of.reads # {}}

(* The report of _execute_lineage_batch; files that failed have no lineage.  *)
BatchReport(e) ==
    LET ok == SelectSeq(e.files, LAMBDA f : f.status # "failed")
        ms == [i \in DOMAIN ok |-> ok[i].of]
        targets == UNION {WrittenBy(ms[i]) : i \in DOMAIN ms}
        seen == targets \union UNION {ms[i].reads : i \in DOMAIN ms}
    IN [kind |-> "report", files |-> e.files, skipped |-> e.skipped,
        edges |-> ScriptEdges(e.files),
        modes |-> [t \in targets |-> TargetMode(ms, t)],
        reloads |-> {t \in targets : TargetMode(ms, t) \in FullReload},
        roles |-> [t \in seen |-> PrimaryRole(MergedRoles(ms, t))],
        kept |-> Details(ms).kept, truncated |-> Details(ms).cut]

----------------------------------------------------------------------------
BatchInit ==
    /\ archive \in Archives
    /\ hasSource \in BOOLEAN
    /\ rowsOf = [s \in BatchScripts |-> 0]
    /\ batchJob = [status |-> "none", owner |-> NoOwner, tries |-> 0, cancel |-> FALSE]
    /\ progress = [w \in BatchWorkers |-> NotWorking]
    /\ batchReport = NotThere /\ disturbed = FALSE /\ batchAnswer = NotThere

(* create_lineage_batch.                                                     *)
CreateBatch ==
    /\ batchJob.status = "none"
    /\ batchJob' = [batchJob EXCEPT !.status = "pending"]
    /\ UNCHANGED <<archive, hasSource, rowsOf, progress, batchReport, disturbed, batchAnswer>>

(* request_cancel leaves a flag, whatever the job is doing.                  *)
CancelBatch ==
    /\ batchJob.status # "none" /\ ~batchJob.cancel
    /\ batchJob' = [batchJob EXCEPT !.cancel = TRUE]
    /\ UNCHANGED <<archive, hasSource, rowsOf, progress, batchReport, disturbed, batchAnswer>>

(* Another analysis of the same text: a first one, or a refresh that leaves  *)
(* the superseded row in the table.                                          *)
OtherAnalysis(s) ==
    /\ hasSource /\ s \notin Undecodable /\ rowsOf[s] < 2
    /\ \E i \in DOMAIN archive : archive[i].script = s
    /\ rowsOf' = [rowsOf EXCEPT ![s] = @ + 1]
    /\ UNCHANGED <<archive, hasSource, batchJob, progress, batchReport, disturbed, batchAnswer>>

----------------------------------------------------------------------------
(* The worker.                                                               *)

SqlMembers == SelectSeq(archive, LAMBDA m : m.sql)
Eligible == SubSeq(SqlMembers, 1, Min({Len(SqlMembers), MaxFiles}))

(* The job is taken and the ZIP opened; an upload the collector removed      *)
(* meanwhile fails the job.                                                  *)
ClaimBatch(w, there) ==
    /\ batchJob.status = "pending" /\ progress[w] = NotWorking
    /\ IF there
       THEN /\ batchJob' = [batchJob EXCEPT !.status = "running", !.owner = w]
            /\ progress' = [progress EXCEPT ![w] =
                 [pc |-> "file", next |-> 1, bytes |-> 0, files |-> <<>>,
                  skipped |-> [non_sql |-> Len(archive) - Len(SqlMembers),
                               over_file_limit |-> Len(SqlMembers) - Len(Eligible),
                               too_large |-> 0]]]
       ELSE batchJob' = [batchJob EXCEPT !.status = "failed"] /\ UNCHANGED progress
    /\ UNCHANGED <<archive, hasSource, rowsOf, batchReport, disturbed, batchAnswer>>

(* What a worker writes to the job counts only while the job is its own.     *)
EndsAs(w, status) ==
    batchJob' = IF batchJob.status = "running" /\ batchJob.owner = w
             THEN [batchJob EXCEPT !.status = status, !.owner = NoOwner] ELSE batchJob

BatchCancelled(w) ==
    /\ progress[w].pc = "file" /\ progress[w].next <= Len(Eligible) /\ batchJob.cancel
    /\ EndsAs(w, "cancelled") /\ progress' = [progress EXCEPT ![w] = NotWorking]
    /\ UNCHANGED <<archive, hasSource, rowsOf, batchReport, disturbed, batchAnswer>>

AtFile(w) == progress[w].pc = "file" /\ progress[w].next <= Len(Eligible) /\ ~batchJob.cancel

(* Mutant of SizeFits: the total is left out.                                *)
SizeFitsAlone(e, m) == m.size <= MaxFileBytes
(* A member is read while it and the total stay within the limits.           *)
SizeFits(e, m) == m.size <= MaxFileBytes /\ e.bytes + m.size <= MaxTotalBytes

(* The entry of one member in the report; its bytes were read.               *)
Entered(e, m, status) ==
    [e EXCEPT !.pc = "file", !.next = @ + 1, !.bytes = @ + m.size,
              !.files = Append(@, [of |-> m, status |-> status])]

FileSkipped(w) ==
    /\ AtFile(w) /\ ~SizeFits(progress[w], Eligible[progress[w].next])
    /\ progress' = [progress EXCEPT ![w].skipped.too_large = @ + 1, ![w].next = @ + 1]
    /\ UNCHANGED <<archive, hasSource, rowsOf, batchJob, batchReport, disturbed, batchAnswer>>

(* _lineage_batch_file without a row to store: text nobody can read, a batch *)
(* without datasource, a script whose run is in the table already.           *)
FileAnalyzed(w) ==
    LET m == Eligible[progress[w].next]
        status == IF m.script \in Undecodable THEN "failed"
                  ELSE IF ~hasSource THEN "parsed"
                  ELSE "cached"
    IN
    /\ AtFile(w) /\ SizeFits(progress[w], m)
    /\ status = "cached" => rowsOf[m.script] = 1
    /\ progress' = [progress EXCEPT ![w] = Entered(@, m, status)]
    /\ UNCHANGED <<archive, hasSource, rowsOf, batchJob, batchReport, disturbed, batchAnswer>>

(* cached_run_id finds nothing: persist_run follows, in its own transaction. *)
FileUncached(w) ==
    LET m == Eligible[progress[w].next] IN
    /\ AtFile(w) /\ SizeFits(progress[w], m)
    /\ m.script \notin Undecodable /\ hasSource /\ rowsOf[m.script] = 0
    /\ progress' = [progress EXCEPT ![w].pc = "insert"]
    /\ UNCHANGED <<archive, hasSource, rowsOf, batchJob, batchReport, disturbed, batchAnswer>>

FilePersisted(w) ==
    LET m == Eligible[progress[w].next] IN
    /\ progress[w].pc = "insert" /\ rowsOf[m.script] = 0
    /\ rowsOf' = [rowsOf EXCEPT ![m.script] = 1]
    /\ progress' = [progress EXCEPT ![w] = Entered(@, m, "parsed")]
    /\ UNCHANGED <<archive, hasSource, batchJob, batchReport, disturbed, batchAnswer>>

(* Two rows for one_or_none, or a row that came in between and the unique    *)
(* index: the exception ends the job.                                        *)
FileRaises(w) ==
    /\ \/ /\ AtFile(w) /\ SizeFits(progress[w], Eligible[progress[w].next])
          /\ Eligible[progress[w].next].script \notin Undecodable
          /\ hasSource /\ rowsOf[Eligible[progress[w].next].script] > 1
       \/ progress[w].pc = "insert" /\ rowsOf[Eligible[progress[w].next].script] > 0
    /\ EndsAs(w, "failed") /\ progress' = [progress EXCEPT ![w] = NotWorking]
    /\ UNCHANGED <<archive, hasSource, rowsOf, batchReport, disturbed, batchAnswer>>

OwnsBatch(w) == batchJob.status = "running" /\ batchJob.owner = w

(* put_artifact opens the file of the job for writing, then writes it.       *)
ReportOpened(w) ==
    /\ progress[w].pc = "file" /\ progress[w].next > Len(Eligible)
    /\ progress' = [progress EXCEPT ![w].pc = "write"]
    /\ batchReport' = Truncated
    /\ disturbed' = (disturbed \/ ~OwnsBatch(w))
    /\ UNCHANGED <<archive, hasSource, rowsOf, batchJob, batchAnswer>>

ReportWritten(w) ==
    /\ progress[w].pc = "write"
    /\ progress' = [progress EXCEPT ![w].pc = "complete"]
    /\ batchReport' = BatchReport(progress[w])
    /\ UNCHANGED <<archive, hasSource, rowsOf, batchJob, disturbed, batchAnswer>>

BatchCompletes(w) ==
    /\ progress[w].pc = "complete"
    /\ EndsAs(w, "success") /\ progress' = [progress EXCEPT ![w] = NotWorking]
    /\ UNCHANGED <<archive, hasSource, rowsOf, batchReport, disturbed, batchAnswer>>

(* The heartbeats stop: the job goes back to the queue or fails, and a       *)
(* worker that only stalled carries on without knowing.                      *)
BatchReaped ==
    /\ batchJob.status = "running"
    /\ batchJob' = IF batchJob.tries < MaxTries
                THEN [batchJob EXCEPT !.status = "pending", !.owner = NoOwner, !.tries = @ + 1]
                ELSE [batchJob EXCEPT !.status = "failed", !.owner = NoOwner]
    /\ UNCHANGED <<archive, hasSource, rowsOf, progress, batchReport, disturbed, batchAnswer>>

BatchWorkerDies(w) ==
    /\ progress[w] # NotWorking
    /\ progress' = [progress EXCEPT ![w] = NotWorking]
    /\ disturbed' = (disturbed \/ (progress[w].pc = "write" /\ ~OwnsBatch(w)))
    /\ UNCHANGED <<archive, hasSource, rowsOf, batchJob, batchReport, batchAnswer>>

----------------------------------------------------------------------------
(* Readers, and the collector that removes the directory of an old job.      *)

(* get_lineage_batch and create_lineage_batch_export: only a job that        *)
(* succeeded has a report; what its file holds is read as it is.             *)
ReadReport ==
    /\ batchJob.status = "success"
    /\ batchAnswer' = IF batchReport.kind = "report" THEN batchReport ELSE [kind |-> "error"]
    /\ UNCHANGED <<archive, hasSource, rowsOf, batchJob, progress, batchReport, disturbed>>

RunCollected ==
    /\ batchJob.status \in {"success", "failed", "cancelled"} /\ batchReport # NotThere
    /\ batchReport' = NotThere /\ disturbed' = TRUE
    /\ UNCHANGED <<archive, hasSource, rowsOf, batchJob, progress, batchAnswer>>

BatchNext ==
    \/ CreateBatch \/ CancelBatch \/ BatchReaped \/ ReadReport \/ RunCollected
    \/ \E s \in BatchScripts : OtherAnalysis(s)
    \/ \E w \in BatchWorkers :
          \/ \E there \in BOOLEAN : ClaimBatch(w, there)
          \/ BatchCancelled(w) \/ FileSkipped(w) \/ FileAnalyzed(w) \/ FileUncached(w)
          \/ FilePersisted(w) \/ FileRaises(w) \/ ReportOpened(w) \/ ReportWritten(w)
          \/ BatchCompletes(w) \/ BatchWorkerDies(w)

BatchSpec == BatchInit /\ [][BatchNext]_batchVars

----------------------------------------------------------------------------
(* Properties.                                                               *)

BusyWorkers == {w \in BatchWorkers : progress[w] # NotWorking}

BatchTypeOK ==
    /\ rowsOf \in [BatchScripts -> 0..2]
    /\ batchJob.status \in {"none", "pending", "running", "success", "failed", "cancelled"}
    /\ batchJob.owner \in BatchWorkers \union {NoOwner} /\ batchJob.tries \in 0..MaxTries
    /\ \A w \in BusyWorkers : /\ progress[w].pc \in {"file", "insert", "write", "complete"}
                          /\ progress[w].next \in 1..Len(Eligible) + 1

(* Every member of the ZIP is in the report once: as a file, in the order of *)
(* the ZIP, or in exactly one of the counts of what was skipped.             *)
EveryMemberAccounted ==
    batchReport.kind = "report" =>
        /\ Len(archive) = Len(batchReport.files) + batchReport.skipped.non_sql
                          + batchReport.skipped.too_large + batchReport.skipped.over_file_limit
        /\ \E f \in [DOMAIN batchReport.files -> DOMAIN archive] :
              /\ \A i, j \in DOMAIN batchReport.files : i < j => f[i] < f[j]
              /\ \A i \in DOMAIN batchReport.files : archive[f[i]] = batchReport.files[i].of

(* The limits that guard against an oversized ZIP hold at every moment.      *)
LimitsHeld ==
    \A w \in BusyWorkers : /\ Len(progress[w].files) <= MaxFiles
                       /\ progress[w].bytes <= MaxTotalBytes
                       /\ \A i \in DOMAIN progress[w].files : progress[w].files[i].of.size <= MaxFileBytes

(* A file reported as parsed or cached is in the project's graph, on the     *)
(* first attempt and on a retry that finds the rows of the first.            *)
ReportedIsStored ==
    batchReport.kind = "report" /\ hasSource =>
        \A i \in DOMAIN batchReport.files :
            batchReport.files[i].status # "failed" => rowsOf[batchReport.files[i].of.script] > 0

(* A table that some script empties and fills again is flagged as a full     *)
(* reload, whatever other scripts do to it; only such a table is.            *)
ReloadsAreFlagged ==
    LET readable == {batchReport.files[i].of : i \in
                        {j \in DOMAIN batchReport.files : batchReport.files[j].status # "failed"}}
        refills(m, t, k) == /\ m.ops[k].table = t /\ m.ops[k].op \in {"truncate", "delete"}
                            /\ \E j \in OpsOn(m, t, Inserts) : k < j
    IN batchReport.kind = "report" =>
         \A t \in BatchTables :
            /\ (\E m \in readable : \E k \in DOMAIN m.ops :
                  refills(m, t, k) /\ (m.ops[k].op = "truncate" \/ m.ops[k].full))
               => t \in batchReport.reloads
            /\ t \in batchReport.reloads => \E m \in readable : \E k \in DOMAIN m.ops : refills(m, t, k)

(* A table that any script writes is never presented as a mere source.       *)
WrittenIsNoSource ==
    batchReport.kind = "report" =>
        \A t \in DOMAIN batchReport.modes : batchReport.roles[t] # "source_fact"

(* The details stay within the row budget and are called truncated exactly   *)
(* when rows are missing.                                                    *)
DetailsAreHonest ==
    batchReport.kind = "report" =>
        LET all == FlattenSeq([i \in DOMAIN batchReport.files |->
                IF batchReport.files[i].status = "failed" THEN <<>> ELSE batchReport.files[i].of.rows])
        IN /\ FoldLeft(+, 0, batchReport.kept) <= TotalRows
           /\ batchReport.truncated <=> batchReport.kept # all

(* A job that succeeded has its whole report until the collector takes it or *)
(* a worker that lost the job opens the file again; a reader that gets an    *)
(* error met one of these.                                                   *)
SuccessHasReport ==
    /\ batchJob.status = "success" /\ ~disturbed => batchReport.kind = "report"
    /\ batchAnswer.kind = "error" => disturbed

BatchInv == /\ BatchTypeOK /\ EveryMemberAccounted /\ LimitsHeld /\ ReportedIsStored
            /\ ReloadsAreFlagged /\ WrittenIsNoSource /\ DetailsAreHonest /\ SuccessHasReport
=============================================================================
