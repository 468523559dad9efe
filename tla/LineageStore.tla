---------------------------- MODULE LineageStore ----------------------------
(* The runs of the lineage parser and their edges: the API's analysis (with  *)
(* a cache keyed by the statement and the column metadata it was parsed      *)
(* with, refreshes that supersede a run and edges a model infers after the   *)
(* transaction), the worker's analysis of single statements and of batches,  *)
(* and the synchronisation of the metadata.                                  *)
EXTENDS Integers, FiniteSets

CONSTANTS Scripts,        \* statements, each with its source_ref
          Relations,      \* tables whose columns the metadata cache may hold
          SchemaOf,       \* the schema each of them is in
          Mentions,       \* [Scripts -> SUBSET Relations]
          Analyses,       \* API requests
          LineageJobs,    \* worker jobs (lineage_analyze, lineage_batch)
          MaxRuns,        \* bound: rows of lineage_runs
          Reviewers,      \* reviews of inferred edges
          MaxSyncTables   \* METADATA_SYNC_MAX_TABLES

ASSUME LineageBounds == /\ Mentions \in [Scripts -> SUBSET Relations]
                        /\ MaxRuns \in Nat \ {0}
                        /\ MaxSyncTables \in Nat

VARIABLES runs, known, analysis, ljob, sync, review,
          contested   \* edges two reviews were open for at a time

lineageVars == <<runs, known, analysis, ljob, sync, review, contested>>

RunIds == 1..MaxRuns
NoLineageRun == [exists |-> FALSE]
Unasked == [stage |-> "idle"]
AnswerSent == [stage |-> "done"]

(* An edge of a run: what the parser found is confirmed from the start, what *)
(* a model proposed is inferred until someone reviews it.                    *)
Edge(kind, s, status) == [kind |-> kind, script |-> s, status |-> status]

LineageInit ==
    /\ runs = [r \in RunIds |-> NoLineageRun]
    /\ known = {}
    /\ analysis = [a \in Analyses |-> Unasked]
    /\ ljob = [j \in LineageJobs |-> Unasked]
    /\ sync = [stage |-> "idle"]
    /\ review = [v \in Reviewers |-> Unasked] /\ contested = {}

Existing == {r \in RunIds : runs[r].exists}
NextRun == Cardinality(Existing) + 1

LineageTypeOK ==
    /\ known \subseteq Relations
    /\ \A r \in Existing :
          /\ runs[r].key.script \in Scripts /\ runs[r].key.columns \subseteq Relations
          /\ runs[r].by \in {0} \union Existing
          /\ \A e \in runs[r].edges : e.status \in {"confirmed", "inferred", "rejected"}

----------------------------------------------------------------------------
(* Parsing.                                                                  *)

(* lineage_sql_hash covers the text and the schema context it is parsed in,  *)
(* so metadata that arrives later gives the statement a new key.             *)
Key(s, columns) == [script |-> s, columns |-> columns]

(* analyze_sql_lineage: a statement all of whose tables are known gives      *)
(* column edges; otherwise lenient parsing falls back to the table level and *)
(* strict parsing reports the missing tables and gives no edge.              *)
Parsed(s, columns, lenient) ==
    IF Mentions[s] \subseteq columns
    THEN {Edge("table", s, "confirmed"), Edge("column", s, "confirmed")}
    ELSE IF lenient THEN {Edge("table", s, "confirmed")} ELSE {}

Rows(key) == {r \in Existing : runs[r].key = key}
ActiveRuns(key) == {r \in Rows(key) : runs[r].by = 0}

Inserted(r, key, edges) ==
    [exists |-> TRUE, key |-> key, by |-> 0, edges |-> edges]

----------------------------------------------------------------------------
(* The API.                                                                  *)

(* analyze_project_lineage reads the metadata, and the cache unless a        *)
(* refresh was asked for.                                                    *)
AnalyzeBegins(a, s, refresh, fallback) ==
    LET key == Key(s, known) IN
    /\ analysis[a].stage = "idle"
    /\ analysis' = [analysis EXCEPT ![a] =
          IF ~refresh /\ ActiveRuns(key) # {}
          THEN AnswerSent
          ELSE [stage |-> "write", key |-> key, refresh |-> refresh, fallback |-> fallback]]
    /\ UNCHANGED <<runs, known, ljob, sync, review, contested>>

SupersededByItself(key, by) ==
    [r \in RunIds |-> IF r \in ActiveRuns(key) THEN [runs[r] EXCEPT !.by = r] ELSE runs[r]]
(* _supersede_lineage_cache marks the active run of the key.                 *)
Superseded(key, by) ==
    [r \in RunIds |-> IF r \in ActiveRuns(key) THEN [runs[r] EXCEPT !.by = by] ELSE runs[r]]

(* uq_lineage_runs_cache_key_active: one row of a key has no superseded_at.  *)
IndexAllows(key, refresh) == refresh \/ ActiveRuns(key) = {}

(* The supersession, the run and its edges are one transaction.              *)
AnalyzeWrites(a) ==
    LET q == analysis[a]
        n == NextRun
    IN
    /\ q.stage = "write" /\ n \in RunIds
    /\ IndexAllows(q.key, q.refresh)
    /\ runs' = [(IF q.refresh THEN Superseded(q.key, n) ELSE runs) EXCEPT ![n] =
                  Inserted(n, q.key, Parsed(q.key.script, q.key.columns, FALSE))]
    /\ analysis' = [analysis EXCEPT ![a] =
          IF q.fallback THEN [stage |-> "model", run |-> n, key |-> q.key] ELSE AnswerSent]
    /\ UNCHANGED <<known, ljob, sync, review, contested>>

(* The parse fails, or the index refuses the row: nothing was written.       *)
AnalyzeFails(a) ==
    /\ analysis[a].stage = "write"
    /\ analysis' = [analysis EXCEPT ![a] = AnswerSent]
    /\ UNCHANGED <<runs, known, ljob, sync, review, contested>>

(* _persist_inferred_lineage_edges drops the edges the parser found itself.  *)
Inferred(r, proposed) ==
    {e \in proposed : Edge(e.kind, e.script, "confirmed") \notin runs[r].edges}

(* _run_lineage_ai_fallback: after the commit, the model's edges are added   *)
(* to the run, which may have been superseded in the meantime.               *)
ModelAnswers(a, kinds) ==
    LET q == analysis[a]
        r == q.run
        proposed == {Edge(k, q.key.script, "inferred") : k \in kinds}
    IN
    /\ q.stage = "model"
    /\ runs' = [runs EXCEPT ![r].edges = @ \union Inferred(r, proposed)]
    /\ analysis' = [analysis EXCEPT ![a] = AnswerSent]
    /\ UNCHANGED <<known, ljob, sync, review, contested>>

(* update_lineage_edge_inference reads the status and then writes without    *)
(* asking for it again.                                                      *)
ReviewBegins(v, r, e, verdict) ==
    /\ review[v].stage = "idle"
    /\ e \in runs[r].edges /\ e.status = "inferred"
    /\ review' = [review EXCEPT ![v] =
          [stage |-> "write", run |-> r, edge |-> e, verdict |-> verdict]]
    /\ contested' = IF \E o \in Reviewers : review[o].stage = "write"
                                           /\ review[o].run = r /\ review[o].edge = e
                    THEN contested \union {<<r, e.kind>>} ELSE contested
    /\ UNCHANGED <<runs, known, analysis, ljob, sync>>

SameEdgeKind(e, f) == e.script = f.script
SameEdge(e, f) == e.kind = f.kind /\ e.script = f.script

ReviewWrites(v) ==
    LET q == review[v] IN
    /\ q.stage = "write"
    /\ runs' = [runs EXCEPT ![q.run].edges =
          {IF SameEdge(e, q.edge) THEN [e EXCEPT !.status = q.verdict] ELSE e : e \in @}]
    /\ review' = [review EXCEPT ![v] = AnswerSent]
    /\ UNCHANGED <<known, analysis, ljob, sync, contested>>

----------------------------------------------------------------------------
(* The worker.                                                               *)

(* create_lineage_batch and the workflow's lineage_analyze nodes enqueue; a  *)
(* batch parses leniently, a single statement does not.                      *)
JobBegins(j, scripts, lenient) ==
    /\ ljob[j].stage = "idle" /\ scripts # {}
    /\ lenient \/ Cardinality(scripts) = 1
    /\ ljob' = [ljob EXCEPT ![j] = [stage |-> "file", left |-> scripts, columns |-> known,
                                    lenient |-> lenient]]
    /\ UNCHANGED <<runs, known, analysis, sync, review, contested>>

(* _lineage_batch_file and _execute_lineage_analyze: the cached run, or a    *)
(* new one.  cached_run_id reads every row of the key, and one_or_none       *)
(* raises when there are several.                                            *)
JobLooksUp(j, s) ==
    LET q == ljob[j]
        key == Key(s, q.columns)
    IN
    /\ q.stage = "file" /\ s \in q.left
    /\ ljob' = [ljob EXCEPT ![j] =
          IF Cardinality(Rows(key)) > 1 THEN [stage |-> "failed", why |-> "several runs"]
          ELSE IF Rows(key) # {}
               THEN [stage |-> "file", left |-> q.left \ {s}, columns |-> q.columns,
                     lenient |-> q.lenient]
               ELSE [stage |-> "insert", left |-> q.left \ {s}, columns |-> q.columns,
                     lenient |-> q.lenient, script |-> s]]
    /\ UNCHANGED <<runs, known, analysis, sync, review, contested>>

(* persist_run: a row another analysis inserted in the meantime fails the    *)
(* job.                                                                      *)
JobInserts(j) ==
    LET q == ljob[j]
        n == NextRun
        key == Key(q.script, q.columns)
    IN
    /\ q.stage = "insert" /\ n \in RunIds
    /\ IF IndexAllows(key, FALSE)
       THEN /\ runs' = [runs EXCEPT ![n] =
                  Inserted(n, key, Parsed(q.script, q.columns, q.lenient))]
            /\ ljob' = [ljob EXCEPT ![j] = [stage |-> "file", left |-> q.left,
                  columns |-> q.columns, lenient |-> q.lenient]]
       ELSE /\ ljob' = [ljob EXCEPT ![j] = [stage |-> "failed", why |-> "index"]]
            /\ UNCHANGED runs
    /\ UNCHANGED <<known, analysis, sync, review, contested>>

JobEnds(j) ==
    /\ ljob[j].stage = "file" /\ ljob[j].left = {}
    /\ ljob' = [ljob EXCEPT ![j] = AnswerSent]
    /\ UNCHANGED <<runs, known, analysis, sync, review, contested>>

JobCancelled(j) ==
    /\ ljob[j].stage = "file"
    /\ ljob' = [ljob EXCEPT ![j] = [stage |-> "failed", why |-> "cancelled"]]
    /\ UNCHANGED <<runs, known, analysis, sync, review, contested>>

(* _execute_metadata_sync: the tables of the schemas it was asked for, or of *)
(* the account's own (none when no schema has such a name).  A table's       *)
(* columns are cached, or the table, or its schema, is counted as failed;    *)
(* the loop stops at the limit, and at a cancellation.                       *)
InSchemas(wanted) == {t \in Relations : SchemaOf[t] \in wanted}

SyncBegins(wanted) ==
    /\ sync.stage = "idle"
    /\ sync' = [stage |-> "tables", scope |-> InSchemas(wanted), left |-> InSchemas(wanted),
                synced |-> 0, failed |-> 0]
    /\ UNCHANGED <<runs, known, analysis, ljob, review, contested>>

SyncStops == sync.synced >= MaxSyncTables

SyncTable(t, ok) ==
    /\ sync.stage = "tables" /\ t \in sync.left /\ ~SyncStops
    /\ known' = IF ok THEN known \union {t} ELSE known
    /\ sync' = [sync EXCEPT !.left = @ \ {t},
                            !.synced = IF ok THEN @ + 1 ELSE @,
                            !.failed = IF ok THEN @ ELSE @ + 1]
    /\ UNCHANGED <<runs, analysis, ljob, review, contested>>

(* The tables of a schema cannot be listed: none of them is tried.           *)
SyncSchemaFails(x) ==
    LET its == sync.scope \intersect InSchemas({x}) IN
    /\ sync.stage = "tables" /\ its # {} /\ its \subseteq sync.left
    /\ sync' = [sync EXCEPT !.left = @ \ its, !.failed = @ + 1]
    /\ UNCHANGED <<runs, known, analysis, ljob, review, contested>>

Truncated == SyncStops /\ sync.left # {}

SyncReports ==
    /\ sync.stage = "tables" /\ (sync.left = {} \/ SyncStops)
    /\ sync' = [stage |-> "done", scope |-> sync.scope, left |-> sync.left,
                synced |-> sync.synced, failed |-> sync.failed, truncated |-> Truncated]
    /\ UNCHANGED <<runs, known, analysis, ljob, review, contested>>

SyncCancelled ==
    /\ sync.stage = "tables"
    /\ sync' = [stage |-> "cancelled"]
    /\ UNCHANGED <<runs, known, analysis, ljob, review, contested>>

LineageNext ==
    \/ \E a \in Analyses :
          \/ \E s \in Scripts, refresh, fallback \in BOOLEAN :
                AnalyzeBegins(a, s, refresh, fallback)
          \/ AnalyzeWrites(a) \/ AnalyzeFails(a)
          \/ \E kinds \in SUBSET {"table", "column"} : ModelAnswers(a, kinds)
    \/ \E v \in Reviewers :
          \/ \E r \in Existing : \E e \in runs[r].edges, verdict \in {"confirmed", "rejected"} :
                ReviewBegins(v, r, e, verdict)
          \/ ReviewWrites(v)
    \/ \E j \in LineageJobs :
          \/ \E scripts \in SUBSET Scripts, lenient \in BOOLEAN : JobBegins(j, scripts, lenient)
          \/ \E s \in Scripts : JobLooksUp(j, s)
          \/ JobInserts(j) \/ JobEnds(j) \/ JobCancelled(j)
    \/ \E wanted \in SUBSET {SchemaOf[t] : t \in Relations} : SyncBegins(wanted)
    \/ \E t \in Relations : SyncSchemaFails(SchemaOf[t])
    \/ SyncReports \/ SyncCancelled
    \/ \E t \in Relations, ok \in BOOLEAN : SyncTable(t, ok)

LineageSpec == LineageInit /\ [][LineageNext]_lineageVars

----------------------------------------------------------------------------
(* Properties.                                                               *)

Keys == {runs[r].key : r \in Existing}

(* Whatever refreshes, analyses and worker jobs overlap, a key has exactly   *)
(* one active run: a refresh never leaves the graph without the statement's  *)
(* edges, nor with the edges of two versions.                                *)
OneActiveRun == \A key \in Keys : Cardinality(ActiveRuns(key)) = 1

(* The history is a chain: a superseded run points at a later run of the     *)
(* same key.                                                                 *)
HistoryIsAChain ==
    \A r \in Existing : runs[r].by # 0 =>
        runs[r].by > r /\ runs[r].by \in Rows(runs[r].key)

(* A model's proposal never stands beside the edge the parser found itself.  *)
NoEdgeTwice ==
    \A r \in Existing : \A e, f \in runs[r].edges :
        e.kind = f.kind /\ e.script = f.script => e = f

(* A reviewed edge keeps its verdict ("confirmed/rejected" are final), except *)
(* when two reviews read "inferred" before either wrote.                     *)
VerdictIsFinal ==
    [][\A r \in Existing : \A e \in runs[r].edges :
          e.status # "inferred" /\ <<r, e.kind>> \notin contested => e \in runs'[r].edges]_lineageVars

(* A metadata synchronisation that reports neither failures nor truncation   *)
(* has cached every table of the schemas it went through, and a truncated    *)
(* one has left some of them out.  Of the other schemas it says nothing.     *)
SyncReportHonest ==
    sync.stage = "done" =>
        /\ sync.failed = 0 /\ ~sync.truncated => sync.scope \subseteq known
        /\ sync.truncated => sync.left # {}

(* Only an active run takes part in the cache: a worker's lookup finds it    *)
(* and no job fails on the runs that a refresh has superseded.               *)
WorkerFindsActive ==
    \A j \in LineageJobs : ljob[j].stage = "failed" => ljob[j].why # "several runs"

(* The stored lineage of a statement is one active run at the end of a      *)
(* chain of superseded ones, no proposal stands beside the parser's own     *)
(* edge, and a metadata sync that left out tables of its schemas says so    *)
(* (analyze_project_lineage, _supersede_lineage_cache,                      *)
(* _execute_metadata_sync).                                                 *)
LineageInv ==
    /\ LineageTypeOK
    /\ OneActiveRun
    /\ HistoryIsAChain
    /\ NoEdgeTwice
    /\ SyncReportHonest
=============================================================================
