------------------------------ MODULE PagedQuery ------------------------------
(***************************************************************************)
(* A SQL query, its continuation pages and its exports, as jobs of one     *)
(* worker process: execute_sql, request_job_page, create_job_export and    *)
(* download_export in the API; _execute_sql_query and                      *)
(* _execute_result_export in the worker; the reaper that requeues what a   *)
(* dead worker left running; and the two that delete a spool whoever waits *)
(* for it, the eviction of a console's older results and the worker's GC.  *)
(* Every page of a query is a job of its own whose id is computed from the *)
(* root job and the offset, and which appends to the root's spool.         *)
(*                                                                         *)
(* Row i of the table the query reads is the number i.  A page is one      *)
(* spool batch (sql_spool_batch_size is not below the largest page size).  *)
(***************************************************************************)
EXTENDS Integers, Sequences, FiniteSets, FiniteSetsExt

CONSTANTS TableSizes,     \* rows in the table the query reads
          UserLimits,     \* the query's own literal LIMIT, NoLimit without one
          UserOffsets,    \* the query's own literal OFFSET
          PageSize, MaxResultRows, SpoolMax,
          MaxRetries,     \* job_default_max_retries
          MaxPullDeaths,      \* bound: deaths of the worker
          Pagers,         \* page and download requests under way
          Exports,        \* bound: exports of the user within the hour
          PerHour         \* export_per_user_per_hour

NoLimit == -1

ASSUME PagedQueryBounds ==
    /\ PageSize \in Nat \ {0} /\ MaxResultRows \in Nat \ {0} /\ SpoolMax \in Nat \ {0}
    /\ MaxRetries \in Nat /\ MaxPullDeaths \in Nat /\ PerHour \in Nat
    /\ TableSizes \subseteq Nat /\ UserOffsets \subseteq Nat
    /\ UserLimits \subseteq Nat \union {NoLimit}

VARIABLES query,      \* what is asked: [size, limit, skip, ordered]
          pageJob,    \* the job of each offset; the root is the job of offset 0
          pages,      \* the spool: [present, rows, more, trunc]
          catalog,    \* the result_sets row: [state, total]; total -1 is null
          puller,     \* the worker: [pc, off, rows, more]
          pager,      \* per request: what it has read
          export,     \* per export: its job, its token and what its file holds
          pulls       \* an eviction under way; history: deaths of the worker,
                      \* executions after a reap, a spool taken from under a job

pagedVars == <<query, pageJob, pages, catalog, puller, pager, export, pulls>>

Offsets   == 0..(MaxResultRows - 1)
Ended     == {"success", "failed", "cancelled"}
NoJob     == [st |-> "none", tries |-> 0, cancel |-> FALSE]
NoPages   == [present |-> FALSE, rows |-> <<>>, more |-> FALSE, trunc |-> FALSE]
IdlePull  == [pc |-> "idle", off |-> 0, rows |-> <<>>, more |-> FALSE]
IdlePager == [op |-> "none", arg |-> 0]
NoExport  == [st |-> "none", token |-> "none", file |-> <<>>, deadline |-> 0, served |-> 0]

PagedInit ==
    /\ query \in [size : TableSizes, limit : UserLimits, skip : UserOffsets, ordered : BOOLEAN]
    /\ pageJob = [o \in Offsets |-> NoJob]
    /\ pages = NoPages
    /\ catalog = [state |-> "none", total |-> -1]
    /\ puller = IdlePull
    /\ pager = [q \in Pagers |-> IdlePager]
    /\ export = [x \in Exports |-> NoExport]
    /\ pulls = [deaths |-> 0, evicting |-> FALSE, again |-> FALSE, emptied |-> FALSE]

---------------------------------------------------------------------------
(* The rows of the user's query, and the window of one page *)

RowNumbers(first, last) == [i \in 1..Max({0, last - first + 1}) |-> first + i - 1]

Answer == LET last == IF query.limit = NoLimit THEN query.size
                      ELSE Min({query.size, query.skip + query.limit})
          IN  RowNumbers(query.skip + 1, last)

(* apply_database_page: the page is intersected with the literal LIMIT,    *)
(* the offsets are added.                                                  *)
PageWindow(off, n) ==
    LET rows == IF query.limit = NoLimit THEN n ELSE Min({n, Max({0, query.limit - off})})
    IN  RowNumbers(query.skip + off + 1, Min({query.size, query.skip + off + rows}))

(* A page beyond the literal LIMIT (or any page of LIMIT 0) is an error.   *)
PageRefused(off) == query.limit # NoLimit /\ query.limit <= off

---------------------------------------------------------------------------
(* API *)

(* The placeholder result set, then the job.                               *)
ExecuteSql ==
    /\ pageJob[0].st = "none"
    /\ pageJob' = [pageJob EXCEPT ![0].st = "pending"]
    /\ catalog' = [state |-> "streaming", total |-> -1]
    /\ UNCHANGED <<query, pages, puller, pager, export, pulls>>

(* A job that has not ended, other than the one that ends now; a request   *)
(* that is about to enqueue one.                                           *)
Waiting(others) ==
    \/ \E o \in others : pageJob[o].st \in {"pending", "running"}
    \/ \E q \in Pagers : pager[q].op = "page"

(* History: the spool that is removed held rows that a job will append to. *)
(* No code that removes it asks.                                           *)
Emptied(others) == pulls.emptied \/ (pages.rows # <<>> /\ Waiting(others))

(* A later query of the console, _evict_console_resultsets: the row is     *)
(* closed in a transaction, the spool is deleted after it.                 *)
EvictCloses ==
    /\ catalog.state \notin {"none", "closed"} /\ ~pulls.evicting
    /\ catalog' = [catalog EXCEPT !.state = "closed"]
    /\ pulls' = [pulls EXCEPT !.evicting = TRUE]
    /\ UNCHANGED <<query, pageJob, pages, puller, pager, export>>

(* An error of the deletion is logged.                                     *)
EvictDeletes ==
    /\ pulls.evicting
    /\ \/ /\ pages' = NoPages
          /\ pulls' = [pulls EXCEPT !.evicting = FALSE, !.emptied = Emptied(Offsets)]
       \/ pulls' = [pulls EXCEPT !.evicting = FALSE] /\ UNCHANGED pages
    /\ UNCHANGED <<query, pageJob, catalog, puller, pager, export>>

(* request_job_page up to the enqueue: the manifest as it is now.          *)
MayPage(off) ==
    /\ pages.present
    /\ off = Len(pages.rows)
    /\ pages.more
    /\ query.ordered
    /\ off < MaxResultRows

PageAsk(q) ==
    /\ pager[q] = IdlePager
    /\ pageJob[0].st # "none"
    /\ MayPage(Len(pages.rows))
    /\ pager' = [pager EXCEPT ![q] = [op |-> "page", arg |-> Len(pages.rows)]]
    /\ UNCHANGED <<query, pageJob, pages, catalog, puller, export, pulls>>

(* The id is taken: the job there is, in whatever state, is the answer.    *)
PageEnqueue(q) ==
    /\ pager[q].op = "page"
    /\ pageJob' = IF pageJob[pager[q].arg].st = "none"
                  THEN [pageJob EXCEPT ![pager[q].arg].st = "pending"] ELSE pageJob
    /\ pager' = [pager EXCEPT ![q] = IdlePager]
    /\ UNCHANGED <<query, pages, catalog, puller, export, pulls>>

(* cancel_job: the flag, or the end of a job nobody has claimed.           *)
CancelPage(o) ==
    /\ pageJob[o].st \in {"pending", "running"} /\ ~pageJob[o].cancel
    /\ pageJob' = [pageJob EXCEPT ![o].cancel = TRUE]
    /\ UNCHANGED <<query, pages, catalog, puller, pager, export, pulls>>

---------------------------------------------------------------------------
(* The worker: _execute_sql_query *)

Pulling(pc) == puller.pc = pc
PullRows(off) == Min({PageSize, MaxResultRows - off})

(* Claim, the cancel check, the catalog's "streaming".                     *)
PullBegins(o) ==
    /\ Pulling("idle") /\ pageJob[o].st = "pending"
    /\ pageJob' = [pageJob EXCEPT ![o].st = "running"]
    /\ puller' = [IdlePull EXCEPT !.pc = IF pageJob[o].cancel THEN "cancelled"
                                         ELSE IF PageRefused(o) THEN "failed" ELSE "read",
                                  !.off = o]
    /\ catalog' = IF pageJob[o].cancel \/ PageRefused(o) THEN catalog
                  ELSE [state |-> "streaming", total |-> -1]
    /\ UNCHANGED <<query, pages, pager, export, pulls>>

(* _gc_result_store_if_due, before the worker claims: the spool's age      *)
(* decides, and the row stays as it is.                                    *)
CollectPages ==
    /\ Pulling("idle") /\ pages.present
    /\ pages' = NoPages
    /\ pulls' = [pulls EXCEPT !.emptied = Emptied(Offsets)]
    /\ UNCHANGED <<query, pageJob, catalog, puller, pager, export>>

(* The row after the page, which says whether there is more.               *)
RowBeyond(off) == Len(PageWindow(off, PullRows(off) + 1)) > PullRows(off)

(* The rows of the page.  A full batch is flushed before the row beyond is *)
(* asked for, a shorter one after the stream has ended.                    *)
PullReads ==
    /\ Pulling("read")
    /\ LET got == PageWindow(puller.off, PullRows(puller.off))
       IN  puller' = [puller EXCEPT !.pc = "flush", !.rows = got,
                          !.more = Len(got) < PageSize /\ RowBeyond(puller.off)]
    /\ UNCHANGED <<query, pageJob, pages, catalog, pager, export, pulls>>

PullPeeks ==
    /\ Pulling("peek")
    /\ puller' = [puller EXCEPT !.pc = "settle", !.more = RowBeyond(puller.off)]
    /\ UNCHANGED <<query, pageJob, pages, catalog, pager, export, pulls>>

(* The query fails, times out or is cancelled in the database.             *)
PullRaises ==
    /\ puller.pc \in {"read", "peek"}
    /\ puller' = [puller EXCEPT !.pc = IF pageJob[puller.off].cancel THEN "cancelled"
                                       ELSE "failed"]
    /\ UNCHANGED <<query, pageJob, pages, catalog, pager, export, pulls>>

(* append_spool: nothing after a truncation, and no more than SpoolMax.    *)
AppendSpool(rows) ==
    LET n == Min({Len(rows), SpoolMax - Len(pages.rows)}) IN
    IF rows = <<>> \/ pages.trunc THEN pages
    ELSE [pages EXCEPT !.present = TRUE,
                       !.rows = @ \o SubSeq(rows, 1, n),
                       !.trunc = Len(pages.rows) + Len(rows) >= SpoolMax]

(* _flush_batch, then the catalog's "streaming".                           *)
PullFlushes ==
    /\ Pulling("flush")
    /\ IF puller.rows = <<>>
       THEN puller' = [puller EXCEPT !.pc = "settle"] /\ UNCHANGED <<pages, catalog>>
       ELSE IF pageJob[puller.off].cancel
       THEN puller' = [puller EXCEPT !.pc = "cancelled"] /\ UNCHANGED <<pages, catalog>>
       ELSE /\ pages' = AppendSpool(puller.rows)
            /\ catalog' = [state |-> "streaming", total |-> -1]
            /\ puller' = [puller EXCEPT !.pc = IF Len(puller.rows) = PageSize /\ ~pages'.trunc
                                               THEN "peek" ELSE "settle"]
    /\ UNCHANGED <<query, pageJob, pager, export, pulls>>

(* mark_spool_truncated at the safety limit, set_spool_pagination.         *)
Continues ==
    LET full  == puller.more /\ puller.off + Len(puller.rows) >= MaxResultRows
        trunc == pages.trunc \/ full
    IN  [pages EXCEPT !.present = TRUE, !.trunc = trunc, !.more = puller.more \/ trunc]

PullSettles ==
    /\ Pulling("settle")
    /\ pages' = Continues
    /\ puller' = [puller EXCEPT !.pc = "catalog"]
    /\ UNCHANGED <<query, pageJob, catalog, pager, export, pulls>>

\* Mutant of CompleteTotal: only a truncation makes the total unknown.
CompleteTotalLoaded == IF pages.trunc THEN -1 ELSE Len(pages.rows)

CompleteTotal == IF pages.trunc \/ pages.more THEN -1 ELSE Len(pages.rows)

(* write_complete of the catalog, then complete.                           *)
PullCatalogs ==
    /\ Pulling("catalog")
    /\ catalog' = [state |-> "complete", total |-> CompleteTotal]
    /\ puller' = [puller EXCEPT !.pc = "success"]
    /\ UNCHANGED <<query, pageJob, pages, pager, export, pulls>>

(* The three endings of _execute_claimed_job: a cancelled page takes the   *)
(* whole spool with it.                                                    *)
PullEnds ==
    /\ puller.pc \in Ended
    /\ pageJob' = [pageJob EXCEPT ![puller.off].st = puller.pc]
    /\ CASE puller.pc = "cancelled" -> /\ catalog' = [catalog EXCEPT !.state = "closed"]
                                       /\ pages' = NoPages
                                       /\ pulls' = [pulls EXCEPT
                                             !.emptied = Emptied(Offsets \ {puller.off})]
         [] puller.pc = "failed"    -> /\ catalog' = [catalog EXCEPT !.state = "failed"]
                                       /\ UNCHANGED <<pages, pulls>>
         [] OTHER                   -> UNCHANGED <<catalog, pages, pulls>>
    /\ puller' = IdlePull
    /\ UNCHANGED <<query, pager, export>>

WorkerDies ==
    /\ ~Pulling("idle") /\ pulls.deaths < MaxPullDeaths
    /\ pulls' = [pulls EXCEPT !.deaths = @ + 1]
    /\ puller' = IdlePull
    /\ UNCHANGED <<query, pageJob, pages, catalog, pager, export>>

(* The next worker's reaper: a running job without a worker is requeued    *)
(* until its retries are used up.                                          *)
ReapPage(o) ==
    /\ pageJob[o].st = "running" /\ Pulling("idle")
    /\ LET job == pageJob[o] IN
       pageJob' = [pageJob EXCEPT ![o] = IF job.tries < MaxRetries
                       THEN [job EXCEPT !.st = "pending", !.tries = job.tries + 1]
                       ELSE [job EXCEPT !.st = "failed"]]
    /\ pulls' = [pulls EXCEPT !.again = TRUE]
    /\ UNCHANGED <<query, pages, catalog, puller, pager, export>>

---------------------------------------------------------------------------
(* Exports *)

Counted == Cardinality({x \in Exports : export[x].st # "none"})

WithinRate == Counted < PerHour

(* create_job_export: the source is a success with a spool; then the rate. *)
ExportAsk(q) ==
    /\ pager[q] = IdlePager
    /\ pageJob[0].st = "success" /\ pages.present
    /\ WithinRate
    /\ pager' = [pager EXCEPT ![q] = [op |-> "export", arg |-> 0]]
    /\ UNCHANGED <<query, pageJob, pages, catalog, puller, export, pulls>>

(* The job and the token are two transactions.                             *)
ExportEnqueue(q, x) ==
    /\ pager[q].op = "export" /\ export[x].st = "none"
    /\ \A y \in Exports : y < x => export[y].st # "none"
    /\ export' = [export EXCEPT ![x].st = "pending"]
    /\ pager' = [pager EXCEPT ![q] = [op |-> "token", arg |-> x]]
    /\ UNCHANGED <<query, pageJob, pages, catalog, puller, pulls>>

ExportToken(q) ==
    /\ pager[q].op = "token"
    /\ export' = [export EXCEPT ![pager[q].arg].token = "live"]
    /\ pager' = [pager EXCEPT ![q] = IdlePager]
    /\ UNCHANGED <<query, pageJob, pages, catalog, puller, pulls>>

(* _execute_result_export: the rows of the spool at this moment, none when *)
(* it is gone; a file over the byte limit, or an error, fails the job.     *)
ExportRuns(x) ==
    /\ Pulling("idle") /\ export[x].st = "pending"
    /\ \/ export' = [export EXCEPT ![x].st = "success", ![x].file = pages.rows]
       \/ export' = [export EXCEPT ![x].st = "failed"]
    /\ UNCHANGED <<query, pageJob, pages, catalog, puller, pager, pulls>>

(* download_url_ttl_seconds: first from the token's creation, then, once   *)
(* the job has ended, from its end.                                        *)
TokenAges(x) ==
    /\ export[x].token = "live"
    /\ \/ export[x].deadline = 0
       \/ export[x].deadline = 1 /\ export[x].st \in Ended
    /\ export' = [export EXCEPT ![x].deadline = @ + 1]
    /\ UNCHANGED <<query, pageJob, pages, catalog, puller, pager, pulls>>

(* download_export: every check reads the row without a lock.              *)
DownloadAsk(q, x) ==
    /\ pager[q] = IdlePager
    /\ export[x].token = "live" /\ export[x].deadline < 2 /\ export[x].st = "success"
    /\ pager' = [pager EXCEPT ![q] = [op |-> "download", arg |-> x]]
    /\ UNCHANGED <<query, pageJob, pages, catalog, puller, export, pulls>>

(* UPDATE ... WHERE consumed_at IS NULL; no row: the stream is not served. *)
Consume(x) ==
    IF export[x].token = "live"
    THEN export' = [export EXCEPT ![x].token = "consumed", ![x].served = @ + 1]
    ELSE UNCHANGED export

DownloadConsume(q) ==
    /\ pager[q].op = "download"
    /\ Consume(pager[q].arg)
    /\ pager' = [pager EXCEPT ![q] = IdlePager]
    /\ UNCHANGED <<query, pageJob, pages, catalog, puller, pulls>>

PagedNext ==
    \/ ExecuteSql \/ EvictCloses \/ EvictDeletes \/ CollectPages
    \/ \E q \in Pagers : PageAsk(q) \/ PageEnqueue(q) \/ ExportAsk(q) \/ ExportToken(q)
                         \/ DownloadConsume(q)
    \/ \E q \in Pagers, x \in Exports : ExportEnqueue(q, x) \/ DownloadAsk(q, x)
    \/ \E x \in Exports : ExportRuns(x) \/ TokenAges(x)
    \/ \E o \in Offsets : CancelPage(o) \/ PullBegins(o) \/ ReapPage(o)
    \/ PullReads \/ PullPeeks \/ PullRaises \/ PullFlushes \/ PullSettles \/ PullCatalogs \/ PullEnds
    \/ WorkerDies

PagedSpec == PagedInit /\ [][PagedNext]_pagedVars

---------------------------------------------------------------------------
(* Properties *)

PagedTypeOK ==
    /\ \A o \in Offsets : /\ pageJob[o].st \in Ended \union {"none", "pending", "running"}
                          /\ pageJob[o].tries \in 0..MaxRetries
    /\ Len(pages.rows) <= SpoolMax
    /\ pages.rows # <<>> => pages.present
    /\ catalog.state \in {"none", "streaming", "complete", "failed", "closed"}
    /\ catalog.total \in -1..SpoolMax
    /\ \A q \in Pagers : pager[q].op \in {"none", "page", "export", "token", "download"}
    /\ \A x \in Exports : export[x].token \in {"none", "live", "consumed"}
                          /\ export[x].deadline \in 0..2

(* No job was executed twice, and no spool with rows was removed while a   *)
(* page of it was asked for, pending or running.  In both cases the code   *)
(* does break what follows: the page repeats rows, or is appended to a     *)
(* spool that begins anew.                                                 *)
Undisturbed == ~pulls.again /\ ~pulls.emptied

(* The pages laid end to end are a prefix of the query's own answer: no    *)
(* row is skipped, repeated or taken from beyond its LIMIT, however        *)
(* requests, cancels, failures, evictions and collections fall.            *)
PagesAreAPrefix ==
    Undisturbed => pages.rows = SubSeq(Answer, 1, Len(pages.rows))

(* A total that is shown is the size of the query's answer.                *)
TotalIsExact ==
    (Undisturbed /\ catalog.state = "complete" /\ catalog.total # -1)
        => catalog.total = Len(Answer)

(* Once a page has settled its manifest, a result that offers no further   *)
(* page either holds every row or says that it was cut.                    *)
NothingSilentlyMissing ==
    (/\ pages.present /\ ~pages.more /\ Undisturbed
     /\ \/ puller.pc \in {"catalog", "success"}
        \/ Pulling("idle") /\ pageJob[0].st = "success")
        => pages.rows = Answer \/ pages.trunc

(* A download token serves one file, once.                                 *)
TokenServesOnce == \A x \in Exports : export[x].served <= 1

(* What a reader of a paged query sees: as long as no job runs twice and no *)
(* spool goes from under a page job, the pages are a prefix of the answer   *)
(* without gap or repetition, a total that is shown is exact, rows that are *)
(* missing are announced, and a download token serves one file once (query  *)
(* pages, page jobs, exports).                                              *)
PagedInv ==
    /\ PagedTypeOK
    /\ PagesAreAPrefix
    /\ TotalIsExact
    /\ NothingSilentlyMissing
    /\ TokenServesOnce
=============================================================================
