---------------------------- MODULE ResultReads ----------------------------
(* Reading a result while it is produced: the spool's manifest, the row of   *)
(* result_sets and the state of the job or statement change one after the    *)
(* other, and the progress and result routes read them one after the other.  *)
(* The client polls until it sees a new version or the end, loads pages      *)
(* while they say that there is more, and may export what it saw.  The rows  *)
(* of the result are numbered; a spool holds the first of them.              *)
EXTENDS Integers

CONSTANTS ResultSizes,  \* how many rows the query yields
          ReadLimit,    \* max_result_rows
          SpoolRowCap,  \* spool_max_rows
          BatchSize,    \* rows appended at a time
          PageSize      \* limit of a result request

ASSUME ReadBounds == /\ ResultSizes \subseteq Nat
                     /\ {ReadLimit, SpoolRowCap, BatchSize, PageSize} \subseteq Nat \ {0}

VARIABLES origin,    \* "job" or "statement", and the rows of its query
          maker,     \* the worker or lane: [phase, read, outcome]
          subject,   \* state of the job or statement
          manifest,  \* of the spool: [present, rows, truncated, version]
          resultRow, \* result_sets: [state, total]
          viewer,    \* the client: [version, loaded, over, got, end]
          asked,     \* the request under way
          export,    \* [phase, rows]
          evicted    \* the spool was deleted

readVars == <<origin, maker, subject, manifest, resultRow, viewer, asked, export, evicted>>

NoManifest == [present |-> FALSE, rows |-> 0, truncated |-> FALSE, version |-> 0]
NoRequest == [phase |-> "none"]
Unknown == -1
Over == {"succeeded", "failed", "cancelled"}

ReadsInit ==
    /\ origin \in [kind : {"job", "statement"}, rows : ResultSizes]
    /\ maker = [phase |-> "wait", read |-> 0, outcome |-> "none"]
    /\ subject = "accepted"
    /\ manifest = NoManifest
    /\ resultRow = [state |-> "streaming", total |-> Unknown]
    /\ viewer = [version |-> 0, loaded |-> 0, over |-> FALSE, got |-> 0, end |-> FALSE]
    /\ asked = NoRequest /\ export = [phase |-> "none", rows |-> 0] /\ evicted = FALSE

----------------------------------------------------------------------------
(* The producer.                                                             *)

Least(a, b) == IF a <= b THEN a ELSE b

MakerBegins ==
    /\ maker.phase = "wait"
    /\ maker' = [maker EXCEPT !.phase = "read"]
    /\ subject' = "running"
    /\ UNCHANGED <<origin, manifest, resultRow, viewer, asked, export, evicted>>

(* A job that is pending, or a statement that waits in its session's queue,  *)
(* is cancelled: nothing will ever be spooled.                               *)
CancelledWaiting ==
    /\ maker.phase = "wait"
    /\ maker' = [maker EXCEPT !.phase = "done", !.outcome = "cancelled"]
    /\ subject' = "cancelled"
    /\ UNCHANGED <<origin, manifest, resultRow, viewer, asked, export, evicted>>

(* append_spool: the rows the row cap leaves, and of these the ones that fit *)
(* into the bytes left; a spool that dropped rows or is full is truncated    *)
(* and takes no more.  Every write of the manifest is a new version.         *)
Spooled(mf, n, fitting) ==
    LET room == SpoolRowCap - mf.rows
        kept == Least(Least(n, room), fitting)
    IN IF mf.truncated THEN mf
       ELSE [present |-> TRUE, rows |-> mf.rows + kept, version |-> mf.version + 1,
             truncated |-> kept < n \/ mf.rows + kept >= SpoolRowCap]

MakerAppends(fitting) ==
    LET n == Least(BatchSize, Least(origin.rows, ReadLimit) - maker.read) IN
    /\ maker.phase = "read" /\ n > 0 /\ fitting <= n
    /\ manifest' = Spooled(manifest, n, fitting)
    /\ maker' = [maker EXCEPT !.read = @ + n, !.phase = "publish"]
    /\ UNCHANGED <<origin, subject, resultRow, viewer, asked, export, evicted>>

MakerPublishes ==
    /\ maker.phase = "publish"
    /\ resultRow' = [state |-> "streaming", total |-> Unknown]
    /\ maker' = [maker EXCEPT !.phase = "read"]
    /\ UNCHANGED <<origin, subject, manifest, viewer, asked, export, evicted>>

(* The row beyond the limit was seen: mark_spool_truncated.                  *)
Marked(mf) == IF mf.truncated THEN mf
              ELSE [mf EXCEPT !.present = TRUE, !.truncated = TRUE, !.version = @ + 1]

MakerStops ==
    /\ maker.phase = "read"
    /\ \/ /\ maker.read = Least(origin.rows, ReadLimit)
          /\ maker' = [maker EXCEPT !.phase = "seal", !.outcome = "succeeded"]
          /\ manifest' = IF maker.read < origin.rows THEN Marked(manifest) ELSE manifest
       \/ /\ \E o \in {"failed", "cancelled"} :
                maker' = [maker EXCEPT !.phase = "seal", !.outcome = o]
          /\ UNCHANGED manifest
    /\ UNCHANGED <<origin, subject, resultRow, viewer, asked, export, evicted>>

(* The catalog row before the state: a statement's result is sealed whatever *)
(* its outcome, and a failure to seal it is swallowed; a job whose row cannot *)
(* be written fails, and one that failed or was cancelled writes it later.   *)
MakerSeals ==
    /\ maker.phase = "seal"
    /\ resultRow' = IF origin.kind = "statement" \/ maker.outcome = "succeeded"
                    THEN [state |-> "complete",
                          total |-> IF manifest.truncated THEN Unknown ELSE manifest.rows]
                    ELSE resultRow
    /\ maker' = [maker EXCEPT !.phase = "settle"]
    /\ UNCHANGED <<origin, subject, manifest, viewer, asked, export, evicted>>

SealFails ==
    /\ maker.phase = "seal"
    /\ maker' = [maker EXCEPT !.phase = "settle",
                   !.outcome = IF origin.kind = "job" /\ @ = "succeeded" THEN "failed" ELSE @]
    /\ UNCHANGED <<origin, subject, manifest, resultRow, viewer, asked, export, evicted>>

(* The control lane gives up on a statement whose lane still goes on.        *)
StatementStruck ==
    /\ origin.kind = "statement" /\ subject = "running"
    /\ subject' = "failed"
    /\ UNCHANGED <<origin, maker, manifest, resultRow, viewer, asked, export, evicted>>

MakerSettles ==
    /\ maker.phase = "settle"
    /\ subject' = IF subject \in Over THEN subject ELSE maker.outcome
    /\ maker' = [maker EXCEPT !.phase = "close"]
    /\ UNCHANGED <<origin, manifest, resultRow, viewer, asked, export, evicted>>

(* _write_result_set_terminal: a cancelled job keeps no rows, a statement    *)
(* keeps what it has.                                                        *)
MakerCloses ==
    /\ maker.phase = "close" /\ origin.kind = "job" /\ maker.outcome # "succeeded"
    /\ maker' = [maker EXCEPT !.phase = "done"]
    /\ IF maker.outcome = "cancelled"
       THEN /\ resultRow' = [resultRow EXCEPT !.state = "closed"]
            /\ manifest' = NoManifest /\ evicted' = TRUE
       ELSE /\ resultRow' = [resultRow EXCEPT !.state = "failed"]
            /\ UNCHANGED <<manifest, evicted>>
    /\ UNCHANGED <<origin, subject, viewer, asked, export>>

(* The console's eviction, or the collector.                                 *)
SpoolEvicted ==
    /\ manifest.present /\ ~evicted
    /\ manifest' = NoManifest /\ evicted' = TRUE
    /\ resultRow' = [resultRow EXCEPT !.state = "closed"]
    /\ UNCHANGED <<origin, maker, subject, viewer, asked, export>>

----------------------------------------------------------------------------
(* The client's requests; what a route reads first it uses at the end.       *)

(* get_job_progress, get_statement_progress: the state, then the manifest.   *)
PollBegins ==
    /\ asked = NoRequest /\ ~viewer.over
    /\ asked' = [phase |-> "poll", state |-> subject]
    /\ UNCHANGED <<origin, maker, subject, manifest, resultRow, viewer, export, evicted>>

PollEnds ==
    /\ asked.phase = "poll"
    /\ viewer' = IF manifest.version > viewer.version
                 THEN [viewer EXCEPT !.over = asked.state \in Over, !.end = FALSE,
                                     !.version = manifest.version, !.loaded = manifest.rows]
                 ELSE [viewer EXCEPT !.over = asked.state \in Over]
    /\ asked' = NoRequest
    /\ UNCHANGED <<origin, maker, subject, manifest, resultRow, export, evicted>>

(* get_job_result and get_statement_result: the state decides whether there  *)
(* is an answer; rows, manifest and catalog row follow.                      *)
Readable == IF origin.kind = "job" THEN {"accepted", "running", "succeeded"}
            ELSE {"accepted", "running", "succeeded", "cancelled"}

PageBegins ==
    /\ asked = NoRequest /\ ~viewer.end
    /\ viewer.over \/ viewer.loaded > viewer.got
    /\ IF subject \in Readable
       THEN asked' = [phase |-> "rows", over |-> viewer.over] /\ UNCHANGED viewer
       ELSE viewer' = [viewer EXCEPT !.end = TRUE] /\ UNCHANGED asked
    /\ UNCHANGED <<origin, maker, subject, manifest, resultRow, export, evicted>>

PageRows ==
    /\ asked.phase = "rows"
    /\ asked' = [phase |-> "manifest", over |-> asked.over,
                 rows |-> Least(PageSize, IF manifest.rows < viewer.got THEN 0
                                          ELSE manifest.rows - viewer.got)]
    /\ UNCHANGED <<origin, maker, subject, manifest, resultRow, viewer, export, evicted>>

PageManifest ==
    /\ asked.phase = "manifest"
    /\ asked' = [phase |-> "row", over |-> asked.over, rows |-> asked.rows,
                 loaded |-> manifest.rows, truncated |-> manifest.truncated]
    /\ UNCHANGED <<origin, maker, subject, manifest, resultRow, viewer, export, evicted>>

(* Mutant of HasMore: rows beyond this page are forgotten.                   *)
HasMoreToCome(q, state, got) == state = "streaming" \/ q.truncated
(* Of these queries the manifest says has_more when it says truncated; one   *)
(* that goes to the database page by page is the subject of PagedQuery.      *)
HasMore(q, state, got) == \/ state = "streaming" \/ q.truncated
                          \/ got + q.rows < q.loaded

(* A page that says that there is no more, or is empty after the end of the  *)
(* statement, ends the reading.                                              *)
LastPage(q, state, got) == ~HasMore(q, state, got) \/ (q.rows = 0 /\ q.over)

PageEnds ==
    /\ asked.phase = "row"
    /\ viewer' = [viewer EXCEPT !.got = @ + asked.rows,
                                !.end = LastPage(asked, resultRow.state, viewer.got)]
    /\ asked' = NoRequest
    /\ UNCHANGED <<origin, maker, subject, manifest, resultRow, export, evicted>>

(* create_statement_export and its job counterpart, then the worker.         *)
Exportable == IF origin.kind = "job" THEN {"succeeded"} ELSE {"succeeded", "cancelled"}

ExportAsked ==
    /\ export.phase = "none" /\ subject \in Exportable /\ manifest.present
    /\ export' = [export EXCEPT !.phase = "pending"]
    /\ UNCHANGED <<origin, maker, subject, manifest, resultRow, viewer, asked, evicted>>

ExportRuns ==
    /\ export.phase = "pending"
    /\ export' = [phase |-> "done", rows |-> manifest.rows]
    /\ UNCHANGED <<origin, maker, subject, manifest, resultRow, viewer, asked, evicted>>

ReadsNext ==
    \/ MakerBegins \/ CancelledWaiting \/ (\E f \in 0..BatchSize : MakerAppends(f)) \/ MakerPublishes
    \/ MakerStops \/ MakerSeals \/ SealFails \/ StatementStruck \/ MakerSettles
    \/ MakerCloses \/ SpoolEvicted
    \/ PollBegins \/ PollEnds \/ PageBegins \/ PageRows \/ PageManifest \/ PageEnds
    \/ ExportAsked \/ ExportRuns

ReadsSpec == ReadsInit /\ [][ReadsNext]_readVars

----------------------------------------------------------------------------
(* Properties.                                                               *)

ReadsTypeOK ==
    /\ subject \in {"accepted", "running"} \union Over
    /\ manifest.rows \in 0..SpoolRowCap /\ manifest.version \in Nat
    /\ resultRow.state \in {"streaming", "complete", "failed", "closed"}
    /\ resultRow.total \in {Unknown} \union Nat
    /\ viewer.got \in Nat /\ viewer.version \in Nat

(* A client that saw the end of the statement before it asked, and whose     *)
(* page then says that there is no more, has every row of the spool; without *)
(* truncation and after a success these are all rows of the query.           *)
EndIsTheEnd ==
    viewer.end /\ viewer.over /\ ~evicted /\ subject \in Readable =>
        /\ viewer.got = manifest.rows
        /\ subject = "succeeded" /\ ~manifest.truncated => viewer.got = origin.rows

(* While the spool stands, a client never holds more than it holds.          *)
NothingInvented == ~evicted => viewer.got <= manifest.rows

(* A client that knows the current version knows how many rows there are:    *)
(* no poll can miss rows by comparing versions.                              *)
VersionsTell == ~evicted /\ viewer.version = manifest.version => viewer.loaded = manifest.rows

(* A total is only ever given for a result that is complete in the spool.    *)
TotalIsExact ==
    resultRow.state = "complete" /\ resultRow.total # Unknown /\ maker.outcome = "succeeded"
    /\ ~evicted => resultRow.total = origin.rows

(* What was exported is the whole spool, unless it was evicted after the     *)
(* export was accepted.                                                      *)
ExportIsWhole == export.phase = "done" /\ ~evicted => export.rows = manifest.rows

(* Polls, pages and exports that overlap the producer, the sealing and the   *)
(* eviction of a result never mislead: an end is the end, no row is made up, *)
(* an unchanged version means no new rows, totals and exports are exact      *)
(* (get_job_progress, get_statement_result, _execute_result_export).         *)
ReadsInv == /\ ReadsTypeOK /\ EndIsTheEnd /\ NothingInvented /\ VersionsTell
            /\ TotalIsExact /\ ExportIsWhole
=============================================================================
