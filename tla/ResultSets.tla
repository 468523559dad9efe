----------------------------- MODULE ResultSets -----------------------------
(***************************************************************************)
(* The result sets of one console: the catalog rows (result_sets), the     *)
(* spools on disk (LocalFsResultStore), the session lane that fills them,  *)
(* the eviction of the oldest ones at each submit, the worker's garbage    *)
(* collection, and the snapshots that compare runs read                    *)
(* (CompareResultInputs).  Four actors share them without a common lock:   *)
(* the submitting request, the lane, the worker's GC and the compare       *)
(* requests.  Row i of a query is the number i; a batch is one row.        *)
(***************************************************************************)
EXTENDS Integers, FiniteSets

CONSTANTS
    ResultSetIds,  \* bound: statements of the console, each with its result set,
                   \* numbered as they are submitted
    Keep,          \* max_active_resultsets_per_console
    MaxRows,       \* bound: rows of a query
    Limit,         \* max_result_rows
    SpoolMax       \* spool_max_rows

ASSUME ResultBounds ==
    /\ ResultSetIds \subseteq Nat \ {0} /\ IsFiniteSet(ResultSetIds)
    /\ Keep \in Nat \ {0} /\ MaxRows \in Nat
    /\ Limit \in Nat \ {0} /\ SpoolMax \in Nat \ {0}

VARIABLES
    cat,      \* result_sets: [state, total]; total -1 is null
    newer,    \* the result sets by updated_at: pairs of a newer and an older one
    spool,    \* resultsets/<id>: [present, rows, trunc, old]
    stmt,     \* the statement each result set belongs to
    lane,     \* the lane: [rs, size, read, phase, outcome]
    hurt,     \* statements ended by a destroy, or whose sealing failed
    unrun,    \* statements ended before the lane took them
    doomed,   \* closed by the submit under way, spool not deleted yet
    live,     \* the console's session is active
    gc,       \* the worker's GC round: [phase, keep]
    capture,  \* a snapshot request under way
    input,    \* compare_result_inputs: one snapshot and its compare job
    inspool   \* resultsets/<input id>

resultVars == <<cat, newer, spool, stmt, lane, hurt, unrun, doomed, live,
                gc, capture, input, inspool>>

NoSpool == [present |-> FALSE, rows |-> {}, trunc |-> FALSE, old |-> FALSE]
IdleLane == [rs |-> 0, size |-> 0, read |-> 0, phase |-> "idle",
             outcome |-> "none"]
NoCapture == [phase |-> "none", src |-> 0, partial |-> FALSE, consent |-> FALSE]
NoInput == [state |-> "none", src |-> 0, consent |-> FALSE, expired |-> FALSE,
            leased |-> FALSE, job |-> "none"]
Terminal == {"succeeded", "failed", "cancelled"}

ResultsInit ==
    /\ cat = [r \in ResultSetIds |-> [state |-> "none", total |-> 0]]
    /\ newer = {}
    /\ spool = [r \in ResultSetIds |-> NoSpool]
    /\ stmt = [r \in ResultSetIds |-> "none"]
    /\ lane = IdleLane
    /\ hurt = {}
    /\ unrun = {}
    /\ doomed = {}
    /\ live = TRUE
    /\ gc = [phase |-> "off", keep |-> {}]
    /\ capture = NoCapture
    /\ input = NoInput
    /\ inspool = NoSpool

storeVars == <<gc, capture, input, inspool>>

\* The row is written: it is newer than every other.
Touched(r) ==
    LET rows == {x \in ResultSetIds : cat[x].state # "none"}
    IN  {p \in newer : r \notin {p[1], p[2]}} \union ({r} \X (rows \ {r}))

IsOpen(row) == row.state \notin {"none", "closed"}

\* Mutant of EvictedFrom: one too many is kept.
EvictedFromNext(order, states) ==
    LET open == {x \in ResultSetIds : IsOpen(states[x])}
    IN  {x \in open : Cardinality({y \in open : <<y, x>> \in order}) > Keep}

(* _stale_console_resultsets: all but the Keep most recently updated ones. *)
EvictedFrom(order, states) ==
    LET open == {x \in ResultSetIds : IsOpen(states[x])}
    IN  {x \in open : Cardinality({y \in open : <<y, x>> \in order}) >= Keep}

(***************************************************************************)
(* submit, in three transactions: the statement, its `streaming` row, the  *)
(* eviction; then the evicted spools are deleted and the lane gets the     *)
(* statement.  The broker's lock is held until then, but the lane writes   *)
(* rows and spools without it.                                             *)
(***************************************************************************)
LockFree == doomed = {} /\ \A r \in ResultSetIds : stmt[r] # "registered"

Register(r, ok) ==
    /\ live /\ LockFree /\ stmt[r] = "none"
    /\ \A q \in ResultSetIds : q < r => stmt[q] # "none"
    /\ IF ok
       THEN /\ cat' = [cat EXCEPT ![r] = [state |-> "streaming", total |-> -1]]
            /\ newer' = Touched(r)
            /\ stmt' = [stmt EXCEPT ![r] = "registered"]
            /\ unrun' = unrun
       ELSE /\ stmt' = [stmt EXCEPT ![r] = "failed"]
            /\ unrun' = unrun \union {r}
            /\ UNCHANGED <<cat, newer>>
    /\ UNCHANGED <<spool, lane, hurt, doomed, live, storeVars>>

(* When it fails the row of the failed statement stays as it is.           *)
Evicts(r, ok) ==
    LET out == EvictedFrom(newer, cat) IN
    /\ stmt[r] = "registered"
    /\ IF ok
       THEN /\ cat' = [x \in ResultSetIds |-> IF x \in out
                         THEN [cat[x] EXCEPT !.state = "closed"] ELSE cat[x]]
            /\ doomed' = out
            /\ stmt' = [stmt EXCEPT ![r] = "accepted"]
            /\ unrun' = unrun
       ELSE /\ stmt' = [stmt EXCEPT ![r] = "failed"]
            /\ unrun' = unrun \union {r}
            /\ UNCHANGED <<cat, doomed>>
    /\ UNCHANGED <<newer, spool, lane, hurt, live, storeVars>>

(* delete_spool; a failure is passed over and left to the GC.              *)
DeleteEvicted(r, ok) ==
    /\ r \in doomed
    /\ doomed' = doomed \ {r}
    /\ spool' = IF ok THEN [spool EXCEPT ![r] = NoSpool] ELSE spool
    /\ UNCHANGED <<cat, newer, stmt, lane, hurt, unrun, live, storeVars>>

(* cancel of a statement still queued, or shutdown (_cancel_queued_locked): *)
(* nobody writes its row any more.                                         *)
CancelQueued(r) ==
    /\ LockFree /\ stmt[r] = "accepted"
    /\ stmt' = [stmt EXCEPT ![r] = "cancelled"]
    /\ unrun' = unrun \union {r}
    /\ UNCHANGED <<cat, newer, spool, lane, hurt, doomed, live, storeVars>>

(***************************************************************************)
(* The lane: _execute_statement and _drain_to_spool.                       *)
(***************************************************************************)
LaneTakes(r, n) ==
    /\ live /\ LockFree /\ lane = IdleLane
    /\ stmt[r] = "accepted"
    /\ \A q \in ResultSetIds : q < r => stmt[q] # "accepted"
    /\ stmt' = [stmt EXCEPT ![r] = "running"]
    /\ lane' = [rs |-> r, size |-> n, read |-> 0, phase |-> "read",
                outcome |-> "none"]
    /\ UNCHANGED <<cat, newer, spool, hurt, unrun, doomed, live, storeVars>>

(* append_spool: a spool that is gone is begun again; a full one drops the *)
(* row and is marked truncated.                                            *)
Appended(s, row) ==
    [present |-> TRUE, old |-> FALSE,
     rows |-> IF s.trunc \/ Cardinality(s.rows) >= SpoolMax
              THEN s.rows ELSE s.rows \cup {row},
     trunc |-> s.trunc \/ Cardinality(s.rows) + 1 >= SpoolMax]

MayAppend == lane.phase = "read" /\ lane.read < lane.size /\ lane.read < Limit

LaneAppends ==
    /\ MayAppend
    /\ spool' = [spool EXCEPT ![lane.rs] = Appended(@, lane.read + 1)]
    /\ lane' = [lane EXCEPT !.read = @ + 1, !.phase = "publish"]
    /\ UNCHANGED <<cat, newer, stmt, hurt, unrun, doomed, live, storeVars>>

(* publish_streaming writes the row whatever its state, so an evicted      *)
(* result set is `streaming` again.                                        *)
LanePublishes ==
    /\ lane.phase = "publish"
    /\ cat' = [cat EXCEPT ![lane.rs] = [state |-> "streaming", total |-> -1]]
    /\ newer' = Touched(lane.rs)
    /\ lane' = [lane EXCEPT !.phase = "read"]
    /\ UNCHANGED <<spool, stmt, hurt, unrun, doomed, live, storeVars>>

(* The stream ends: all rows read, the row over the limit seen (then the   *)
(* spool is marked truncated), cancelled, or failed.                       *)
LaneStops ==
    /\ lane.phase = "read"
    /\ \/ /\ lane.read = lane.size
          /\ lane' = [lane EXCEPT !.phase = "seal", !.outcome = "succeeded"]
          /\ UNCHANGED spool
       \/ /\ lane.read = Limit /\ lane.read < lane.size
          /\ lane' = [lane EXCEPT !.phase = "seal", !.outcome = "succeeded"]
          /\ spool' = [spool EXCEPT ![lane.rs] =
                         [@ EXCEPT !.present = TRUE, !.trunc = TRUE, !.old = FALSE]]
       \/ /\ \E o \in {"cancelled", "failed"} :
                lane' = [lane EXCEPT !.phase = "seal", !.outcome = o]
          /\ UNCHANGED spool
    /\ UNCHANGED <<cat, newer, stmt, hurt, unrun, doomed, live, storeVars>>

OutputLimitApplied == lane.outcome = "succeeded" /\ lane.read < lane.size

(* finalize; an exception there is logged and swallowed.                   *)
LaneSeals(ok) ==
    LET r == lane.rs IN
    /\ lane.phase = "seal"
    /\ lane' = [lane EXCEPT !.phase = "settle"]
    /\ IF ok
       THEN /\ cat' = [cat EXCEPT ![r] = [state |-> "complete", total |->
                         IF spool[r].trunc \/ OutputLimitApplied
                         THEN -1 ELSE Cardinality(spool[r].rows)]]
            /\ newer' = Touched(r)
            /\ hurt' = hurt
       ELSE /\ hurt' = hurt \cup {r}
            /\ UNCHANGED <<cat, newer>>
    /\ UNCHANGED <<spool, stmt, unrun, doomed, live, storeVars>>

\* Mutant of MaySettle: the statement is ended before its result set.
MaySettleEarly == lane.phase \in {"seal", "settle"}

MaySettle == lane.phase = "settle"

LaneSettles ==
    LET r == lane.rs IN
    /\ MaySettle /\ LockFree
    /\ stmt' = IF stmt[r] \in Terminal THEN stmt
               ELSE [stmt EXCEPT ![r] = lane.outcome]
    /\ lane' = IdleLane
    /\ UNCHANGED <<cat, newer, spool, hurt, unrun, doomed, live, storeVars>>

(* The control lane destroys the session under a running statement.        *)
SessionDestroyed ==
    /\ live /\ LockFree /\ lane # IdleLane
    /\ live' = FALSE
    /\ stmt' = [stmt EXCEPT ![lane.rs] = "failed"]
    /\ hurt' = hurt \cup {lane.rs}
    /\ UNCHANGED <<cat, newer, spool, lane, unrun, doomed, storeVars>>

SessionEnds ==
    /\ live /\ LockFree /\ lane = IdleLane
    /\ live' = FALSE
    /\ UNCHANGED <<cat, newer, spool, stmt, lane, hurt, unrun, doomed, storeVars>>

(***************************************************************************)
(* The worker's GC round: the protected ids are read first, the expired    *)
(* snapshots collected next, the directories removed last.  A TTL of days  *)
(* does not run out between two of these steps.                            *)
(***************************************************************************)
TtlPasses ==
    /\ gc.phase = "off" /\ capture.phase # "spooled"
    /\ \/ \E r \in ResultSetIds :
            /\ spool[r].present /\ ~spool[r].old
            /\ spool' = [spool EXCEPT ![r].old = TRUE]
            /\ UNCHANGED <<input, inspool>>
       \/ /\ input.state = "ready" /\ ~input.leased /\ ~input.expired
          /\ input' = [input EXCEPT !.expired = TRUE]
          /\ inspool' = [inspool EXCEPT !.old = TRUE]
          /\ UNCHANGED spool
    /\ UNCHANGED <<cat, newer, stmt, lane, hurt, unrun, doomed, live, gc, capture>>

\* A statement gets its result set's id when it is queued.
ActiveConsoleResultSets ==
    {r \in ResultSetIds : live /\ stmt[r] \notin {"none", "registered"}}

GcReads ==
    /\ gc.phase = "off"
    /\ gc' = [phase |-> "read", keep |-> ActiveConsoleResultSets]
    /\ UNCHANGED <<cat, newer, spool, stmt, lane, hurt, unrun, doomed, live, capture,
                   input, inspool>>

(* Ready, past its expiry, and in no pending or running compare job.       *)
Collectable == input.state = "ready" /\ input.expired /\ input.job # "active"

GcCollects ==
    /\ gc.phase = "read"
    /\ IF Collectable
       THEN /\ input' = [input EXCEPT !.state = "deleted"]
            /\ inspool' = NoSpool
       ELSE UNCHANGED <<input, inspool>>
    /\ gc' = [gc EXCEPT !.phase = "collected"]
    /\ UNCHANGED <<cat, newer, spool, stmt, lane, hurt, unrun, doomed, live, capture>>

(* gc_expired: every directory past the TTL that is not protected; the     *)
(* snapshots still `ready` were added to the protected ids.                *)
GcSweeps ==
    /\ gc.phase = "collected"
    /\ gc' = [phase |-> "off", keep |-> {}]
    /\ spool' = [r \in ResultSetIds |->
                   IF spool[r].old /\ r \notin gc.keep THEN NoSpool ELSE spool[r]]
    /\ inspool' = IF inspool.old /\ input.state # "ready" THEN NoSpool ELSE inspool
    /\ UNCHANGED <<cat, newer, stmt, lane, hurt, unrun, doomed, live, capture, input>>

(***************************************************************************)
(* CompareResultInputs: capture, open (the lease of a new compare run) and *)
(* the run's end.                                                          *)
(***************************************************************************)

OriginPartial(r) == stmt[r] = "cancelled"

(* _resolve_origin and _require_stable_result_set.                         *)
CaptureResolves(r, consent) ==
    /\ capture = NoCapture /\ input = NoInput
    /\ stmt[r] \in {"succeeded", "cancelled"}
    /\ cat[r].state = "complete"
    /\ capture' = [phase |-> "resolved", src |-> r, partial |-> OriginPartial(r),
                   consent |-> consent]
    /\ UNCHANGED <<cat, newer, spool, stmt, lane, hurt, unrun, doomed, live, gc, input,
                   inspool>>

(* snapshot_spool, then the checks that may discard the snapshot again;    *)
(* without a source spool the result is gone.                              *)
CaptureSnapshots ==
    LET s == spool[capture.src] IN
    /\ capture.phase = "resolved"
    /\ IF s.present /\ (capture.partial \/ s.trunc => capture.consent)
       THEN /\ inspool' = [s EXCEPT !.old = FALSE]
            /\ capture' = [capture EXCEPT !.phase = "spooled"]
       ELSE /\ capture' = NoCapture
            /\ UNCHANGED inspool
    /\ UNCHANGED <<cat, newer, spool, stmt, lane, hurt, unrun, doomed, live, gc, input>>

(* The catalog row; when it cannot be written the snapshot is discarded.   *)
CaptureInserts(ok) ==
    /\ capture.phase = "spooled"
    /\ IF ok THEN /\ input' = [NoInput EXCEPT !.state = "ready", !.src = capture.src,
                                             !.consent = capture.consent]
                  /\ UNCHANGED inspool
             ELSE inspool' = NoSpool /\ UNCHANGED input
    /\ capture' = NoCapture
    /\ UNCHANGED <<cat, newer, spool, stmt, lane, hurt, unrun, doomed, live, gc>>

(* open by the compare route: the row is locked, so it is either collected *)
(* before or its expiry is moved past the run's own timeout.               *)
OpenForRun ==
    /\ input.state = "ready" /\ ~input.expired /\ inspool.present
    /\ input.job # "active" /\ ~input.leased
    /\ input' = [input EXCEPT !.leased = TRUE]
    /\ UNCHANGED <<cat, newer, spool, stmt, lane, hurt, unrun, doomed, live, gc, capture,
                   inspool>>

EnqueueRun ==
    /\ input.leased
    /\ input' = [input EXCEPT !.leased = FALSE, !.job = "active"]
    /\ UNCHANGED <<cat, newer, spool, stmt, lane, hurt, unrun, doomed, live, gc, capture,
                   inspool>>

RunEnds ==
    /\ input.job = "active"
    /\ input' = [input EXCEPT !.job = "over"]
    /\ UNCHANGED <<cat, newer, spool, stmt, lane, hurt, unrun, doomed, live, gc, capture,
                   inspool>>

ResultsNext ==
    \/ \E r \in ResultSetIds, ok \in BOOLEAN : Register(r, ok) \/ Evicts(r, ok)
    \/ \E r \in ResultSetIds : CancelQueued(r)
    \/ \E r \in ResultSetIds, ok \in BOOLEAN : DeleteEvicted(r, ok)
    \/ \E r \in ResultSetIds, n \in 0..MaxRows : LaneTakes(r, n)
    \/ LaneAppends \/ LanePublishes \/ LaneStops \/ LaneSettles
    \/ \E ok \in BOOLEAN : LaneSeals(ok)
    \/ SessionDestroyed \/ SessionEnds
    \/ TtlPasses \/ GcReads \/ GcCollects \/ GcSweeps
    \/ \E r \in ResultSetIds, consent \in BOOLEAN : CaptureResolves(r, consent)
    \/ CaptureSnapshots \/ (\E ok \in BOOLEAN : CaptureInserts(ok))
    \/ OpenForRun \/ EnqueueRun \/ RunEnds

ResultsSpec == ResultsInit /\ [][ResultsNext]_resultVars

-----------------------------------------------------------------------------

ResultsTypeOK ==
    /\ \A r \in ResultSetIds :
        /\ cat[r].state \in {"none", "streaming", "complete", "closed"}
        /\ spool[r].rows \subseteq 1..MaxRows
        /\ Cardinality(spool[r].rows) <= Limit
        /\ stmt[r] \in {"none", "registered", "accepted", "running"} \cup Terminal
    /\ lane.read \in 0..Limit
    /\ doomed \subseteq ResultSetIds

(* No window in which the statement is over and its result set still says  *)
(* streaming, unless the session was destroyed under the statement or the  *)
(* sealing itself failed (_execute_statement seals before it settles).     *)
(* The row of a statement that ended before the lane took it (cancelled in *)
(* the queue, or its registration failed) may say streaming for ever, but  *)
(* it has no rows and nobody fills it.                                     *)
SealedBeforeTerminal ==
    \A r \in ResultSetIds :
        /\ stmt[r] \in Terminal /\ r \notin hurt \union unrun => cat[r].state # "streaming"
        /\ r \in unrun => ~spool[r].present /\ lane.rs # r

(* A pending or running compare job finds its snapshot, whatever expires,  *)
(* is evicted or collected meanwhile (open extends the lease before the    *)
(* job exists, collect_expired spares what a job refers to).               *)
InputOutlivesJob ==
    input.leased \/ input.job = "active" =>
        input.state = "ready" /\ inspool.present

(* A snapshot taken without consent to a partial result comes from a       *)
(* statement that succeeded and was not cut off (capture).                 *)
PartialNeedsConsent ==
    input.state = "ready" /\ ~input.consent =>
        stmt[input.src] = "succeeded" /\ ~inspool.trunc

(* What may go, and what may not.  A submit closes results until at most Keep *)
(* of the console are open, also when a running statement has reopened an     *)
(* evicted one (_evict_console_resultsets).  It spares its own, but for one   *)
(* case: with Keep = 1 a batch that the running statement publishes between   *)
(* the two transactions is newer.  The garbage collection never takes a spool *)
(* of a session that is still active, although it reads the list of those     *)
(* before it deletes (_gc_result_store_if_due).                               *)
RightOnesGo ==
    [][/\ \A r \in ResultSetIds : stmt[r] = "registered" /\ stmt'[r] = "accepted" =>
            /\ Cardinality({x \in ResultSetIds :
                   cat'[x].state \in {"streaming", "complete"}}) <= Keep
            /\ \/ cat'[r].state = "streaming"
               \/ Keep = 1 /\ lane # IdleLane /\ <<lane.rs, r>> \in newer
       /\ gc.phase = "collected" /\ gc'.phase = "off" /\ live =>
            \A r \in ResultSetIds :
               stmt[r] # "none" /\ spool[r].present => spool'[r].present]_resultVars

(* What readers of a result rely on: it is sealed before its statement is   *)
(* over, the snapshot a compare job was given is there until the job ends,  *)
(* and a partial one was agreed to (_execute_statement,                     *)
(* CompareResultInputs.capture, gc_expired).                                *)
ResultsInv ==
    /\ ResultsTypeOK
    /\ SealedBeforeTerminal
    /\ InputOutlivesJob
    /\ PartialNeedsConsent
=============================================================================
