----------------------------- MODULE CompareRun -----------------------------
(***************************************************************************)
(* One compare_run job (src/app/worker.py _execute_compare_run over        *)
(* src/app/domain/compare.py): two tables are compared key by key into     *)
(* four buckets, either from all rows of both sides or, for a single       *)
(* integer key, by recursive hashing of key ranges that skips the ranges   *)
(* whose fingerprints agree.  Every starting point is a pair of small      *)
(* tables and a configuration.                                             *)
(*                                                                         *)
(* A table maps a key to the sequence of values of the rows with that key; *)
(* NullKey stands for the rows whose key is NULL.  A value stands for the  *)
(* normalised identity of a row's compared columns.  A row hash is assumed *)
(* to be free of collisions, so that a sum of hashes is a bag of rows.     *)
(***************************************************************************)
EXTENDS Integers, Sequences, FiniteSets, FiniteSetsExt, SequencesExt

CONSTANTS LastKey,        \* integer keys are 1..LastKey
          CellValues,     \* values of a row
          Factor,         \* bisection_factor
          Threshold,      \* bisection_threshold
          MaxDepth,       \* max_bisection_depth
          BatchRows,      \* rows per spool batch
          RowCap,         \* run_limits.max_rows, where it is set
          DefaultCap      \* _FILE_COMPARE_DEFAULT_MAX_ROWS

ASSUME CompareBounds ==
    /\ LastKey \in Nat \ {0} /\ Factor \in Nat \ {0} /\ Threshold \in Nat \ {0}
    /\ MaxDepth \in Nat /\ BatchRows \in Nat \ {0} /\ RowCap \in Nat \ {0}
    /\ DefaultCap \in Nat \ {0}

VARIABLES src, tgt,       \* the two tables
          config,         \* what the task asks for
          phase,          \* where the job is
          stack,          \* key ranges still to look at, the next one first
          found,          \* found[b]: keys put into bucket b one by one
          skippedRows,    \* rows of the ranges whose fingerprints agreed
          batch, spool,   \* per bucket: rows pending, rows in the spool
          runIndex,       \* the run_index row
          changed         \* history: a table changed while the job ran

compareVars == <<src, tgt, config, phase, stack, found, skippedRows, batch, spool,
                 runIndex, changed>>

NullKey   == 0
IntKeys   == 1..LastKey
AllKeys   == {NullKey} \union IntKeys
Buckets   == {"only_source", "only_target", "diff", "same"}
Single    == {<<>>} \union {<<v>> : v \in CellValues}
Doubled   == {<<v, v>> : v \in CellValues}
Segments  == [start : 1..(LastKey + 1), end : 1..(LastKey + 1), depth : 0..MaxDepth]

CompareTypeOK ==
    /\ src \in [AllKeys -> Single \union Doubled]
    /\ tgt \in [AllKeys -> Single \union Doubled]
    /\ config.mode \in {"all", "hash", "sample"}
    /\ config.keyHashed \in BOOLEAN /\ config.capped \in BOOLEAN
    /\ config.keepSame \in BOOLEAN
    /\ phase \in {"queued", "scan", "flush", "done", "failed"}
    /\ stack \in Seq(Segments)
    /\ \A i \in DOMAIN stack : stack[i].start < stack[i].end
    /\ found \in [Buckets -> SUBSET AllKeys]
    /\ skippedRows \in Nat
    /\ batch \in [Buckets -> 0..(BatchRows - 1)] /\ spool \in [Buckets -> Nat]
    /\ runIndex.status \in {"pending", "running", "success", "failed"}
    /\ runIndex.counts \in [Buckets -> Nat]
    /\ changed \in BOOLEAN

Zero == [b \in Buckets |-> 0]

EmptyDiffProfile == [generated |-> FALSE]

(* A key that occurs twice, and a NULL key, are tried on the source side, with  *)
(* one value: which of the values it is makes no difference to either.          *)
CompareInit ==
    /\ \E v \in {CHOOSE w \in CellValues : TRUE} :
          src \in {t \in [AllKeys -> Single \union {<<v, v>>}] : t[NullKey] \in {<<>>, <<v>>}}
    /\ tgt \in {t \in [AllKeys -> Single] : t[NullKey] = <<>>}
    /\ config \in [mode : {"all", "hash", "sample"}, keyHashed : BOOLEAN,
                   capped : BOOLEAN, keepSame : BOOLEAN]
    /\ config.mode # "hash" => config.keyHashed
    /\ phase = "queued"
    /\ stack = <<>>
    /\ found = [b \in Buckets |-> {}]
    /\ skippedRows = 0
    /\ batch = Zero /\ spool = Zero
    /\ runIndex = [status |-> "pending", counts |-> Zero, profile |-> EmptyDiffProfile]
    /\ changed = FALSE

---------------------------------------------------------------------------
(* Reading *)

RowsOf(table, keys) == MapThenSumSet(LAMBDA k : Len(table[k]), keys)
KeysIn(table, keys) == {k \in keys : table[k] # <<>>}
RangeOf(segment)    == segment.start..(segment.end - 1)

(* The sum of the row hashes of a range as a bag: how many rows carry each *)
(* hashed content.  The key is part of the content unless the task ignores *)
(* the key column.                                                         *)
AggregateHash(table, keys) ==
    [c \in (IF config.keyHashed THEN keys ELSE {NullKey}) \X CellValues |->
        MapThenSumSet(LAMBDA k : Len(SelectSeq(table[k], LAMBDA v : v = c[2])),
                      IF config.keyHashed THEN {c[1]} ELSE keys)]

(* segment_fingerprint; the condition on the key never matches NULL. *)
SegmentFingerprint(table, segment) ==
    [row_count |-> RowsOf(table, RangeOf(segment)),
     aggregate_hash |-> AggregateHash(table, RangeOf(segment))]

(* _row_map and _index_rows_by_pk refuse a key that occurs twice. *)
DuplicateKey(table, keys) == \E k \in keys : Len(table[k]) > 1

(* _row_level_diff, _diff_all_rows and _diff_materialized_rows. *)
BucketOf(k) == IF src[k] = <<>> THEN "only_target"
               ELSE IF tgt[k] = <<>> THEN "only_source"
               ELSE IF src[k] = tgt[k] THEN "same" ELSE "diff"
RowLevelDiff(keys) ==
    [b \in Buckets |-> {k \in KeysIn(src, keys) \union KeysIn(tgt, keys) : BucketOf(k) = b}]

(* _split_segment: at most Factor ranges of equal width, the last shorter. *)
SplitSegment(segment, depth) ==
    LET width == segment.end - segment.start
        chunk == Max({1, (width + Factor - 1) \div Factor})
    IN  [i \in 1..((width + chunk - 1) \div chunk) |->
            [start |-> segment.start + (i - 1) * chunk,
             end   |-> Min({segment.end, segment.start + i * chunk}),
             depth |-> depth]]

---------------------------------------------------------------------------
(* Writing *)

(* The events of some keys: counted, and except for an unwanted "same"     *)
(* bucket batched; a full batch goes to the spool (_flush_batch).          *)
Batched(b) == b # "same" \/ config.keepSame

Emit(events) ==
    /\ found' = [b \in Buckets |-> found[b] \union events[b]]
    /\ batch' = [b \in Buckets |-> IF Batched(b)
                     THEN (batch[b] + Cardinality(events[b])) % BatchRows ELSE batch[b]]
    /\ spool' = [b \in Buckets |-> IF Batched(b)
                     THEN spool[b] + BatchRows * ((batch[b] + Cardinality(events[b])) \div BatchRows)
                     ELSE spool[b]]

(* An exception: _write_compare_run_terminal with "failed".  What the job  *)
(* had in memory is gone, the batches it wrote stay in the spool.          *)
Fail ==
    /\ phase' = "failed"
    /\ runIndex' = [runIndex EXCEPT !.status = "failed"]
    /\ stack' = <<>> /\ skippedRows' = 0
    /\ found' = [b \in Buckets |-> {}] /\ batch' = Zero
    /\ UNCHANGED <<src, tgt, config, spool, changed>>

Running == runIndex' = [runIndex EXCEPT !.status = "running"]

(* Rows of both sides in memory: at most the cap, no duplicate key. *)
Cap == IF config.capped THEN RowCap ELSE DefaultCap
Materialises ==
    /\ RowsOf(src, AllKeys) <= Cap /\ RowsOf(tgt, AllKeys) <= Cap
    /\ ~DuplicateKey(src, AllKeys) /\ ~DuplicateKey(tgt, AllKeys)

StartAll ==
    /\ phase = "queued" /\ config.mode = "all"
    /\ Materialises
    /\ Emit(RowLevelDiff(AllKeys))
    /\ phase' = "flush"
    /\ Running
    /\ UNCHANGED <<src, tgt, config, stack, skippedRows, changed>>

StartAllFails ==
    /\ phase = "queued" /\ config.mode = "all"
    /\ ~Materialises
    /\ Fail

(* _run_compare_hashdiff: the row limit, the bounds of both sides and the  *)
(* root range; small ranges, and runs that keep the "same" rows, are read  *)
(* row by row.                                                             *)
WithinCap == config.capped => RowsOf(src, AllKeys) <= RowCap /\ RowsOf(tgt, AllKeys) <= RowCap
Bounds    == KeysIn(src, IntKeys) \union KeysIn(tgt, IntKeys)
Root      == [start |-> Min(Bounds), end |-> Max(Bounds) + 1, depth |-> 0]
RowMode   == config.keepSame \/ Root.end - Root.start <= Threshold

StartHash ==
    /\ phase = "queued" /\ config.mode = "hash" /\ WithinCap
    /\ IF Bounds = {}
       THEN phase' = "flush" /\ UNCHANGED stack
       ELSE /\ phase' = "scan"
            /\ stack' = IF RowMode THEN <<Root>> ELSE SplitSegment(Root, 0)
    /\ Running
    /\ UNCHANGED <<src, tgt, config, found, skippedRows, batch, spool, changed>>

StartHashFails ==
    /\ phase = "queued" /\ config.mode = "hash" /\ ~WithinCap
    /\ Fail

Agrees(segment) == SegmentFingerprint(src, segment) = SegmentFingerprint(tgt, segment)

Descends(segment) ==
    /\ Max({RowsOf(src, RangeOf(segment)), RowsOf(tgt, RangeOf(segment))}) > Threshold
    /\ segment.depth < MaxDepth
    /\ segment.end - segment.start > 1

(* The loop of recursive_hashdiff_stream: skip, split, or read the rows.   *)
Scanning == phase = "scan" /\ stack # <<>>

SkipSegment ==
    /\ Scanning /\ ~RowMode /\ Agrees(Head(stack))
    /\ skippedRows' = skippedRows + RowsOf(src, RangeOf(Head(stack)))
    /\ stack' = Tail(stack)
    /\ UNCHANGED <<src, tgt, config, phase, found, batch, spool, runIndex, changed>>

DescendSegment ==
    /\ Scanning /\ ~RowMode /\ ~Agrees(Head(stack)) /\ Descends(Head(stack))
    /\ stack' = SplitSegment(Head(stack), Head(stack).depth + 1) \o Tail(stack)
    /\ UNCHANGED <<src, tgt, config, phase, found, skippedRows, batch, spool, runIndex, changed>>

Reads(segment) == RowMode \/ (~Agrees(segment) /\ ~Descends(segment))

Unique(segment) == ~DuplicateKey(src, RangeOf(segment)) /\ ~DuplicateKey(tgt, RangeOf(segment))

ReadSegment ==
    /\ Scanning /\ Reads(Head(stack)) /\ Unique(Head(stack))
    /\ Emit(RowLevelDiff(RangeOf(Head(stack))))
    /\ stack' = Tail(stack)
    /\ UNCHANGED <<src, tgt, config, phase, skippedRows, runIndex, changed>>

ReadSegmentFails ==
    /\ Scanning /\ Reads(Head(stack)) /\ ~Unique(Head(stack))
    /\ Fail

ScanDone ==
    /\ phase = "scan" /\ stack = <<>>
    /\ phase' = "flush"
    /\ UNCHANGED <<src, tgt, config, stack, found, skippedRows, batch, spool, runIndex, changed>>

(* _run_compare_sample_quick_check: some keys at or after random anchors,  *)
(* each compared alone.                                                    *)
StartSample ==
    /\ phase = "queued" /\ config.mode = "sample"
    /\ \E keys \in SUBSET Bounds :
          /\ ~DuplicateKey(src, keys) /\ ~DuplicateKey(tgt, keys)
          /\ Emit(RowLevelDiff(keys))
    /\ phase' = "flush"
    /\ Running
    /\ UNCHANGED <<src, tgt, config, stack, skippedRows, changed>>

StartSampleFails ==
    /\ phase = "queued" /\ config.mode = "sample"
    /\ \E k \in Bounds : DuplicateKey(src, {k}) \/ DuplicateKey(tgt, {k})
    /\ Fail

(* _RangeCluster: the missing integer keys in order, each the next of the   *)
(* last range or the start of another.                                     *)
(* Mutant of ExtendRanges: a gap of one key is bridged. *)
ExtendRangesLoosely(ranges, k) ==
    IF ranges # <<>> /\ k <= Last(ranges).end + 2
    THEN [ranges EXCEPT ![Len(ranges)].end = k]
    ELSE Append(ranges, [start |-> k, end |-> k])

ExtendRanges(ranges, k) ==
    IF ranges # <<>> /\ k = Last(ranges).end + 1
    THEN [ranges EXCEPT ![Len(ranges)].end = k]
    ELSE Append(ranges, [start |-> k, end |-> k])

(* _pk_scalar leaves a NULL key out. *)
MissingKeyRanges(keys) ==
    FoldLeft(ExtendRanges, <<>>, SetToSortSeq(keys \ {NullKey}, <))

(* _ColumnStats of the one value column: it changed in every differing row. *)
ColumnStats == [observed |-> Cardinality(found["diff"]) + Cardinality(found["same"]),
                changed |-> Cardinality(found["diff"])]

(* DiffProfileBuilder has seen every event, in whatever order: the rows on  *)
(* both sides, those whose value changed, and the ranges of missing keys.   *)
DiffProfile(counts) ==
    [generated |-> TRUE,
     events |-> MapThenSumSet(LAMBDA b : Cardinality(found[b]), Buckets),
     column |-> ColumnStats,
     counts |-> counts,
     missing |-> [b \in {"only_source", "only_target"} |-> MissingKeyRanges(found[b])]]

(* The rest of the batches, then the counts with the skipped rows (read    *)
(* only when the stream is used up) and _write_compare_run_complete.  A     *)
(* profile that cannot be made is left empty and fails nothing.            *)
FinishRun ==
    LET counts == [b \in Buckets |-> Cardinality(found[b])
                                      + (IF b = "same" THEN skippedRows ELSE 0)]
    IN
    /\ phase = "flush"
    /\ spool' = [b \in Buckets |-> spool[b] + batch[b]]
    /\ batch' = Zero
    /\ \E profile \in {DiffProfile(counts), EmptyDiffProfile} :
          runIndex' = [status |-> "success", counts |-> counts, profile |-> profile]
    /\ phase' = "done"
    /\ UNCHANGED <<src, tgt, config, stack, found, skippedRows, changed>>

(* The user cancels, a query fails or times out. *)
RunAborts ==
    /\ phase \in {"queued", "scan", "flush"}
    /\ Fail

(* The job takes no snapshot: a row may change between two of its queries. *)
TableChanges ==
    /\ phase = "scan" /\ ~changed
    /\ changed' = TRUE
    /\ \E k \in Bounds, v \in CellValues : src' = [src EXCEPT ![k] = <<v>>]
    /\ UNCHANGED <<tgt, config, phase, stack, found, skippedRows, batch, spool, runIndex>>

CompareNext ==
    \/ StartAll \/ StartAllFails \/ StartHash \/ StartHashFails \/ StartSample
    \/ StartSampleFails \/ SkipSegment \/ DescendSegment \/ ReadSegment \/ ReadSegmentFails
    \/ ScanDone \/ FinishRun \/ RunAborts \/ TableChanges

CompareSpec == CompareInit /\ [][CompareNext]_compareVars

---------------------------------------------------------------------------
(* Properties *)

Succeeded == phase = "done"
Compared  == IF config.mode = "all" THEN AllKeys ELSE IntKeys
Differing == {"only_source", "only_target", "diff"}

(* The prefilter loses nothing: when no key column is ignored and the      *)
(* tables stand still, a successful full run names exactly the keys that   *)
(* are missing or differ, and counts the others as same, whatever ranges   *)
(* were skipped, split or read.                                            *)
ExactDiff ==
    (Succeeded /\ config.mode # "sample" /\ config.keyHashed /\ ~changed) =>
        /\ \A b \in Differing : found[b] = RowLevelDiff(Compared)[b]
        /\ runIndex.counts["same"] = Cardinality(RowLevelDiff(Compared)["same"])

(* A key that is not unique never yields a result that looks normal: where *)
(* the other side has the key at most once, a full run fails.              *)
DuplicatesRefused ==
    (Succeeded /\ config.mode # "sample" /\ config.keyHashed /\ ~changed) =>
        ~DuplicateKey(src, Compared)

(* What a finished run announces is what can be paged through: every       *)
(* bucket count is the number of rows in its spool, but for the rows of    *)
(* the "same" bucket that are counted without being kept.                  *)
CountsMatchSpools ==
    Succeeded => /\ \A b \in Differing : runIndex.counts[b] = spool[b]
                 /\ config.keepSame => runIndex.counts["same"] = spool["same"] + skippedRows
                 /\ ~config.keepSame => spool["same"] = 0

(* The profile counts the rows that differ as the run does, skipped ranges  *)
(* and all, and its ranges of missing keys are exactly the missing          *)
(* integer keys, in order, and no two of them could be one.                *)
ProfileIsExact ==
    Succeeded /\ runIndex.profile.generated =>
        /\ runIndex.profile.column.changed = runIndex.counts["diff"]
        /\ \A b \in {"only_source", "only_target"} :
              LET r == runIndex.profile.missing[b] IN
              /\ UNION {r[i].start..r[i].end : i \in DOMAIN r} = found[b] \intersect IntKeys
              /\ \A i \in DOMAIN r : /\ r[i].start <= r[i].end
                                      /\ i > 1 => r[i].start > r[i - 1].end + 1

(* While the tables stand still and no key column is ignored, a run that    *)
(* ends as a success reports exactly the difference of the two tables,      *)
(* refuses a key that is not unique, and counts the rows of its spools,     *)
(* however the segments were skipped or split and the batches cut; its      *)
(* profile tells the same (_run_compare_hashdiff,                           *)
(* recursive_hashdiff_stream, DiffProfileBuilder).                          *)
CompareInv ==
    /\ CompareTypeOK /\ ExactDiff /\ DuplicatesRefused /\ CountsMatchSpools
    /\ ProfileIsExact
=============================================================================
