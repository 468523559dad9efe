---------------------------- MODULE CompareDraft ----------------------------
(***************************************************************************)
(* What the studio works out about two tables before a compare task exists *)
(* (compare_infer.py and the compare endpoints that need no task): which   *)
(* columns correspond, which of them are a key on both sides, the draft of *)
(* a task, the assistant's suggestions for the columns left over, and the  *)
(* two probes of a table: the preview of its rows and the precheck of its  *)
(* key.  Column lists and index lists come from separate cached reads, so  *)
(* an index may name a column that is gone.  Tables change while probed.   *)
(***************************************************************************)
EXTENDS Naturals, FiniteSets, FiniteSetsExt

CONSTANTS
    ColumnNames,  \* the names a column may have, see Name
    Types,        \* the types a column may have
    MaxColumns,   \* bound: columns of a table
    PreviewLimit, \* rows a preview returns
    MaxTableRows  \* bound: rows of each key of a probed table

\* A name by its parts: the words it is made of (after aliases), whether an
\* affix such as src or tgt is left of them, and its case.
Name == [words : SUBSET {"x", "y", "z"}, affix : BOOLEAN, upper : BOOLEAN]

ASSUME DraftBounds == /\ ColumnNames \subseteq Name
                      /\ Types \subseteq {"integer", "decimal", "boolean", "string"}
                      /\ PreviewLimit \in Nat \ {0} /\ MaxTableRows \in Nat

VARIABLES
    source, target, \* the metadata of the two tables: columns and constraints
    draft,          \* the draft worked out from it, or NoDraft
    suggested,      \* the suggestions of the assistant that were accepted
    content,        \* rows of the probed table under each key, null included
    probe           \* the progress of a precheck, and the last preview

draftVars == <<source, target, draft, suggested, content, probe>>

NoDraft == [status |-> "none"]

Column == [name : ColumnNames, type : Types]

ColumnSets == {c \in UNION {kSubset(n, Column) : n \in 0..MaxColumns} :
                  \A a, b \in c : a.name = b.name => a = b}

NamesOf(columns) == {c.name : c \in columns}

\* A table: its columns, and the columns of its primary key or of a unique
\* index, or the one column of an index that is gone with its column.
Metadata == {m \in [columns : ColumnSets, constraint : SUBSET ColumnNames] :
                \/ m.constraint \subseteq NamesOf(m.columns)
                \/ Cardinality(m.constraint) = 1}

-----------------------------------------------------------------------------
(* Which columns correspond.                                                *)

Compatible(s, t) ==
    \/ s = t
    \/ {s, t} \subseteq {"integer", "decimal"}
    \/ {s, t} = {"boolean", "integer"}

SameButCase(s, t) == s.words = t.words /\ s.affix = t.affix

WordsMatch(s, t) ==
    LET shared == s.words \intersect t.words
        smaller == Min({Cardinality(s.words), Cardinality(t.words)})
    IN Cardinality(shared) = smaller /\ smaller >= 2

\* The confidence in hundredths that two names mean the same, 0 for no match.
NameConfidence(s, t) ==
    IF s = t THEN 100
    ELSE IF SameButCase(s, t) THEN 98
    ELSE IF s.words = t.words THEN 90
    ELSE IF WordsMatch(s, t) THEN 72
    ELSE 0

ColumnMappings(s, t) ==
    {c \in [source : NamesOf(s), target : NamesOf(t)] :
        /\ NameConfidence(c.source, c.target) > 0
        /\ \A a \in s, b \in t :
              a.name = c.source /\ b.name = c.target => Compatible(a.type, b.type)}

\* A candidate one of whose columns has another candidate is left to the user.
InConflictBySource(c, all) == \E d \in all : d # c /\ d.source = c.source

InConflict(c, all) == \E d \in all : d # c /\ (d.source = c.source \/ d.target = c.target)

Confirmed(s, t) == LET all == ColumnMappings(s, t)
                   IN {c \in all : ~InConflict(c, all)}

-----------------------------------------------------------------------------
(* The key.                                                                 *)

Mapped(names, mapping) ==
    IF \A n \in names : \E c \in mapping : c.source = n
    THEN {c.target : c \in {c \in mapping : c.source \in names}}
    ELSE {}

\* The source key is taken if all its columns are mapped and their images are
\* the columns of a key of the target.
KeyColumns(s, t) ==
    LET image == Mapped(s.constraint, Confirmed(s.columns, t.columns))
    IN IF s.constraint # {} /\ image # {} /\ image = t.constraint
       THEN s.constraint ELSE {}

ComparedColumns(s, t) ==
    {c.source : c \in Confirmed(s.columns, t.columns)} \ KeyColumns(s, t)

\* infer, and draft-task: a draft without a key is shown but not stored.
InferDraft ==
    /\ draft = NoDraft
    /\ draft' = [status |-> IF KeyColumns(source, target) = {} THEN "needs_manual_pk"
                            ELSE "stored",
                 mapping |-> Confirmed(source.columns, target.columns),
                 keys |-> KeyColumns(source, target),
                 columns |-> ComparedColumns(source, target)]
    /\ UNCHANGED <<source, target, suggested, content, probe>>

-----------------------------------------------------------------------------
(* The assistant's suggestions.                                             *)

Lower(name) == [words |-> name.words, affix |-> name.affix]

\* The columns of a side that no confirmed pair names, whatever their case.

Residual(columns, named) ==
    {n \in NamesOf(columns) : \A k \in named : Lower(k) # Lower(n)}

ResidualSource == Residual(source.columns, {c.source : c \in draft.mapping})
ResidualTarget == Residual(target.columns, {c.target : c \in draft.mapping})

\* The model may answer anything: a pair counts if both columns are residual
\* and the source column has no suggestion yet.
AcceptSuggestion(a, b) ==
    /\ draft # NoDraft
    /\ a \in ColumnNames /\ b \in ColumnNames
    /\ \E n \in ResidualSource : Lower(n) = Lower(a)
    /\ \E n \in ResidualTarget : Lower(n) = Lower(b)
    /\ \A c \in suggested : Lower(c.source) # Lower(a)
    /\ suggested' = suggested \union {[source |-> a, target |-> b]}
    /\ UNCHANGED <<source, target, draft, content, probe>>

-----------------------------------------------------------------------------
(* The probes.                                                              *)

NullTuple == 0
ProbedKeys == 0..2

RowCount == content[0] + content[1] + content[2]

\* The rows of the table change between two statements of a probe.
ProbedTableChanges ==
    /\ \E k \in ProbedKeys, n \in 0..MaxTableRows :
          n # content[k] /\ content' = [content EXCEPT ![k] = n]
    /\ probe' = [probe EXCEPT !.changed = (probe.stage = "counted")]
    /\ probe.stage = "counted" /\ ~probe.changed
    /\ UNCHANGED <<source, target, draft, suggested>>

\* SELECT COUNT( * ), and the rows with a null in the key.
PrecheckCount ==
    /\ probe.stage = "idle"
    /\ probe' = [probe EXCEPT !.stage = "counted", !.total = RowCount,
                              !.nulls = content[NullTuple]]
    /\ UNCHANGED <<source, target, draft, suggested, content>>

\* COUNT over SELECT DISTINCT: the rows with a null key are one group.

DistinctRows == Cardinality({k \in ProbedKeys : content[k] > 0})

PrecheckDistinct ==
    /\ probe.stage = "counted"
    /\ probe' = [probe EXCEPT !.stage = "prechecked",
                   !.duplicates = IF probe.total > DistinctRows
                                  THEN probe.total - DistinctRows ELSE 0]
    /\ UNCHANGED <<source, target, draft, suggested, content>>

\* One row more than the limit is asked for, to tell whether there are more.
RowsAsked == PreviewLimit + 1

Preview ==
    /\ probe.stage = "prechecked"
    /\ LET fetched == Min({RowCount, RowsAsked})
       IN probe' = [probe EXCEPT !.stage = "previewed",
                      !.shown = Min({fetched, PreviewLimit}),
                      !.truncated = fetched > PreviewLimit]
    /\ UNCHANGED <<source, target, draft, suggested, content>>

-----------------------------------------------------------------------------
\* Either two tables are inferred over, or one table is probed.
DraftInit ==
    /\ \/ /\ source \in Metadata /\ target \in Metadata
          /\ source.constraint # {} /\ target.constraint # {}
          /\ content = [k \in ProbedKeys |-> 0]
          /\ source.columns # {} /\ target.columns # {}
       \/ /\ source = [columns |-> {}, constraint |-> {}]
          /\ target = source
          /\ content \in [ProbedKeys -> 0..MaxTableRows]
    /\ draft = NoDraft /\ suggested = {}
    /\ probe = [stage |-> IF source.columns = {} THEN "idle" ELSE "none",
                changed |-> FALSE, total |-> 0, nulls |-> 0, duplicates |-> 0,
                shown |-> 0, truncated |-> FALSE]

DraftNext == \/ InferDraft \/ PrecheckCount \/ ProbedTableChanges \/ PrecheckDistinct \/ Preview
             \/ \E a, b \in ColumnNames : AcceptSuggestion(a, b)

DraftSpec == DraftInit /\ [][DraftNext]_draftVars

-----------------------------------------------------------------------------
(* Properties.                                                              *)

\* A draft names columns, and its keys and its compared columns are disjoint.
DraftTypeOK ==
    /\ source \in Metadata /\ target \in Metadata
    /\ draft # NoDraft =>
         /\ draft.mapping \subseteq [source : ColumnNames, target : ColumnNames]
         /\ draft.keys \subseteq ColumnNames /\ draft.keys \intersect draft.columns = {}
    /\ probe.shown \in 0..PreviewLimit

\* Confirmed correspondences are one to one: no column of either table is
\* mapped twice without the user having decided.
MappingIsOneToOne ==
    draft # NoDraft => \A c, d \in draft.mapping :
        (c.source = d.source) <=> (c.target = d.target)

\* The key of a draft exists on both sides, also when the cached indexes name
\* columns that are gone, and is a key of both.
KeyExistsOnBothSides ==
    draft # NoDraft => /\ draft.keys \subseteq NamesOf(source.columns)
                       /\ \A n \in draft.keys : \E c \in draft.mapping :
                             c.source = n /\ c.target \in NamesOf(target.columns)
                       /\ draft.keys # {} =>
                            {c.target : c \in {c \in draft.mapping : c.source \in draft.keys}}
                              = target.constraint

\* A suggestion never touches a column that a confirmed pair names, whatever
\* the case it is written in, and no source column gets two.
SuggestionsAreResidual ==
    \A c \in suggested :
        /\ \A d \in draft.mapping : /\ Lower(d.source) # Lower(c.source)
                                    /\ Lower(d.target) # Lower(c.target)
        /\ \A d \in suggested : d.source = c.source => d = c

\* On a table that did not change between its two queries, the precheck
\* reports duplicates exactly when two rows share a key (null included), and
\* the preview says that it was cut exactly when there are more rows.
ProbesAreExact ==
    /\ probe.stage = "prechecked" /\ ~probe.changed =>
          (probe.duplicates > 0 <=> \E k \in ProbedKeys : content[k] > 1)
    /\ probe.stage = "previewed" => (probe.truncated <=> RowCount > probe.shown)

(* A draft made from two schemas can be run: the confirmed mapping is one   *)
(* to one, the key exists on both sides, suggestions are what the mapping   *)
(* left over, and on a table that stands still the precheck answers exactly *)
(* (compare draft and precheck).                                            *)
DraftInv ==
    /\ DraftTypeOK
    /\ MappingIsOneToOne
    /\ KeyExistsOnBothSides
    /\ SuggestionsAreResidual
    /\ ProbesAreExact
=============================================================================
