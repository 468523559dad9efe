------------------------------ MODULE MCServices -----------------------------
(* The services behind the studio, side by side: the datasources and their   *)
(* secrets, paging through a query, the lineage store and the scheduler of   *)
(* workflows.  A behaviour is one of a single part, and the others rest      *)
(* where they begin.                                                         *)
EXTENDS Datasources, PagedQuery, LineageStore, WorkflowTriggers, TLC

CONSTANTS s1, t1   \* a script and a relation it mentions

VARIABLE part

RowLimits == {NoLimit, 0, 3, 4}

MentionsOf == [s \in Scripts |-> {t1}]

SchemaOfEach == [t \in Relations |-> IF t = t1 THEN "own" ELSE "other"]

\* Calls, pagers, analyses, reviewers and schedulers are the same two.
Symmetry == Permutations(Calls)

QueryRests == /\ query = [size |-> 4, limit |-> NoLimit, skip |-> 1, ordered |-> TRUE]
              /\ PagedInit

TriggersRest == /\ wf = NewRow(TRUE, FALSE, FALSE, CHOOSE p \in Periods : TRUE, TRUE)
                /\ TriggersInit

MCInit ==
    /\ part \in {"datasources", "query", "lineage", "triggers"}
    /\ DatasourcesInit /\ LineageInit
    /\ part = "query" \/ QueryRests
    /\ part = "triggers" \/ TriggersRest
    /\ CASE part = "query" -> PagedInit [] part = "triggers" -> TriggersInit [] OTHER -> TRUE

MCNext ==
    /\ UNCHANGED part
    /\ \/ /\ part = "datasources" /\ DatasourcesNext
          /\ UNCHANGED <<pagedVars, lineageVars, triggerVars>>
       \/ /\ part = "query" /\ PagedNext
          /\ UNCHANGED <<datasourceVars, lineageVars, triggerVars>>
       \/ /\ part = "lineage" /\ LineageNext
          /\ UNCHANGED <<datasourceVars, pagedVars, triggerVars>>
       \/ /\ part = "triggers" /\ TriggersNext
          /\ UNCHANGED <<datasourceVars, pagedVars, lineageVars>>

allVars == <<part, datasourceVars, pagedVars, lineageVars, triggerVars>>

\* A query whose job ran twice, or whose spool went from under a job, is not
\* followed further: what PagedInv says of its rows is conditional on neither.
Explored == Undisturbed

MCSpec == MCInit /\ [][MCNext]_allVars
==============================================================================
