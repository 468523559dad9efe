-------------------------------- MODULE MCData -------------------------------
(* What reads the users' data, side by side: inferring and running a         *)
(* comparison, importing comparisons through the API, tracing a difference   *)
(* upstream, walking the lineage, analysing a ZIP of scripts and migrating   *)
(* from version 1.  A behaviour is one of a single part, and the others rest *)
(* where they begin.                                                         *)
EXTENDS CompareDraft, CompareRun, UpstreamTrace, LineageWalk, MigrateV1,
        DidaImport, LineageBatch, TLC

CONSTANTS t1, t2, t3   \* tables of the lineage graph

VARIABLE part

Symmetry == Permutations(Appliers) \union Permutations(BatchWorkers)

ColumnName(w, a, u) == [words |-> w, affix |-> a, upper |-> u]

ColumnNameSet ==
    {ColumnName({"x"}, FALSE, FALSE), ColumnName({"x"}, FALSE, TRUE),
     ColumnName({"x", "y"}, TRUE, FALSE), ColumnName({"x", "y", "z"}, FALSE, FALSE)}

DraftRests == /\ source = [columns |-> {}, constraint |-> {}] /\ target = source
              /\ content = [k \in ProbedKeys |-> 0] /\ DraftInit

RunRests == /\ src = [k \in AllKeys |-> <<>>] /\ tgt = src
            /\ config = [mode |-> "all", keyHashed |-> TRUE, capped |-> FALSE, keepSame |-> FALSE]
            /\ CompareInit

TraceRests == /\ lineage = {[src |-> "b", sc |-> 1, dst |-> "a", dc |-> 1, use |-> "direct"]}
              /\ ask = [depth |-> 1, inferred |-> FALSE, rounds |-> 0] /\ TraceInit

WalkRests == /\ stored = [tables |-> {}, hidden |-> {}, columns |-> {}]
             /\ WalkInit

MigrateRests ==
    LET u == CHOOSE x \in V1Users : TRUE
        p == CHOOSE x \in V1Projects : TRUE
    IN /\ v1 = [users |-> CHOOSE r \in UserRows : TRUE,
                projects |-> [x \in V1Projects |-> [owner |-> u, members |-> {}]],
                sources |-> [d \in V1Sources |-> Global],
                flows |-> [w \in V1Flows |-> [project |-> p, fit |-> TRUE]],
                jobs |-> [j \in V1Jobs |-> [owner |-> u, project |-> p, status |-> "running"]]]
       /\ options = [taking |-> TRUE, owner |-> u, name |-> p]
       /\ MigrateInit

ImportRests ==
    /\ scripts = [d \in DidaTasks |-> [t \in ImportTables |-> {CHOOSE p \in Predicates : TRUE}]]
    /\ apply = [a \in Appliers |-> Start] /\ ImportInit

Statement(t, o, f) == [table |-> t, op |-> o, full |-> f]
Script(name, size, ops, reads, rows) ==
    [script |-> name, sql |-> TRUE, size |-> size, ops |-> ops, reads |-> reads, rows |-> rows]
Load == Script("load", 1, <<Statement("t", "truncate", TRUE), Statement("t", "insert", FALSE)>>,
               {"u"}, <<2, 1>>)
Patch == Script("patch", 1, <<Statement("t", "insert", FALSE), Statement("t", "delete", TRUE),
                              Statement("u", "merge", FALSE)>>, {"t", "u"}, <<1, 1>>)
Swap == Script("swap", 2, <<Statement("u", "delete", FALSE), Statement("u", "create", FALSE)>>,
               {"t"}, <<0, 2>>)
Garbled == Script("garbled", 1, <<>>, {}, <<>>)
Huge == Script("huge", 4, <<>>, {}, <<1>>)
Notes == [Garbled EXCEPT !.sql = FALSE]
ArchiveSet ==
    {<<Load, Load>>, <<Load, Patch>>, <<Patch, Load>>, <<Swap, Load>>, <<Garbled, Huge>>,
     <<Load, Notes, Patch>>, <<Swap, Patch, Swap>>}
RolesByName == [t |-> {}, u |-> {"config"}]

BatchRests == archive = <<Load, Load>> /\ hasSource = FALSE /\ BatchInit

MCInit ==
    /\ part \in {"draft", "run", "trace", "walk", "migrate", "import", "batch"}
    /\ part = "draft" \/ DraftRests
    /\ part = "run" \/ RunRests
    /\ part = "trace" \/ TraceRests
    /\ part = "walk" \/ WalkRests
    /\ part = "migrate" \/ MigrateRests
    /\ part = "import" \/ ImportRests
    /\ part = "batch" \/ BatchRests
    /\ CASE part = "draft" -> DraftInit [] part = "run" -> CompareInit
         [] part = "trace" -> TraceInit
         [] part = "walk" -> WalkInit [] part = "migrate" -> MigrateInit
         [] part = "import" -> ImportInit [] part = "batch" -> BatchInit

MCNext ==
    /\ UNCHANGED part
    /\ \/ /\ part = "draft" /\ DraftNext
          /\ UNCHANGED <<compareVars, traceVars, walkVars, migrateVars, importVars, batchVars>>
       \/ /\ part = "run" /\ CompareNext
          /\ UNCHANGED <<draftVars, traceVars, walkVars, migrateVars, importVars, batchVars>>
       \/ /\ part = "trace" /\ TraceNext
          /\ UNCHANGED <<draftVars, compareVars, walkVars, migrateVars, importVars, batchVars>>
       \/ /\ part = "walk" /\ WalkNext
          /\ UNCHANGED <<draftVars, compareVars, traceVars, migrateVars, importVars, batchVars>>
       \/ /\ part = "migrate" /\ MigrateNext
          /\ UNCHANGED <<draftVars, compareVars, traceVars, walkVars, importVars, batchVars>>
       \/ /\ part = "import" /\ ImportNext
          /\ UNCHANGED <<draftVars, compareVars, traceVars, walkVars, migrateVars, batchVars>>
       \/ /\ part = "batch" /\ BatchNext
          /\ UNCHANGED <<draftVars, compareVars, traceVars, walkVars, migrateVars, importVars>>

allVars == <<part, draftVars, compareVars, traceVars, walkVars, migrateVars, importVars,
             batchVars>>

MCSpec == MCInit /\ [][MCNext]_allVars
==============================================================================
