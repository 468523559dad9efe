------------------------------ MODULE MCConsole ------------------------------
(* The registry of sessions, the result sets of a console, the reading of a  *)
(* result while it is produced and the seam to the database server, side by  *)
(* side: a behaviour is one of a single part.                                *)
EXTENDS ConsoleRegistry, ResultSets, InteractiveSeam, ResultReads, TLC

VARIABLE part

Symmetry == Permutations(Consoles) \union Permutations(Windows)
            \union Permutations(Datasources)

SeamRests == db.dialect = "mysql" /\ db.grants /\ db.knows

ReadsRest == origin.kind = "job" /\ \A n \in ResultSizes : origin.rows <= n

MCInit == /\ part \in {"registry", "results", "seam", "reads"}
          /\ RegistryInit /\ ResultsInit /\ SeamInit /\ ReadsInit
          /\ part # "registry" => \A c, k \in Consoles : console[c] = console[k]
          /\ part # "seam" => SeamRests
          /\ part # "reads" => ReadsRest

MCNext ==
    \/ part = "registry" /\ RegistryNext /\ UNCHANGED <<part, resultVars, seamVars, readVars>>
    \/ part = "results" /\ ResultsNext /\ UNCHANGED <<part, registryVars, seamVars, readVars>>
    \/ part = "seam" /\ SeamNext /\ UNCHANGED <<part, registryVars, resultVars, readVars>>
    \/ part = "reads" /\ ReadsNext /\ UNCHANGED <<part, registryVars, resultVars, seamVars>>

MCSpec == MCInit /\ [][MCNext]_<<part, registryVars, resultVars, seamVars, readVars>>
=============================================================================
