---------------------------- MODULE UpstreamTrace ----------------------------
(***************************************************************************)
(* From the differing rows of a compare run to the rows they came from:    *)
(* the key columns of the compared table are followed up the column        *)
(* lineage, one hop at a time, and each upstream table that is reached     *)
(* gets a SELECT of its own (compare_upstream_sql.py and the two trace-sql *)
(* endpoints).  The endpoint first collects the edges hop by hop; the walk *)
(* over what was collected is a pure function of the domain.               *)
(*                                                                         *)
(* The database returns edges in no particular order, so where the code    *)
(* takes the first edge or the first table the model takes any of them.    *)
(***************************************************************************)
EXTENDS Naturals, FiniteSets, FiniteSetsExt, Functions

CONSTANTS
    TraceTables, \* the tables of the project
    RootTable,    \* the physical table of the run's source side
    TraceColumns,\* the columns of each table; all of them are key columns of
                 \* the compared table
    MaxEdges,    \* bound: column edges of the active lineage runs
    TraceDepths  \* the values of max_depth a client asks for

ASSUME TraceBounds == /\ RootTable \in TraceTables
                      /\ TraceDepths \subseteq Nat \ {0}
                      /\ TraceColumns \subseteq Nat \ {0}

VARIABLES
    lineage,   \* the column edges of the active runs, rejected ones left out
    ask,       \* the request: its depth and whether inferred edges count
    got,       \* the edges collected so far
    fringe,    \* the tables whose edges are collected next
    tracePhase,\* "collect", "walk" or the reason of the answer
    hopDepth,  \* the depth of the hops being built
    frontier,  \* the tables to expand at this depth, with their columns
    upcoming,  \* the tables to expand at the next depth
    visited,   \* the tables that were ever put on a frontier
    hops,      \* the hops of the answer
    asked      \* the tables an assistant was asked to write the SELECT for

traceVars == <<lineage, ask, got, fringe, tracePhase, hopDepth, frontier,
               upcoming, visited, hops, asked>>

\* How the value of a column depends on its source: copied or cast (which a
\* key can be followed through), computed, or guessed and not yet confirmed.
Uses == {"direct", "computed", "inferred"}

Missing == 0

ColumnEdges == [src : TraceTables, sc : TraceColumns,
                dst : TraceTables, dc : TraceColumns, use : Uses]

\* The columns of a table that stand for the key columns, or Missing.
Slots == [TraceColumns -> TraceColumns \union {Missing}]

\* Deterministic edges are certain, inferred ones carry a lower score.
EdgeConfidence(use) == IF use = "inferred" THEN 74 ELSE 100

Usable(e) == e.use = "direct" \/ (e.use = "inferred" /\ ask.inferred)

Into(tables, edges) == {e \in edges : e.dst \in tables}

-----------------------------------------------------------------------------
(* The endpoint collects edges.                                             *)

RoundsShort(depth) == depth - 1

Rounds(depth) == depth

\* One round: the edges into the fringe, and their sources not seen before.
CollectRound ==
    /\ tracePhase = "collect" /\ ask.rounds < Rounds(ask.depth) /\ fringe # {}
    /\ got' = got \union Into(fringe, lineage)
    /\ fringe' = {e.src : e \in Into(fringe, lineage)}
                 \ ({RootTable} \union {e.src : e \in got} \union fringe)
    /\ ask' = [ask EXCEPT !.rounds = @ + 1]
    /\ UNCHANGED <<lineage, tracePhase, hopDepth, frontier, upcoming, visited,
                   hops, asked>>

StartWalk ==
    /\ tracePhase = "collect"
    /\ ask.rounds = Rounds(ask.depth) \/ fringe = {}
    /\ tracePhase' = "walk"
    /\ UNCHANGED <<lineage, ask, got, fringe, hopDepth, frontier, upcoming,
                   visited, hops, asked>>

-----------------------------------------------------------------------------
(* The walk.                                                                *)

\* Edges into the columns by which table t stands for the key.
KeyEdges(t, edges) ==
    {e \in edges : e.dst = t /\ \E i \in TraceColumns : frontier[t][i] = e.dc}

Followed(t, edges) == {e \in KeyEdges(t, edges) : Usable(e)}

\* The columns of upstream table u for the key, read through table t: at each
\* position the source of one edge, where there is one.
SlotsFrom(t, u, edges) ==
    LET at(i) == {e \in Followed(t, edges) : e.src = u /\ e.dc = frontier[t][i]}
    IN {s \in Slots : \A i \in TraceColumns :
            IF frontier[t][i] = Missing \/ at(i) = {} THEN s[i] = Missing
            ELSE \E e \in at(i) : s[i] = e.sc}

\* The edges of a hop: the ones that filled its positions.
HopEdges(t, u, s, edges) ==
    {e \in Followed(t, edges) : /\ e.src = u
                                /\ \E i \in TraceColumns : /\ frontier[t][i] = e.dc
                                                           /\ s[i] = e.sc}

Lowest(edges) == Min({EdgeConfidence(e.use) : e \in edges})

\* What one table of the frontier yields: a hop for every upstream table its
\* key columns can be followed to and, if there is none, one for every table
\* they cannot be followed to.  A table that was visited is not expanded again.
ExpandTable(t) ==
    /\ tracePhase = "walk" /\ t \in DOMAIN frontier
    /\ LET up == {e.src : e \in Followed(t, got)}
           blocked == {e.src : e \in KeyEdges(t, got)}
           fresh == up \ visited
       IN \E slots \in [up -> Slots] :
            /\ \A u \in up : slots[u] \in SlotsFrom(t, u, got)
            /\ hops' = hops \union
                 (IF up # {}
                  THEN {[depth |-> hopDepth, table |-> u, slot |-> slots[u],
                         available |-> TRUE,
                         confidence |-> Lowest(HopEdges(t, u, slots[u], got))]
                           : u \in up}
                  ELSE {[depth |-> hopDepth, table |-> u, slot |-> [i \in TraceColumns |-> Missing],
                         available |-> FALSE, confidence |-> 100]
                           : u \in blocked})
            /\ upcoming' = [u \in DOMAIN upcoming \union fresh |->
                 IF u \in DOMAIN upcoming THEN upcoming[u] ELSE slots[u]]
            /\ visited' = visited \union fresh
    /\ frontier' = Restrict(frontier, DOMAIN frontier \ {t})
    /\ UNCHANGED <<lineage, ask, got, fringe, tracePhase, hopDepth, asked>>

Deeper(depth) == depth < ask.depth

NextDepth ==
    /\ tracePhase = "walk" /\ DOMAIN frontier = {}
    /\ IF Deeper(hopDepth) /\ DOMAIN upcoming # {}
       THEN /\ hopDepth' = hopDepth + 1
            /\ frontier' = upcoming
            /\ upcoming' = Restrict(upcoming, {})
            /\ UNCHANGED tracePhase
       ELSE /\ tracePhase' = "answered"
            /\ UNCHANGED <<hopDepth, frontier, upcoming>>
    /\ UNCHANGED <<lineage, ask, got, fringe, visited, hops, asked>>

\* The assistant endpoint collects and walks the same way, then asks a model
\* for the SELECT of one blocked hop; a hop with a SELECT is refused.
AskAssistant(u) ==
    /\ tracePhase = "answered" /\ u \notin asked
    /\ \E h \in hops : h.table = u /\ ~h.available
    /\ asked' = asked \union {u}
    /\ UNCHANGED <<lineage, ask, got, fringe, tracePhase, hopDepth, frontier,
                   upcoming, visited, hops>>

\* The positions of the key in the SELECT of a hop: those that were not
\* followed are dropped from the tuples, what is left is a superset.
KeptPositions(h) == {i \in TraceColumns : h.slot[i] # Missing}

-----------------------------------------------------------------------------
\* A request for a physical table with differing rows and a matching lineage
\* run; the others are answered with a reason before anything is collected.
TraceInit ==
    /\ lineage \in {Range(s) : s \in [1..MaxEdges -> {e \in ColumnEdges : e.src # e.dst}]}
    /\ ask \in [depth : TraceDepths, inferred : BOOLEAN, rounds : {0}]
    /\ got = {} /\ fringe = {RootTable}
    /\ tracePhase = "collect" /\ hopDepth = 1
    /\ frontier = [t \in {RootTable} |-> [i \in TraceColumns |-> i]]
    /\ upcoming = Restrict(frontier, {})
    /\ visited = {RootTable} /\ hops = {} /\ asked = {}

TraceNext == \/ CollectRound \/ StartWalk \/ NextDepth
             \/ \E t \in TraceTables : ExpandTable(t) \/ AskAssistant(t)

TraceSpec == TraceInit /\ [][TraceNext]_traceVars

-----------------------------------------------------------------------------
(* Properties.                                                              *)

\* The states of a request have their shape.
TraceTypeOK ==
    /\ lineage \subseteq ColumnEdges /\ got \subseteq lineage
    /\ fringe \subseteq TraceTables /\ DOMAIN frontier \subseteq visited
    /\ DOMAIN upcoming \subseteq visited /\ visited \subseteq TraceTables
    /\ hopDepth \in 1..ask.depth
    /\ \A h \in hops : h.depth \in 1..hopDepth /\ h.slot \in Slots /\ h.confidence \in {74, 100}

\* The walk is made on what was collected round by round, and loses nothing
\* by it: whatever table it expands, all edges into that table are at hand.
CollectedSuffices ==
    tracePhase = "walk" => \A t \in DOMAIN frontier : Into({t}, lineage) \subseteq got

\* The key positions and columns that a chain of n usable edges leads to.
Chains[n \in 0..Max(TraceDepths)] ==
    IF n = 0 THEN {<<i, RootTable, i>> : i \in TraceColumns}
    ELSE UNION {{<<c[1], e.src, e.sc>> : e \in {e \in lineage : /\ Usable(e)
                                                             /\ e.dst = c[2]
                                                             /\ e.dc = c[3]}}
                  : c \in Chains[n - 1]}

\* A SELECT is offered only for columns that the key can be followed to, by as
\* many invertible edges as the hop is deep: no computed edge and, unless the
\* client asked for them, no unconfirmed one lies on the way.
SelectsAreInvertible ==
    \A h \in hops : h.available =>
        /\ KeptPositions(h) # {}
        /\ \A i \in KeptPositions(h) : <<i, h.table, h.slot[i]>> \in Chains[h.depth]

\* Every usable edge of a table leads to one table only, and from one column
\* of it: then no choice of the walk can hide anything.
Unambiguous ==
    \A e, f \in {e \in lineage : Usable(e)} :
        e.src = f.src => e.dst = f.dst /\ (e.dc = f.dc => e.sc = f.sc)

\* Where the lineage is unambiguous, every table the key leads to within the
\* depth asked for is offered a SELECT.
UpstreamIsComplete ==
    tracePhase = "answered" /\ Unambiguous =>
        \A n \in 1..ask.depth : \A c \in Chains[n] :
            c[2] # RootTable => \E h \in hops : h.available /\ h.table = c[2]

(* The upstream trace is made on the edges collected round by round and     *)
(* loses nothing by it: the SELECTs it offers follow invertible edges only, *)
(* and where the lineage is unambiguous every table within the depth gets   *)
(* one (build_upstream_hops, _compare_upstream_edges).                      *)
TraceInv ==
    /\ TraceTypeOK
    /\ CollectedSuffices
    /\ SelectsAreInvertible
    /\ UpstreamIsComplete
=============================================================================
