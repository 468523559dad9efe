---------------------------- MODULE LineageWalk ----------------------------
(***************************************************************************)
(* The read side of lineage: the subgraph, impact, column-trace, export    *)
(* and trace-compare endpoints.  All of them run one recursive walk from a *)
(* focus to depth max + 1 over the stored edges, keep the rows up to max   *)
(* and report `truncated' when a row lies beyond.                          *)
(*                                                                         *)
(* Init is any stored graph; one request is answered.  A table has one     *)
(* column, written <<t>>; columns carry edges of their own.                *)
(***************************************************************************)
EXTENDS Integers, Sequences, FiniteSets, FiniteSetsExt, SequencesExt

CONSTANTS Tables,     \* table names that occur on edges
          Focus,      \* the table asked about
          MaxDepths,  \* values of max_depth a request may carry
          HopCaps     \* values of max_hops of a trace-compare

ASSUME WalkBounds == /\ Focus \in Tables
                     /\ MaxDepths \subseteq 1..5
                     /\ HopCaps \subseteq Nat \ {0}

VARIABLES stored,     \* [tables, hidden, columns]: edges; hidden ones are rejected or superseded
          saved,      \* rows the request has inserted
          answer      \* the response, NoAnswer before it

walkVars == <<stored, saved, answer>>

Pairs == Tables \X Tables
NoAnswer == [endpoint |-> "none"]
Col(t) == <<t>>
ColPair(e) == <<Col(e[1]), Col(e[2])>>
Directions == {"upstream", "downstream", "both"}

\* At most one edge is hidden: with all edge sets enumerated, that is every case of a
\* hidden edge next to visible ones.  Lineage without columns has none hidden.
WalkInit == /\ \E E \in SUBSET Pairs, cols \in BOOLEAN :
                 \E hid \in {{}} \union {{e} : e \in IF cols THEN E ELSE {}} :
                   stored = [tables  |-> E, hidden |-> hid,
                             columns |-> IF cols THEN {ColPair(e) : e \in E} ELSE {}]
            /\ saved = {}
            /\ answer = NoAnswer

----------------------------------------------------------------------------
(* The graph the queries see *)

\* edges neither rejected nor of a superseded run
ActiveEdges == stored.tables \ stored.hidden
ActiveColumns == stored.columns \ {ColPair(e) : e \in stored.hidden}

\* A table focus walks the table edges; a column focus the column edges.
FocusKind(focus, includeColumns) ==
  IF includeColumns /\ focus \notin Tables THEN "column" ELSE "table"
Graph(kind) == IF kind = "column" THEN ActiveColumns ELSE ActiveEdges

Succ(E, a) == {e[2] : e \in {x \in E : x[1] = a}}
Pred(E, a) == {e[1] : e \in {x \in E : x[2] = a}}

(* One step of each recursive query: the anchor takes every edge of the     *)
(* focus, a further row needs a node that its path does not hold yet.       *)
DownAnchor(E, f) == {<<f, t>> : t \in Succ(E, f)}
DownStep(E, rows) ==
  UNION {{Append(p, t) : t \in Succ(E, Last(p)) \ Range(p)} : p \in rows}
UpAnchor(E, f) == {<<f, s>> : s \in Pred(E, f)}
UpStep(E, rows) ==
  UNION {{Append(p, s) : s \in Pred(E, Last(p)) \ Range(p)} : p \in rows}

\* the column queries, on the column edges
DownAnchorColumn(E, f) == DownAnchor(E, f)
DownStepColumn(E, rows) == DownStep(E, rows)
UpAnchorColumn(E, f) == UpAnchor(E, f)
UpStepColumn(E, rows) == UpStep(E, rows)

Anchor(kind, dir, f) ==
  CASE kind = "table"  /\ dir = "downstream" -> DownAnchor(Graph(kind), f)
    [] kind = "table"  /\ dir = "upstream"   -> UpAnchor(Graph(kind), f)
    [] kind = "column" /\ dir = "downstream" -> DownAnchorColumn(Graph(kind), f)
    [] kind = "column" /\ dir = "upstream"   -> UpAnchorColumn(Graph(kind), f)
Step(kind, dir, rows) ==
  CASE kind = "table"  /\ dir = "downstream" -> DownStep(Graph(kind), rows)
    [] kind = "table"  /\ dir = "upstream"   -> UpStep(Graph(kind), rows)
    [] kind = "column" /\ dir = "downstream" -> DownStepColumn(Graph(kind), rows)
    [] kind = "column" /\ dir = "upstream"   -> UpStepColumn(Graph(kind), rows)

\* one deeper than asked, so that a row beyond shows there is more
QueryDepth(max) == max + 1

\* every row of the walk as [path, dir]; its depth is Len(path) - 1
WalkRows(kind, dir, f, max) ==
  LET rows[d \in 1..QueryDepth(max)] ==
        IF d = 1 THEN Anchor(kind, dir, f) ELSE Step(kind, dir, rows[d - 1])
  IN UNION {{[path |-> p, dir |-> dir] : p \in rows[d]} : d \in 1..QueryDepth(max)}

Depth(row) == Len(row.path) - 1
DepthCut(rows, max) == \E row \in rows : Depth(row) > max
Visible(rows, max) == {row \in rows : Depth(row) <= max}
Walked(dir) == IF dir = "both" THEN {"upstream", "downstream"} ELSE {dir}
\* the edge a row arrived by, in the direction the data flows
EdgeOf(row) == LET n == Len(row.path)
               IN IF row.dir = "downstream" THEN <<row.path[n - 1], row.path[n]>>
                                            ELSE <<row.path[n], row.path[n - 1]>>

\* Column edges of each visible table pair, as rows of their own two-node path.
ColumnExpansion(rows, max) ==
  {[path |-> IF row.dir = "downstream" THEN ColPair(EdgeOf(row))
                                       ELSE Reverse(ColPair(EdgeOf(row))),
    dir  |-> row.dir] :
     row \in {r \in Visible(rows, max) : ColPair(EdgeOf(r)) \in ActiveColumns}}

\* nodes with the least position they take on any path, edges with their direction
GraphFromRows(f, rows) ==
  LET nodes == {f} \union UNION {Range(row.path) : row \in rows}
      At(n) == (IF n = f THEN {0} ELSE {})
               \union UNION {{i - 1 : i \in {j \in DOMAIN row.path : row.path[j] = n}} : row \in rows}
  IN [depth |-> [n \in nodes |-> Min(At(n))],
      edges |-> {<<EdgeOf(row), row.dir>> : row \in rows}]

\* _lineage_subgraph_response
Subgraph(f, dir, max, includeColumns) ==
  LET kind  == FocusKind(f, includeColumns)
      rows  == UNION {WalkRows(kind, d, f, max) : d \in Walked(dir)}
      extra == IF includeColumns /\ kind = "table" THEN ColumnExpansion(rows, max) ELSE {}
      graph == GraphFromRows(f, Visible(rows, max) \union extra)
  IN [truncated |-> DepthCut(rows, max), depth |-> graph.depth, edges |-> graph.edges]

\* _lineage_impact_response: the targets of the visible rows with their least depth
ImpactDepthLast(rows, n) == Max({Depth(row) : row \in {r \in rows : Last(r.path) = n}})
ImpactDepth(rows, n) == Min({Depth(row) : row \in {r \in rows : Last(r.path) = n}})
Impact(f, max) ==
  LET rows == WalkRows(FocusKind(f, TRUE), "downstream", f, max)
      seen == Visible(rows, max)
  IN [truncated |-> DepthCut(rows, max),
      depth |-> [n \in {Last(row.path) : row \in seen} |-> ImpactDepth(seen, n)]]

\* _lineage_column_trace_response: (node, from, direction) per depth
ColumnTrace(f, dir, max) ==
  LET rows == UNION {WalkRows("column", d, f, max) : d \in Walked(dir)}
  IN [truncated |-> DepthCut(rows, max),
      hops |-> [d \in {Depth(row) : row \in Visible(rows, max)} |->
                 {<<Last(row.path), row.path[d], row.dir>> : row \in {r \in rows : Depth(r) = d}}]]

----------------------------------------------------------------------------
(* The endpoints *)

Unanswered == answer = NoAnswer
Foci == {Focus, Col(Focus)}

GetLineageSubgraph ==
  /\ Unanswered
  /\ \E f \in Foci, dir \in Directions, max \in MaxDepths, inc \in BOOLEAN :
       answer' = [endpoint |-> "subgraph", focus |-> f, dir |-> dir, max |-> max, inc |-> inc,
                  graph |-> Subgraph(f, dir, max, inc)]
  /\ UNCHANGED <<stored, saved>>

GetLineageImpact ==
  /\ Unanswered
  /\ \E f \in Foci, max \in MaxDepths :
       answer' = [endpoint |-> "impact", focus |-> f, max |-> max, impact |-> Impact(f, max)]
  /\ UNCHANGED <<stored, saved>>

GetLineageColumnTrace ==
  /\ Unanswered
  /\ \E dir \in Directions, max \in MaxDepths :
       answer' = [endpoint |-> "trace", dir |-> dir, max |-> max,
                  trace |-> ColumnTrace(Col(Focus), dir, max)]
  /\ UNCHANGED <<stored, saved>>

\* The sheets: table edges, column edges when asked for, impact.
ExportSheets(graph, impact, inc) ==
  [tableEdges  |-> {e \in graph.edges : e[1] \in Pairs},
   columnEdges |-> IF inc THEN {e \in graph.edges : e[1] \notin Pairs} ELSE {},
   impact      |-> impact.depth]

\* The export is synchronous: a successful job row and its download token are written.
CreateLineageExport ==
  /\ Unanswered
  /\ \E f \in Foci, dir \in Directions, max \in MaxDepths, inc \in BOOLEAN :
       answer' = [endpoint |-> "export", focus |-> f, dir |-> dir, max |-> max, inc |-> inc,
                  sheets |-> ExportSheets(Subgraph(f, dir, max, inc), Impact(f, max), inc)]
  /\ saved' = {"job", "token"}
  /\ UNCHANGED stored

\* Nodes in order of depth and then of name, each at its shallowest.
HopItems(hops, d, seen) == {item[1] : item \in hops[d]} \ seen
TraceCompareChain(trace, order) ==
  LET nodesOf(chain) == {item.node : item \in Range(chain)}
      grown(chain, d) == LET new == SelectSeq(order, LAMBDA n : n \in HopItems(trace.hops, d, nodesOf(chain)))
                         IN chain \o [i \in DOMAIN new |-> [node |-> new[i], depth |-> d]]
      chain[d \in 0..Max(MaxDepths)] ==
        IF d = 0 THEN <<[node |-> Col(Focus), depth |-> 0]>>
        ELSE IF d \in DOMAIN trace.hops THEN grown(chain[d - 1], d)
        ELSE chain[d - 1]
  IN chain[Max(MaxDepths)]

\* build_trace_compare_nodes: a chain longer than the cap is refused
BuildRefuses(chain, cap) == Len(chain) > cap
\* build_trace_compare_spec: hop i before hop i + 1
LinearDag(chain) == {<<i, i + 1>> : i \in 1..(Len(chain) - 1)}

\* items of one hop are sorted by name: any fixed order of the columns
NameOrder == SetToSeq({Col(t) : t \in Tables})

\* taken: a workflow of the asked name exists
CreateTraceCompare ==
  /\ Unanswered
  /\ \E max \in MaxDepths, cap \in HopCaps, dry, taken \in BOOLEAN :
       LET trace == ColumnTrace(Col(Focus), "upstream", max)
           chain == TraceCompareChain(trace, NameOrder)
           reply(code, nodes) == [endpoint |-> "trace_compare", max |-> max, cap |-> cap,
                                  code |-> code, nodes |-> nodes, dag |-> LinearDag(nodes)]
       IN \/ /\ DOMAIN trace.hops = {}
             /\ answer' = reply("no_upstream_lineage", << >>)
             /\ UNCHANGED saved
          \/ /\ DOMAIN trace.hops # {} /\ BuildRefuses(chain, cap)
             /\ answer' = reply("too_many_hops", << >>)
             /\ UNCHANGED saved
          \/ /\ DOMAIN trace.hops # {} /\ ~BuildRefuses(chain, cap) /\ dry
             /\ answer' = reply("preview", chain)
             /\ UNCHANGED saved
          \/ /\ DOMAIN trace.hops # {} /\ ~BuildRefuses(chain, cap) /\ ~dry
             /\ answer' = reply(IF taken THEN "name_taken" ELSE "created", chain)
             /\ saved' = IF taken THEN saved ELSE saved \union {"workflow"}
  /\ UNCHANGED stored

WalkNext == \/ GetLineageSubgraph
            \/ GetLineageImpact
            \/ GetLineageColumnTrace
            \/ CreateLineageExport
            \/ CreateTraceCompare

WalkSpec == WalkInit /\ [][WalkNext]_walkVars

----------------------------------------------------------------------------
(* Reference: reachability by growing balls, independent of paths *)

Next1(E, dir, S) == IF dir = "downstream" THEN UNION {Succ(E, a) : a \in S}
                                          ELSE UNION {Pred(E, a) : a \in S}
Ball(E, dir, f, k) ==
  LET ball[i \in 0..k] == IF i = 0 THEN {f} ELSE ball[i - 1] \union Next1(E, dir, ball[i - 1])
  IN ball[k]
Reach(E, dir, f) == Ball(E, dir, f, Cardinality(Tables))
Distance(E, dir, f, n) ==
  Min({k \in 0..Cardinality(Tables) : n \in Ball(E, dir, f, k)})
Seen(kind) == IF kind = "column" THEN {ColPair(e) : e \in stored.tables \ stored.hidden}
                                      \intersect stored.columns
                                 ELSE stored.tables \ stored.hidden

----------------------------------------------------------------------------
(* Properties *)

WalkTypeOK == /\ stored.tables \subseteq Pairs
              /\ stored.hidden \subseteq stored.tables
              /\ saved \subseteq {"job", "token", "workflow"}
              /\ answer.endpoint \in {"none", "subgraph", "impact", "trace", "export", "trace_compare"}
              /\ answer.endpoint = "export" <=> "job" \in saved
              /\ answer.endpoint = "subgraph" =>
                   \A n \in DOMAIN answer.graph.depth : answer.graph.depth[n] \in 0..answer.max

(* A subgraph that does not say `truncated' shows every node that is        *)
(* reachable over edges that count, in each direction asked, and nothing    *)
(* else; one that does say it shows exactly the nodes within max steps.     *)
SubgraphIsTheBall ==
  answer.endpoint = "subgraph" =>
    LET kind  == FocusKind(answer.focus, answer.inc)
        shown == DOMAIN answer.graph.depth \ (IF kind = "table" THEN {Col(t) : t \in Tables} \ {answer.focus} ELSE {})
        within(k) == UNION {Ball(Seen(kind), d, answer.focus, k) : d \in Walked(answer.dir)}
    IN /\ shown = within(answer.max)
       /\ ~answer.graph.truncated => shown = within(Cardinality(Tables))

(* The depth shown next to a node, and the depth the impact list sorts by,  *)
(* is its distance from the focus: no longer path wins over a shorter one.  *)
DepthIsDistance ==
  /\ answer.endpoint = "subgraph" /\ answer.dir # "both" =>
       LET kind == FocusKind(answer.focus, answer.inc)
       IN \A n \in DOMAIN answer.graph.depth \intersect Reach(Seen(kind), answer.dir, answer.focus) :
            answer.graph.depth[n] = Distance(Seen(kind), answer.dir, answer.focus, n)
  /\ answer.endpoint = "impact" =>
       LET E == Seen(FocusKind(answer.focus, TRUE))
       IN \A n \in DOMAIN answer.impact.depth \ {answer.focus} :
            answer.impact.depth[n] = Distance(E, "downstream", answer.focus, n)

(* The impact list of a change names exactly the assets downstream within   *)
(* max steps; the focus itself is on it only when it feeds itself.          *)
ImpactIsComplete ==
  answer.endpoint = "impact" =>
    LET E == Seen(FocusKind(answer.focus, TRUE))
    IN /\ DOMAIN answer.impact.depth \ {answer.focus}
            = Ball(E, "downstream", answer.focus, answer.max) \ {answer.focus}
       /\ answer.focus \in DOMAIN answer.impact.depth <=> <<answer.focus, answer.focus>> \in E

(* A trace-compare workflow compares every upstream column once, the focus  *)
(* first, and each column only after one it feeds: the first hop that       *)
(* differs is the hop that broke the data.                                  *)
ChainFollowsTheData ==
  answer.endpoint = "trace_compare" /\ answer.nodes # << >> =>
    LET nodes == answer.nodes
    IN /\ nodes[1].node = Col(Focus)
       /\ Cardinality({n.node : n \in Range(nodes)}) = Len(nodes)
       /\ {n.node : n \in Range(nodes)} = Ball(Seen("column"), "upstream", Col(Focus), answer.max)
       /\ \A i \in 2..Len(nodes) :
            \E j \in 1..(i - 1) : <<nodes[i].node, nodes[j].node>> \in Seen("column")
       /\ Len(nodes) <= answer.cap

(* The walks over stored lineage agree with the graph: the subgraph is the  *)
(* ball around its focus, depths are distances, the impact is everything    *)
(* downstream within the depth, and a chain of columns is in the order of   *)
(* the data (subgraph, impact, trace compare).                              *)
WalkInv ==
    /\ WalkTypeOK
    /\ SubgraphIsTheBall
    /\ DepthIsDistance
    /\ ImpactIsComplete
    /\ ChainFollowsTheData
=============================================================================
