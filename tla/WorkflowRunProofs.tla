------------------------- MODULE WorkflowRunProofs -------------------------
(***************************************************************************)
(* Proofs about WorkflowRun: the plan of a run is safe for every set of    *)
(* valid specs, any number of nodes, workers and faults, and what it       *)
(* reports as final is never taken back.                                   *)
(*                                                                         *)
(* The states of the nodes are a recursive function along the edges.  That *)
(* it has a value, and that final states stand, is shown for a node of     *)
(* least rank: ValidSpec gives every acyclic spec a rank, and the natural  *)
(* numbers are well-founded.                                               *)
(***************************************************************************)
EXTENDS WorkflowRun, FiniteSetTheorems, WellFoundedInduction, TLAPS

----------------------------------------------------------------------------
(* The inductive invariant.                                                 *)

\* The state of n, as the plan sees it.
Final(n) == StatusOf(node, n) \in FinalStates

\* Upstream of n is over and has let it start.
Enabled(n) ==
    LET ds == Decisions(NodeStates(node), n)
    IN  "waiting" \notin ds /\ "blocked" \notin ds /\ ds # {"inactive"}

\* A claim stands exactly while the run's row names the advancer.
Claims ==
    \A w \in Workers :
       /\ adv[w].stands => run.status = "running" /\ run.owner = w
       /\ adv[w].pc # "idle" /\ run.status = "running" /\ run.owner = w
             => adv[w].stands
       /\ adv[w].pc = "idle" => ~adv[w].stands

\* A node has a row only if its upstream let it start.
Started == \A n \in Nodes : node[n].status # "absent" => Enabled(n)

\* The nodes a standing plan starts are still to be started.
Current(w) ==
    /\ \A n \in adv[w].enqueue : /\ node[n].status = "absent"
                                 /\ StatusOf(node, n) = "ready"
    /\ \A n \in adv[w].retry : /\ node[n].status = "failed"
                               /\ node[n].retries < spec.maxRetries[n]

\* Every node is over, with nothing failed or cancelled.
Over == \A n \in Nodes : StatusOf(node, n) \in {"success", "skipped"}

\* A standing plan that ends the run starts nothing and cancels what is live.
Concludes(w) ==
    /\ adv[w].out # "none" /\ adv[w].error # "raised" =>
          /\ adv[w].enqueue = {} /\ adv[w].retry = {}
          /\ \A n \in LiveNodes(node) : n \in adv[w].cancel \/ node[n].cancel
    /\ adv[w].out = "success" => Over /\ adv[w].error = "none"

Plans == \A w \in Workers : adv[w].stands => Current(w) /\ Concludes(w)

Succeeded == run.status = "success" => Over

PlanIInv ==
    /\ TypeOK
    /\ Claims
    /\ ~late => Started /\ Plans /\ Succeeded
    /\ NoOrphans

----------------------------------------------------------------------------
(* The states of the nodes.                                                 *)

\* Every non-empty set of natural numbers has a least member.
LEMMA LeastNat ==
    ASSUME NEW T, T \subseteq Nat, T # {}
    PROVE  \E k \in T : \A j \in T : k <= j
<1>1. PICK k \in T : \A j \in T : <<j, k>> \notin OpToRel(<, Nat)
  BY NatLessThanWellFounded, WFMin, Zenon
<1>2. \A j \in T : ~(j < k)
  BY <1>1, Zenon DEF OpToRel
<1>3. \A j \in T : k <= j
  BY <1>2
<1> QED
  BY <1>3, Zenon

\* A spec of the run is valid (WorkflowAssumption).
LEMMA SpecIsValid ==
    ASSUME spec \in Specs
    PROVE  ValidSpec(spec)
BY WorkflowAssumption

\* The edges of a valid spec, and its rank, which every edge raises.
LEMMA SpecHasRank ==
    ASSUME spec \in Specs
    PROVE  /\ \A i \in DOMAIN spec.edges : spec.edges[i] \in Edge
           /\ Cardinality(Nodes) \in Nat
           /\ \E rank \in [Nodes -> 1 .. Cardinality(Nodes)] :
                 \A i \in DOMAIN spec.edges :
                    rank[spec.edges[i].src] < rank[spec.edges[i].dst]
<1>1. spec \in WorkflowSpec
  BY SpecIsValid DEF ValidSpec
<1>2. spec.edges \in Seq(Edge)
  BY <1>1 DEF WorkflowSpec
<1>3. \A i \in DOMAIN spec.edges : spec.edges[i] \in Edge
  BY <1>2
<1>4. Cardinality(Nodes) \in Nat
  BY WorkflowAssumption, FS_CardinalityType
<1> QED
  BY <1>3, <1>4, SpecIsValid DEF ValidSpec

\* The decisions of a node depend on the states of its sources only.
LEMMA DecisionsAgree ==
    ASSUME NEW f, NEW g, NEW n,
           \A i \in Incoming(n) : f[spec.edges[i].src] = g[spec.edges[i].src]
    PROVE  Decisions(f, n) = Decisions(g, n)
BY DEF Decisions

\* A child's state depends on its status and retries only.
LEMMA ChildAgrees ==
    ASSUME NEW n, NEW r, NEW s, r.status = s.status, r.retries = s.retries
    PROVE  StateFromChild(n, r) = StateFromChild(n, s)
BY DEF StateFromChild

LEMMA StateAgrees ==
    ASSUME NEW rows, NEW rows2, NEW f, NEW g, NEW n,
           rows[n].status = rows2[n].status, rows[n].retries = rows2[n].retries,
           Decisions(f, n) = Decisions(g, n)
    PROVE  StateOf(rows, f, n) = StateOf(rows2, g, n)
<1>1. StateFromChild(n, rows[n]) = StateFromChild(n, rows2[n])
  BY ChildAgrees
<1> QED
  BY <1>1 DEF StateOf

\* The states of the nodes exist: those of rank at most k, for every k.
LEMMA StatesExist ==
    ASSUME spec \in Specs, NEW rows
    PROVE  \E f : f = [n \in Nodes |-> StateOf(rows, f, n)]
<1> DEFINE Top == Cardinality(Nodes)
<1>0. Top \in Nat
  BY SpecHasRank
<1>1. PICK rank \in [Nodes -> 1 .. Top] :
         \A i \in DOMAIN spec.edges :
            rank[spec.edges[i].src] < rank[spec.edges[i].dst]
  BY SpecHasRank
<1>2. \A n \in Nodes : \A i \in Incoming(n) :
         /\ spec.edges[i].src \in Nodes
         /\ rank[spec.edges[i].src] < rank[n]
  BY <1>1, SpecHasRank DEF Incoming, Edge
<1> DEFINE Upto(f, k) == \A n \in Nodes : rank[n] <= k => f[n] = StateOf(rows, f, n)
           Has(k) == \E f : f = [n \in Nodes |-> f[n]] /\ Upto(f, k)
           Bad == {k \in Nat : ~Has(k)}
<1> HIDE DEF Top
<1>3. ASSUME NEW k \in Nat, NEW f, f = [n \in Nodes |-> f[n]],
             \A n \in Nodes : rank[n] < k => f[n] = StateOf(rows, f, n)
      PROVE  Has(k)
  <2> DEFINE g == [n \in Nodes |-> IF rank[n] = k THEN StateOf(rows, f, n) ELSE f[n]]
  <2>1. ASSUME NEW n \in Nodes, rank[n] <= k
        PROVE  StateOf(rows, g, n) = StateOf(rows, f, n)
    <3>1. ASSUME NEW i \in Incoming(n)
          PROVE  g[spec.edges[i].src] = f[spec.edges[i].src]
      <4>1. spec.edges[i].src \in Nodes /\ rank[spec.edges[i].src] < rank[n]
        BY <1>2, <3>1
      <4>2. rank[spec.edges[i].src] # k
        BY <4>1, <2>1
      <4> QED
        BY <4>1, <4>2
    <3>2. Decisions(g, n) = Decisions(f, n)
      BY <3>1, DecisionsAgree
    <3> QED
      BY <3>2, StateAgrees
  <2>2. ASSUME NEW n \in Nodes, rank[n] <= k
        PROVE  g[n] = StateOf(rows, g, n)
    <3>1. CASE rank[n] = k
      BY <3>1, <2>1, <2>2
    <3>2. CASE rank[n] # k
      <4>1. rank[n] < k
        BY <3>2, <2>2
      <4>2. f[n] = StateOf(rows, f, n)
        BY <4>1, <1>3
      <4> QED
        BY <3>2, <4>2, <2>1, <2>2
    <3> QED
      BY <3>1, <3>2
  <2>3. Upto(g, k)
    BY <2>2
  <2>4. g = [n \in Nodes |-> g[n]]
    OBVIOUS
  <2> HIDE DEF g, Upto
  <2> QED
    BY <2>3, <2>4
<1>4. Bad = {}
  <2>1. SUFFICES ASSUME Bad # {} PROVE FALSE
    OBVIOUS
  <2>2. PICK k \in Bad : \A j \in Bad : k <= j
    <3>1. Bad \subseteq Nat
      OBVIOUS
    <3> HIDE DEF Bad
    <3> QED
      BY <2>1, <3>1, LeastNat
  <2>3. k \in Nat /\ ~Has(k)
    BY <2>2
  <2>4. CASE k = 0
    <3>1. \A n \in Nodes : ~(rank[n] < k)
      BY <2>4
    <3>2. Has(k)
      <4> DEFINE h == [n \in Nodes |-> 0]
      <4>1. h = [n \in Nodes |-> h[n]]
        OBVIOUS
      <4> HIDE DEF Has, h
      <4> QED
        BY <1>3, <2>3, <3>1, <4>1
    <3> QED
      BY <3>2, <2>3
  <2>5. CASE k # 0
    <3>1. k - 1 \in Nat /\ ~(k <= k - 1)
      BY <2>5, <2>3
    <3>2. Has(k - 1)
      BY <3>1, <2>2
    <3>3. PICK f : f = [n \in Nodes |-> f[n]] /\ Upto(f, k - 1)
      BY <3>2
    <3>4. \A n \in Nodes : rank[n] < k => f[n] = StateOf(rows, f, n)
      BY <3>3, <2>3, <2>5
    <3>5. Has(k)
      <4> HIDE DEF Has
      <4> QED
        BY <1>3, <2>3, <3>3, <3>4
    <3> QED
      BY <3>5, <2>3
  <2> QED
    BY <2>4, <2>5
<1>5. \A k \in Nat : Has(k)
  BY <1>4
<1>6. Has(Top) /\ \A n \in Nodes : rank[n] <= Top
  BY <1>0, <1>1, <1>5
<1>7. PICK f : f = [n \in Nodes |-> f[n]] /\ Upto(f, Top)
  BY <1>6
<1>8. \A n \in Nodes : f[n] = StateOf(rows, f, n)
  BY <1>6, <1>7
<1>9. f = [n \in Nodes |-> StateOf(rows, f, n)]
  BY <1>7, <1>8
<1> QED
  BY <1>9

\* The states are the ones the planner computes source by source.
LEMMA StatesAre ==
    ASSUME spec \in Specs, NEW rows
    PROVE  /\ NodeStates(rows) = [n \in Nodes |-> NodeStates(rows)[n]]
           /\ \A n \in Nodes :
                 NodeStates(rows)[n] = StateOf(rows, NodeStates(rows), n)
<1>1. \E f : f = [n \in Nodes |-> StateOf(rows, f, n)]
  BY StatesExist
<1>2. NodeStates(rows) = [n \in Nodes |-> StateOf(rows, NodeStates(rows), n)]
  BY <1>1, Zenon DEF NodeStates
<1> QED
  BY <1>2

\* What _state_from_child returns for each status of a row.
LEMMA ChildState ==
    ASSUME NEW n \in Nodes, NEW row \in Rows, row.status # "absent",
           spec \in Specs
    PROVE  LET st == StateFromChild(n, row)
           IN  /\ st.inactive = FALSE
               /\ row.status \in Live => st.status = "running"
               /\ row.status = "failed" /\ row.retries < spec.maxRetries[n]
                     => st.status = "retry_wait"
               /\ row.status = "failed" /\ ~(row.retries < spec.maxRetries[n])
                     => st.status = "failed"
               /\ row.status \in {"success", "cancelled"}
                     => st.status = row.status
BY DEF StateFromChild, Live, State, Rows, Ended

\* What the state of a node without a row can be.
LEMMA OwnState ==
    ASSUME NEW n \in Nodes
    PROVE  /\ Evaluated(n).status \in {"failed", "skipped", "ready"}
           /\ Evaluated(n).inactive = FALSE
           /\ Evaluated(n).status = "skipped" => spec.eval[n] = "skip"
BY DEF Evaluated, State

LEMMA AbsentState ==
    ASSUME NEW rows, NEW f, NEW n \in Nodes, rows[n].status = "absent"
    PROVE  LET st == StateOf(rows, f, n)
               ds == Decisions(f, n)
           IN  /\ "waiting" \in ds => st.status = "waiting"
               /\ "waiting" \notin ds /\ ds = {"inactive"} => st.status = "skipped"
               /\ "waiting" \notin ds /\ ds # {"inactive"} /\ "blocked" \in ds
                     => st.status = "skipped" /\ st.inactive = FALSE
               /\ "waiting" \notin ds /\ ds # {"inactive"} /\ "blocked" \notin ds
                     => st = Evaluated(n)
BY DEF StateOf, State

LEMMA PresentState ==
    ASSUME NEW rows, NEW f, NEW n \in Nodes, rows[n].status # "absent"
    PROVE  StateOf(rows, f, n) = StateFromChild(n, rows[n])
BY DEF StateOf

\* A decision waits exactly for a source that is not final.
LEMMA WaitingIs ==
    ASSUME NEW e, NEW src
    PROVE  EdgeDecision(e, src) = "waiting" <=> src.status \notin FinalStates
BY DEF EdgeDecision

LEMMA NotWaiting ==
    ASSUME NEW f, NEW n, "waiting" \notin Decisions(f, n), NEW i \in Incoming(n)
    PROVE  f[spec.edges[i].src].status \in FinalStates
<1>1. EdgeDecision(spec.edges[i], f[spec.edges[i].src]) \in Decisions(f, n)
  BY DEF Decisions
<1> QED
  BY <1>1, WaitingIs

\* Rows rows2 leave alone what decides the final states of rows.
KeepsFinal(rows, rows2) ==
    \A n \in Nodes : StatusOf(rows, n) \in FinalStates =>
       /\ rows2[n].status = rows[n].status
       /\ rows2[n].retries = rows[n].retries

\* Then the final states stand.
LEMMA FinalStands ==
    ASSUME spec \in Specs, NEW rows, NEW rows2, KeepsFinal(rows, rows2)
    PROVE  \A n \in Nodes : StatusOf(rows, n) \in FinalStates =>
              NodeStates(rows2)[n] = NodeStates(rows)[n]
<1> DEFINE st == NodeStates(rows)
           st2 == NodeStates(rows2)
<1>1. PICK rank \in [Nodes -> 1 .. Cardinality(Nodes)] :
         \A i \in DOMAIN spec.edges :
            rank[spec.edges[i].src] < rank[spec.edges[i].dst]
  BY SpecHasRank
<1>0. \A n \in Nodes : rank[n] \in Nat
  BY <1>1, SpecHasRank
<1>2. \A n \in Nodes : \A i \in Incoming(n) :
         /\ spec.edges[i].src \in Nodes
         /\ rank[spec.edges[i].src] < rank[n]
  BY <1>1, SpecHasRank DEF Incoming, Edge
<1>3. \A n \in Nodes : st[n] = StateOf(rows, st, n) /\ st2[n] = StateOf(rows2, st2, n)
  BY StatesAre
<1> DEFINE Lost == {n \in Nodes : st[n].status \in FinalStates /\ st2[n] # st[n]}
<1>4. Lost = {}
  <2>1. SUFFICES ASSUME Lost # {} PROVE FALSE
    OBVIOUS
  <2> DEFINE Ranks == {rank[n] : n \in Lost}
  <2>2. Ranks \subseteq Nat /\ Ranks # {}
    BY <1>0, <2>1
  <2>3. PICK k \in Ranks : \A j \in Ranks : k <= j
    <3> HIDE DEF Ranks
    <3> QED
      BY <2>2, LeastNat
  <2>4. PICK n \in Lost : \A m \in Lost : rank[n] <= rank[m]
    BY <2>3
  <2>5. n \in Nodes /\ st[n].status \in FinalStates /\ st2[n] # st[n]
    BY <2>4
  <2>6. rows2[n].status = rows[n].status /\ rows2[n].retries = rows[n].retries
    BY <2>5 DEF KeepsFinal, StatusOf
  <2>7. CASE rows[n].status # "absent"
    <3>1. st[n] = StateFromChild(n, rows[n]) /\ st2[n] = StateFromChild(n, rows2[n])
      BY <1>3, <2>5, <2>6, <2>7, PresentState
    <3> QED
      BY <3>1, <2>5, <2>6, ChildAgrees
  <2>8. CASE rows[n].status = "absent"
    <3>1. "waiting" \notin Decisions(st, n)
      <4>1. SUFFICES ASSUME "waiting" \in Decisions(st, n) PROVE FALSE
        OBVIOUS
      <4>2. StateOf(rows, st, n).status = "waiting"
        BY <4>1, <2>5, <2>8, AbsentState
      <4> QED
        BY <4>2, <1>3, <2>5 DEF FinalStates
    <3>2. ASSUME NEW i \in Incoming(n)
          PROVE  st[spec.edges[i].src] = st2[spec.edges[i].src]
      <4>1. spec.edges[i].src \in Nodes /\ rank[spec.edges[i].src] < rank[n]
        BY <1>2, <2>5, <3>2
      <4>2. st[spec.edges[i].src].status \in FinalStates
        BY <3>1, <3>2, NotWaiting
      <4>3. ~(rank[n] <= rank[spec.edges[i].src])
        BY <4>1, <1>0, <2>5
      <4>4. spec.edges[i].src \notin Lost
        BY <4>3, <2>4
      <4> QED
        BY <4>1, <4>2, <4>4
    <3>3. Decisions(st, n) = Decisions(st2, n)
      BY <3>2, DecisionsAgree
    <3>4. StateOf(rows, st, n) = StateOf(rows2, st2, n)
      BY <3>3, <2>6, StateAgrees
    <3> QED
      BY <3>4, <1>3, <2>5
  <2> QED
    BY <2>7, <2>8
<1> QED
  BY <1>4 DEF StatusOf

\* And so do the decisions that wait for nothing.
LEMMA DecisionsStay ==
    ASSUME spec \in Specs, NEW rows, NEW rows2, KeepsFinal(rows, rows2),
           NEW n \in Nodes, "waiting" \notin Decisions(NodeStates(rows), n)
    PROVE  Decisions(NodeStates(rows2), n) = Decisions(NodeStates(rows), n)
<1>1. ASSUME NEW i \in Incoming(n)
      PROVE  NodeStates(rows2)[spec.edges[i].src] = NodeStates(rows)[spec.edges[i].src]
  <2>1. spec.edges[i].src \in Nodes
    BY <1>1, SpecHasRank DEF Incoming, Edge
  <2>2. NodeStates(rows)[spec.edges[i].src].status \in FinalStates
    BY <1>1, NotWaiting
  <2> QED
    BY <2>1, <2>2, FinalStands DEF StatusOf
<1> QED
  BY <1>1, DecisionsAgree

\* The state of a node with a row, and of one without.
LEMMA RowState ==
    ASSUME spec \in Specs, NEW rows \in [Nodes -> Rows], NEW n \in Nodes
    PROVE  /\ rows[n].status # "absent" =>
                 NodeStates(rows)[n] = StateFromChild(n, rows[n])
           /\ rows[n].status \in Live => StatusOf(rows, n) = "running"
           /\ rows[n].status = "failed" /\ rows[n].retries < spec.maxRetries[n]
                 => StatusOf(rows, n) = "retry_wait"
           /\ rows[n].status = "failed" /\ ~(rows[n].retries < spec.maxRetries[n])
                 => StatusOf(rows, n) = "failed"
           /\ rows[n].status \in {"success", "cancelled"}
                 => StatusOf(rows, n) = rows[n].status
<1>1. rows[n] \in Rows
  OBVIOUS
<1>2. ASSUME rows[n].status # "absent"
      PROVE  NodeStates(rows)[n] = StateFromChild(n, rows[n])
  BY <1>2, StatesAre, PresentState
<1>3. rows[n].status \in {"absent", "pending", "running", "success", "failed", "cancelled"}
  BY <1>1 DEF Rows, Live, Ended
<1>4. CASE rows[n].status = "absent"
  BY <1>4 DEF Live
<1>5. CASE rows[n].status # "absent"
  <2>1. StatusOf(rows, n) = StateFromChild(n, rows[n]).status
    BY <1>2, <1>5 DEF StatusOf
  <2>2. /\ rows[n].status \in Live => StateFromChild(n, rows[n]).status = "running"
        /\ rows[n].status = "failed" /\ rows[n].retries < spec.maxRetries[n]
              => StateFromChild(n, rows[n]).status = "retry_wait"
        /\ rows[n].status = "failed" /\ ~(rows[n].retries < spec.maxRetries[n])
              => StateFromChild(n, rows[n]).status = "failed"
        /\ rows[n].status \in {"success", "cancelled"}
              => StateFromChild(n, rows[n]).status = rows[n].status
    BY <1>1, <1>5, ChildState
  <2> QED
    BY <1>2, <1>5, <2>1, <2>2
<1> QED
  BY <1>4, <1>5

\* What a status of the plan says of the row.
LEMMA StatusSays ==
    ASSUME spec \in Specs, NEW rows \in [Nodes -> Rows], NEW n \in Nodes
    PROVE  /\ StatusOf(rows, n) = "ready" =>
                 /\ rows[n].status = "absent"
                 /\ Decisions(NodeStates(rows), n) \cap {"waiting", "blocked"} = {}
                 /\ Decisions(NodeStates(rows), n) # {"inactive"}
           /\ StatusOf(rows, n) = "retry_wait" =>
                 /\ rows[n].status = "failed"
                 /\ rows[n].retries < spec.maxRetries[n]
           /\ StatusOf(rows, n) \in FinalStates =>
                 \/ rows[n].status = "absent"
                 \/ rows[n].status \in {"success", "cancelled"}
                 \/ rows[n].status = "failed" /\ ~(rows[n].retries < spec.maxRetries[n])
<1> DEFINE ds == Decisions(NodeStates(rows), n)
<1>1. rows[n].status \in {"absent", "pending", "running", "success", "failed", "cancelled"}
  BY DEF Rows, Live, Ended
<1>2. CASE rows[n].status = "absent"
  <2>1. StatusOf(rows, n) = StateOf(rows, NodeStates(rows), n).status
    BY StatesAre DEF StatusOf
  <2> DEFINE s == StateOf(rows, NodeStates(rows), n)
  <2>0. /\ "waiting" \in ds => s.status = "waiting"
        /\ "waiting" \notin ds /\ ds = {"inactive"} => s.status = "skipped"
        /\ "waiting" \notin ds /\ ds # {"inactive"} /\ "blocked" \in ds
              => s.status = "skipped"
        /\ "waiting" \notin ds /\ ds # {"inactive"} /\ "blocked" \notin ds
              => s.status \in {"failed", "skipped", "ready"}
    BY <1>2, AbsentState, OwnState
  <2> HIDE DEF s, ds
  <2>2. StatusOf(rows, n) # "retry_wait"
    BY <2>0, <2>1 DEF s
  <2>3. StatusOf(rows, n) = "ready" =>
           ds # {"inactive"} /\ "waiting" \notin ds /\ "blocked" \notin ds
    BY <2>0, <2>1 DEF s
  <2> QED
    BY <2>2, <2>3, <1>2 DEF ds
<1>3. CASE rows[n].status \in Live
  <2>1. StatusOf(rows, n) = "running"
    BY <1>3, RowState
  <2> QED
    BY <2>1 DEF FinalStates
<1>4. CASE rows[n].status = "failed"
  BY <1>4, RowState DEF FinalStates
<1>5. CASE rows[n].status \in {"success", "cancelled"}
  BY <1>5, RowState DEF FinalStates
<1> QED
  BY <1>1, <1>2, <1>3, <1>4, <1>5 DEF Live

\* Nothing is left to run when the plan has every node over.
LEMMA OverIsDone ==
    ASSUME TypeOK, Over
    PROVE  AllDone
<1> DEFINE st == NodeStates(node)
<1>1. spec \in Specs /\ node \in [Nodes -> Rows]
  BY DEF TypeOK
<1>2. \A n \in Nodes : st[n].status \in {"success", "skipped"}
  BY DEF Over, StatusOf
<1>3. \A n \in Nodes : node[n].status \in {"absent", "success"}
  <2>1. TAKE n \in Nodes
  <2>2. StatusOf(node, n) \in {"success", "skipped"}
    BY DEF Over
  <2> QED
    BY <2>2, <1>1, RowState, StatusSays DEF FinalStates
<1>4. \A n \in Nodes : node[n].status = "success" =>
         st[n].status = "success" /\ st[n].inactive = FALSE
  <2>1. SUFFICES ASSUME NEW n \in Nodes, node[n].status = "success"
                 PROVE  st[n].status = "success" /\ st[n].inactive = FALSE
    OBVIOUS
  <2>2. node[n] \in Rows /\ node[n].status # "absent"
    BY <1>1, <2>1
  <2>3. st[n] = StateFromChild(n, node[n])
    BY <1>1, <2>1, <2>2, RowState
  <2>4. StateFromChild(n, node[n]).inactive = FALSE
        /\ StateFromChild(n, node[n]).status = "success"
    BY <1>1, <2>1, <2>2, ChildState
  <2> QED
    BY <2>3, <2>4
<1>5. ASSUME NEW n \in Nodes, node[n].status = "absent", spec.eval[n] # "skip"
      PROVE  \E i \in Incoming(n) :
                 LET e == spec.edges[i]
                 IN  \/ node[e.src].status = "absent"
                     \/ e.trigger = "failure"
                     \/ e.src \in spec.branch /\ Selected(e.src, "success") # n
  <2> DEFINE ds == Decisions(st, n)
  <2>1. st[n].status = StateOf(node, st, n).status
    BY <1>1, StatesAre
  <2>2. ds = {"inactive"} \/ "blocked" \in ds
    <3>1. /\ "waiting" \in ds => StateOf(node, st, n).status = "waiting"
          /\ ~("waiting" \in ds \/ ds = {"inactive"} \/ "blocked" \in ds)
                => StateOf(node, st, n) = Evaluated(n)
      BY <1>5, AbsentState
    <3>2. Evaluated(n).status \in {"failed", "ready"}
      BY <1>5, OwnState
    <3>3. StateOf(node, st, n).status \in {"success", "skipped"}
      BY <1>2, <1>5, <2>1
    <3> HIDE DEF ds, st
    <3> QED
      BY <3>1, <3>2, <3>3
  <2>3. PICK i \in Incoming(n) :
           EdgeDecision(spec.edges[i], st[spec.edges[i].src]) \in {"inactive", "blocked"}
    BY <2>2 DEF Decisions
  <2>4. spec.edges[i].src \in Nodes /\ spec.edges[i].dst = n
        /\ spec.edges[i].trigger \in {"success", "failure"}
    BY <2>3, <1>1, SpecHasRank DEF Incoming, Edge
  <2>5. CASE node[spec.edges[i].src].status = "absent"
    BY <2>5
  <2>6. CASE node[spec.edges[i].src].status = "success"
    <3>1. st[spec.edges[i].src].status = "success"
          /\ st[spec.edges[i].src].inactive = FALSE
      BY <2>4, <2>6, <1>4
    <3> QED
      BY <3>1, <2>3, <2>4 DEF EdgeDecision, FinalStates
  <2> QED
    BY <2>4, <2>5, <2>6, <1>3
<1> QED
  BY <1>3, <1>5 DEF AllDone

\* The compensation edges of a node, and what its decisions were.
LEMMA FailureEdges ==
    ASSUME spec \in Specs, NEW i \in DOMAIN spec.edges,
           spec.edges[i].trigger = "failure"
    PROVE  spec.onFailure[spec.edges[i].src] = "branch"
<1>1. spec.edges[i].src \in Nodes
  BY SpecHasRank DEF Edge
<1>2. i \in EdgesOf(spec, spec.edges[i].src, "failure")
  BY DEF EdgesOf
<1> QED
  BY <1>1, <1>2, SpecIsValid DEF ValidSpec

LEMMA StartedSays ==
    ASSUME TypeOK, Started, NEW n \in Nodes, node[n].status # "absent",
           NEW i \in Incoming(n)
    PROVE  LET src == NodeStates(node)[spec.edges[i].src]
           IN  /\ src.status \in FinalStates
               /\ EdgeDecision(spec.edges[i], src) \notin {"waiting", "blocked"}
               /\ Incoming(n) = {i} =>
                     EdgeDecision(spec.edges[i], src) = "satisfied"
<1> DEFINE src == NodeStates(node)[spec.edges[i].src]
           ds == Decisions(NodeStates(node), n)
<1>1. "waiting" \notin ds /\ "blocked" \notin ds /\ ds # {"inactive"}
  BY DEF Started, Enabled
<1>2. EdgeDecision(spec.edges[i], src) \in ds
  BY DEF Decisions
<1>3. Incoming(n) = {i} => ds = {EdgeDecision(spec.edges[i], src)}
  BY DEF Decisions
<1>4. EdgeDecision(spec.edges[i], src) \in
         {"waiting", "blocked", "inactive", "satisfied"}
  BY DEF EdgeDecision
<1> QED
  BY <1>1, <1>2, <1>3, <1>4, WaitingIs

LEMMA UnblockedSays ==
    ASSUME NEW e, NEW src, EdgeDecision(e, src) \notin {"waiting", "blocked"},
           src.inactive = FALSE, e.trigger # "failure", e.src \notin spec.branch
    PROVE  /\ src.status # "cancelled"
           /\ src.status = "failed" => spec.onFailure[e.src] = "branch"
BY DEF EdgeDecision

LEMMA StartedUpstream ==
    ASSUME TypeOK, Started
    PROVE  UpstreamFirst
<1>1. spec \in Specs /\ node \in [Nodes -> Rows]
  BY DEF TypeOK
<1>2. SUFFICES ASSUME NEW n \in Nodes, NEW i \in Incoming(n),
                      node[n].status # "absent"
               PROVE  LET e == spec.edges[i]
                          m == node[e.src]
                      IN  /\ m.status \notin Live
                          /\ m.status = "failed" =>
                                /\ m.retries >= spec.maxRetries[e.src]
                                /\ \/ e.src \in spec.branch
                                   \/ spec.onFailure[e.src] = "branch"
                          /\ m.status = "cancelled" => \/ e.src \in spec.branch
                                                       \/ e.trigger = "failure"
  BY DEF UpstreamFirst
<1> DEFINE e == spec.edges[i]
           src == NodeStates(node)[e.src]
<1>3. /\ i \in DOMAIN spec.edges /\ e.src \in Nodes
      /\ e.trigger \in {"success", "failure"}
  BY <1>1, <1>2, SpecHasRank DEF Incoming, Edge
<1>4. src.status \in FinalStates /\ EdgeDecision(e, src) \notin {"waiting", "blocked"}
  BY <1>2, StartedSays
<1>5. StatusOf(node, e.src) = src.status
  BY DEF StatusOf
<1>6. node[e.src].status \notin Live
  BY <1>1, <1>3, <1>4, <1>5, RowState DEF FinalStates
<1>7. ASSUME node[e.src].status = "failed"
      PROVE  /\ ~(node[e.src].retries < spec.maxRetries[e.src])
             /\ e.src \in spec.branch \/ spec.onFailure[e.src] = "branch"
  <2>1. ~(node[e.src].retries < spec.maxRetries[e.src])
    BY <1>1, <1>3, <1>4, <1>5, <1>7, RowState DEF FinalStates
  <2>2. src = StateFromChild(e.src, node[e.src])
    BY <1>1, <1>3, <1>7, RowState
  <2>3. src.status = "failed" /\ src.inactive = FALSE
    <3>1. node[e.src] \in Rows /\ node[e.src].status # "absent"
      BY <1>1, <1>3, <1>7
    <3>2. StateFromChild(e.src, node[e.src]).status = "failed"
          /\ StateFromChild(e.src, node[e.src]).inactive = FALSE
      BY <1>1, <1>3, <1>7, <2>1, <3>1, ChildState
    <3> QED
      BY <3>2, <2>2
  <2>4. CASE e.trigger = "failure"
    BY <2>1, <2>4, <1>1, <1>3, FailureEdges
  <2>5. CASE e.trigger # "failure"
    <3> HIDE DEF e, src
    <3>1. e.src \notin spec.branch => spec.onFailure[e.src] = "branch"
      BY <2>3, <2>5, <1>4, UnblockedSays
    <3> QED
      BY <3>1, <2>1
  <2> QED
    BY <2>4, <2>5
<1>8. node[e.src].retries \in Nat /\ spec.maxRetries[e.src] \in Nat
  <2>1. spec.maxRetries \in [Nodes -> Nat]
    BY <1>1, SpecIsValid DEF ValidSpec, WorkflowSpec
  <2> QED
    BY <2>1, <1>1, <1>3 DEF Rows
<1>9. ASSUME node[e.src].status = "cancelled"
      PROVE  e.src \in spec.branch \/ e.trigger = "failure"
  <2>1. src = StateFromChild(e.src, node[e.src])
    BY <1>1, <1>3, <1>9, RowState
  <2>2. src.status = "cancelled" /\ src.inactive = FALSE
    <3>1. node[e.src] \in Rows /\ node[e.src].status # "absent"
      BY <1>1, <1>3, <1>9
    <3>2. StateFromChild(e.src, node[e.src]).status = "cancelled"
          /\ StateFromChild(e.src, node[e.src]).inactive = FALSE
      BY <1>1, <1>3, <1>9, <3>1, ChildState
    <3> QED
      BY <3>2, <2>1
  <2> QED
    <3> HIDE DEF e, src
    <3> QED
      BY <2>2, <1>4, UnblockedSays
<1> QED
  BY <1>6, <1>7, <1>8, <1>9

\* A decision that lets a node start, by the kind of its edge.
LEMMA SatisfiedSays ==
    ASSUME NEW e, NEW src, EdgeDecision(e, src) = "satisfied"
    PROVE  /\ e.trigger = "failure" =>
                 src.status = "failed" /\ Selected(e.src, "failure") = e.dst
           /\ e.trigger # "failure" => src.status = "success"
           /\ e.trigger # "failure" /\ e.src \in spec.branch =>
                 Selected(e.src, "success") = e.dst
BY DEF EdgeDecision

LEMMA StartedRoutes ==
    ASSUME TypeOK, Started
    PROVE  RoutesExclusive
<1>1. spec \in Specs
  BY DEF TypeOK
<1>2. SUFFICES ASSUME NEW i \in DOMAIN spec.edges, NEW j \in DOMAIN spec.edges,
                      spec.edges[i].src = spec.edges[j].src,
                      spec.edges[i].dst # spec.edges[j].dst,
                      Incoming(spec.edges[i].dst) = {i},
                      Incoming(spec.edges[j].dst) = {j},
                      \/ spec.edges[i].trigger # spec.edges[j].trigger
                      \/ spec.edges[i].trigger = "failure"
                      \/ spec.edges[i].src \in spec.branch,
                      node[spec.edges[i].dst].status # "absent",
                      node[spec.edges[j].dst].status # "absent"
               PROVE  FALSE
  BY DEF RoutesExclusive
<1> DEFINE src == NodeStates(node)[spec.edges[i].src]
<1>3. \A k \in {i, j} : /\ spec.edges[k].dst \in Nodes
                        /\ spec.edges[k].trigger \in {"success", "failure"}
                        /\ k \in Incoming(spec.edges[k].dst)
  BY <1>1, <1>2, SpecHasRank DEF Edge, Incoming
<1>4. EdgeDecision(spec.edges[i], src) = "satisfied"
  BY <1>2, <1>3, StartedSays
<1>5. EdgeDecision(spec.edges[j], src) = "satisfied"
  BY <1>2, <1>3, StartedSays
<1>6. /\ spec.edges[i].trigger = "failure" =>
            /\ src.status = "failed"
            /\ Selected(spec.edges[i].src, "failure") = spec.edges[i].dst
      /\ spec.edges[i].trigger # "failure" => src.status = "success"
      /\ spec.edges[i].trigger # "failure" /\ spec.edges[i].src \in spec.branch =>
            Selected(spec.edges[i].src, "success") = spec.edges[i].dst
  BY <1>4, SatisfiedSays
<1>7. /\ spec.edges[j].trigger = "failure" =>
            /\ src.status = "failed"
            /\ Selected(spec.edges[i].src, "failure") = spec.edges[j].dst
      /\ spec.edges[j].trigger # "failure" => src.status = "success"
      /\ spec.edges[j].trigger # "failure" /\ spec.edges[i].src \in spec.branch =>
            Selected(spec.edges[i].src, "success") = spec.edges[j].dst
  BY <1>2, <1>5, SatisfiedSays
<1> QED
  BY <1>2, <1>3, <1>6, <1>7

\* With the spec frozen, the states after a step are those of the new rows.
LEMMA SameStates ==
    ASSUME spec' = spec
    PROVE  NodeStates(node)' = NodeStates(node')
BY DEF NodeStates, StateOf, Decisions, Evaluated, EdgeDecision, Selected,
       EdgesOf, Incoming, StateFromChild

LEMMA SameDecisions ==
    ASSUME spec' = spec, NEW n
    PROVE  Decisions(NodeStates(node), n)' = Decisions(NodeStates(node'), n)
<1>1. NodeStates(node)' = NodeStates(node')
  BY SameStates
<1> QED
  BY <1>1 DEF Decisions, EdgeDecision, Selected, EdgesOf, Incoming

\* What a step that keeps final states means for the plan.
LEMMA KeptStates ==
    ASSUME TypeOK, spec' = spec, KeepsFinal(node, node'), NEW n \in Nodes
    PROVE  /\ StatusOf(node, n) \in FinalStates =>
                 StatusOf(node, n)' = StatusOf(node, n)
           /\ Enabled(n) => Enabled(n)'
<1>1. spec \in Specs
  BY DEF TypeOK
<1>2. ASSUME StatusOf(node, n) \in FinalStates
      PROVE  StatusOf(node, n)' = StatusOf(node, n)
  <2>1. NodeStates(node')[n] = NodeStates(node)[n]
    BY <1>1, <1>2, FinalStands
  <2>2. NodeStates(node)' = NodeStates(node')
    BY SameStates
  <2> QED
    BY <2>1, <2>2 DEF StatusOf
<1>3. ASSUME Enabled(n)
      PROVE  Enabled(n)'
  <2>1. "waiting" \notin Decisions(NodeStates(node), n)
    BY <1>3 DEF Enabled
  <2>2. Decisions(NodeStates(node'), n) = Decisions(NodeStates(node), n)
    BY <1>1, <2>1, DecisionsStay
  <2>3. Decisions(NodeStates(node), n)' = Decisions(NodeStates(node), n)
    BY <2>2, SameDecisions
  <2> QED
    BY <2>3, <1>3 DEF Enabled
<1> QED
  BY <1>2, <1>3

\* A node to be enqueued stays so until it is.
LEMMA ReadyStays ==
    ASSUME TypeOK, TypeOK', spec' = spec, KeepsFinal(node, node'), NEW n \in Nodes,
           StatusOf(node, n) = "ready", node'[n].status = node[n].status,
           node'[n].retries = node[n].retries
    PROVE  StatusOf(node, n)' = "ready"
<1>1. spec \in Specs /\ node \in [Nodes -> Rows]
  BY DEF TypeOK
<1>2. "waiting" \notin Decisions(NodeStates(node), n)
  BY <1>1, StatusSays
<1>3. Decisions(NodeStates(node'), n) = Decisions(NodeStates(node), n)
  BY <1>1, <1>2, DecisionsStay
<1>4. StateOf(node', NodeStates(node'), n) = StateOf(node, NodeStates(node), n)
  BY <1>3, StateAgrees
<1>5. NodeStates(node')[n] = NodeStates(node)[n]
  BY <1>1, <1>4, StatesAre
<1>6. NodeStates(node)' = NodeStates(node')
  BY SameStates
<1> QED
  BY <1>5, <1>6 DEF StatusOf

\* A step that starts no node: what is not live keeps its status and its
\* retries, and no cancel flag is lost.
Quiet ==
    \A n \in Nodes :
       /\ node[n].status \notin Live => /\ node'[n].status = node[n].status
                                        /\ node'[n].retries = node[n].retries
       /\ node[n].status \in Live => node'[n].status # "absent"
       /\ node[n].cancel => node'[n].cancel

LEMMA QuietKeeps ==
    ASSUME TypeOK, Quiet
    PROVE  KeepsFinal(node, node')
<1>1. \A n \in Nodes : StatusOf(node, n) \in FinalStates => node[n].status \notin Live
  BY RowState DEF TypeOK, FinalStates
<1> QED
  BY <1>1 DEF KeepsFinal, Quiet

----------------------------------------------------------------------------
(* Types.                                                                   *)

LEMMA NoPlanType ==
    /\ NoPlan \in Plan
    /\ NoPlan.pc = "idle" /\ NoPlan.stands = FALSE
    /\ NoPlan.enqueue = {} /\ NoPlan.retry = {} /\ NoPlan.cancel = {}
    /\ NoPlan.out = "none" /\ NoPlan.error = "none"
BY DEF NoPlan, Plan, Ended

\* The plan of a step is over the nodes.
LEMMA PlanType ==
    ASSUME NEW rows
    PROVE  LET plan == PlanWorkflowStep(rows)
           IN  /\ plan.enqueue \in SUBSET Nodes
               /\ plan.retry \in SUBSET Nodes
               /\ plan.cancel \in SUBSET Nodes
               /\ plan.out \in {"failed", "success", "none"}
BY DEF PlanWorkflowStep, LiveNodes

\* One advancer's local state changes to p.
LEMMA StepType ==
    ASSUME TypeOK, NEW w \in Workers, NEW p \in Plan, Step(w, p)
    PROVE  /\ adv' \in [Workers -> Plan]
           /\ adv'[w] = p
           /\ \A v \in Workers \ {w} : adv'[v] = adv[v]
BY DEF TypeOK, Step

\* One row changes to r.
LEMMA RowType ==
    ASSUME TypeOK, NEW n \in Nodes, NEW r \in Rows, node' = [node EXCEPT ![n] = r]
    PROVE  /\ node' \in [Nodes -> Rows]
           /\ node'[n] = r
           /\ \A m \in Nodes \ {n} : node'[m] = node[m]
BY DEF TypeOK

\* The rows the actions write.
LEMMA StatusWrite ==
    ASSUME NEW r \in Rows, NEW s \in Live \cup Ended
    PROVE  /\ [r EXCEPT !.status = s] \in Rows
           /\ [r EXCEPT !.status = s].status = s
           /\ [r EXCEPT !.status = s].retries = r.retries
           /\ [r EXCEPT !.status = s].cancel = r.cancel
BY DEF Rows, Live, Ended

LEMMA RowWrites ==
    ASSUME NEW r \in Rows
    PROVE  /\ LET q == [r EXCEPT !.status = "pending", !.retries = @ + 1]
              IN  q \in Rows /\ q.status = "pending" /\ q.cancel = r.cancel
           /\ LET q == [r EXCEPT !.status = "pending", !.due = FALSE,
                                 !.retries = @ + 1]
              IN  q \in Rows /\ q.status = "pending" /\ q.cancel = r.cancel
           /\ LET q == [r EXCEPT !.due = TRUE]
              IN  /\ q \in Rows /\ q.status = r.status
                  /\ q.retries = r.retries /\ q.cancel = r.cancel
           /\ LET q == [r EXCEPT !.cancel = TRUE]
              IN  /\ q \in Rows /\ q.status = r.status
                  /\ q.retries = r.retries /\ q.cancel = TRUE
           /\ LET q == Cancelled(r)
              IN  /\ q \in Rows /\ q.retries = r.retries /\ q.cancel = TRUE
                  /\ r.status = "pending" => q.status = "cancelled"
                  /\ r.status # "pending" => q.status = r.status
<1>1. LET q == [r EXCEPT !.status = "pending", !.retries = @ + 1]
      IN  q \in Rows /\ q.status = "pending" /\ q.cancel = r.cancel
  <2>1. \A k \in Nat :
           LET q == [r EXCEPT !.status = "pending", !.retries = k]
           IN  q \in Rows /\ q.status = "pending" /\ q.cancel = r.cancel
    BY DEF Rows, Live
  <2>2. r.retries + 1 \in Nat
    BY DEF Rows
  <2> QED
    BY <2>1, <2>2
<1>2. LET q == [r EXCEPT !.status = "pending", !.due = FALSE, !.retries = @ + 1]
      IN  q \in Rows /\ q.status = "pending" /\ q.cancel = r.cancel
  <2>1. \A k \in Nat :
           LET q == [r EXCEPT !.status = "pending", !.due = FALSE, !.retries = k]
           IN  q \in Rows /\ q.status = "pending" /\ q.cancel = r.cancel
    BY DEF Rows, Live
  <2>2. r.retries + 1 \in Nat
    BY DEF Rows
  <2> QED
    BY <2>1, <2>2
<1>3. LET q == [r EXCEPT !.due = TRUE]
      IN  /\ q \in Rows /\ q.status = r.status
          /\ q.retries = r.retries /\ q.cancel = r.cancel
  BY DEF Rows
<1>4. LET q == [r EXCEPT !.cancel = TRUE]
      IN  /\ q \in Rows /\ q.status = r.status
          /\ q.retries = r.retries /\ q.cancel = TRUE
  BY DEF Rows
<1>5. LET q == Cancelled(r)
      IN  /\ q \in Rows /\ q.retries = r.retries /\ q.cancel = TRUE
          /\ r.status = "pending" => q.status = "cancelled"
          /\ r.status # "pending" => q.status = r.status
  BY DEF Rows, Cancelled, Ended
<1> QED
  BY <1>1, <1>2, <1>3, <1>4, <1>5, Zenon

\* A row that may follow r in a quiet step.
QuietRow(r, q) ==
    /\ r.status \notin Live => q.status = r.status /\ q.retries = r.retries
    /\ r.status \in Live => q.status # "absent"
    /\ r.cancel => q.cancel

LEMMA QuietOne ==
    ASSUME TypeOK, NEW n \in Nodes, NEW r \in Rows, node' = [node EXCEPT ![n] = r],
           QuietRow(node[n], r)
    PROVE  Quiet
<1>1. node'[n] = r /\ \A m \in Nodes \ {n} : node'[m] = node[m]
  BY RowType
<1>2. \A m \in Nodes : QuietRow(node[m], node'[m])
  <2>1. ASSUME NEW m \in Nodes, m # n
        PROVE  QuietRow(node[m], node'[m])
    BY <1>1, <2>1 DEF QuietRow, Live
  <2> QED
    BY <1>1, <2>1
<1> QED
  BY <1>2, Zenon DEF Quiet, QuietRow

LEMMA QuietNone ==
    ASSUME node' = node
    PROVE  Quiet
BY DEF Quiet, Live

----------------------------------------------------------------------------
(* A quiet step keeps the invariant.                                        *)

\* A sound step keeps the invariant and, if nothing was written late, what
\* decides the final states.
Sound == PlanIInv' /\ spec' = spec /\ (~late' => KeepsFinal(node, node'))

\* The plan of w is what is left of the one it had.
Kept(w) ==
    /\ adv[w].stands
    /\ adv'[w].enqueue \subseteq adv[w].enqueue
    /\ adv'[w].retry \subseteq adv[w].retry
    /\ adv'[w].out = adv[w].out
    /\ adv'[w].error = adv[w].error
    /\ \A n \in adv[w].cancel : n \in adv'[w].cancel \/ node'[n].cancel

\* The plan of w starts nothing and does not end the run by plan or cancel.
Empty(w) ==
    /\ adv'[w].enqueue = {}
    /\ adv'[w].retry = {}
    /\ adv'[w].out = "none" \/ adv'[w].error = "raised"
    /\ adv'[w].out # "success"

LEMMA QuietStarted ==
    ASSUME TypeOK, spec' = spec, Quiet, Started
    PROVE  Started'
<1>1. KeepsFinal(node, node')
  BY QuietKeeps
<1>2. \A n \in Nodes : node'[n].status # "absent" => node[n].status # "absent"
  BY DEF Quiet, Live
<1>3. \A n \in Nodes : Enabled(n) => Enabled(n)'
  BY <1>1, KeptStates
<1> QED
  BY <1>2, <1>3, Zenon DEF Started

LEMMA QuietOver ==
    ASSUME TypeOK, spec' = spec, Quiet, Over
    PROVE  Over'
<1>1. KeepsFinal(node, node')
  BY QuietKeeps
<1>2. \A n \in Nodes : StatusOf(node, n)' = StatusOf(node, n)
  BY <1>1, KeptStates DEF Over, FinalStates
<1> QED
  BY <1>2, Zenon DEF Over

LEMMA QuietCurrent ==
    ASSUME TypeOK, TypeOK', spec' = spec, Quiet, NEW w \in Workers, Current(w),
           adv'[w].enqueue \subseteq adv[w].enqueue,
           adv'[w].retry \subseteq adv[w].retry
    PROVE  Current(w)'
<1>1. KeepsFinal(node, node')
  BY QuietKeeps
<1>2. adv[w].enqueue \subseteq Nodes /\ adv[w].retry \subseteq Nodes
  BY DEF TypeOK, Plan
<1>3. \A n \in Nodes : node[n].status \notin Live =>
         node'[n].status = node[n].status /\ node'[n].retries = node[n].retries
  BY DEF Quiet
<1>4. ASSUME NEW n \in adv'[w].enqueue
      PROVE  node'[n].status = "absent" /\ StatusOf(node, n)' = "ready"
  <2>1. n \in Nodes /\ node[n].status = "absent" /\ StatusOf(node, n) = "ready"
    BY <1>2, <1>4 DEF Current
  <2>2. node'[n].status = node[n].status /\ node'[n].retries = node[n].retries
    BY <1>3, <2>1 DEF Live
  <2> QED
    BY <1>1, <2>1, <2>2, ReadyStays
<1>5. ASSUME NEW n \in adv'[w].retry
      PROVE  node'[n].status = "failed" /\ node'[n].retries < spec'.maxRetries[n]
  <2>1. /\ n \in Nodes /\ node[n].status = "failed"
        /\ node[n].retries < spec.maxRetries[n]
    BY <1>2, <1>5 DEF Current
  <2>2. node'[n].status = node[n].status /\ node'[n].retries = node[n].retries
    BY <1>3, <2>1 DEF Live
  <2> QED
    BY <2>1, <2>2
<1> QED
  BY <1>4, <1>5, Zenon DEF Current

LEMMA QuietLive ==
    ASSUME Quiet, NEW n \in LiveNodes(node)'
    PROVE  n \in LiveNodes(node) /\ (node[n].cancel => node'[n].cancel)
<1>1. n \in Nodes /\ node'[n].status \in Live
  BY DEF LiveNodes
<1>2. node[n].status \in Live
  BY <1>1 DEF Quiet
<1>3. node[n].cancel => node'[n].cancel
  BY <1>1, Zenon DEF Quiet
<1> QED
  BY <1>1, <1>2, <1>3 DEF LiveNodes

LEMMA QuietConcludes ==
    ASSUME TypeOK, spec' = spec, Quiet, NEW w \in Workers, Concludes(w), Kept(w)
    PROVE  Concludes(w)'
<1>1. ASSUME adv'[w].out # "none", adv'[w].error # "raised"
      PROVE  adv'[w].enqueue = {} /\ adv'[w].retry = {}
  BY <1>1 DEF Concludes, Kept
<1>2. ASSUME adv'[w].out # "none", adv'[w].error # "raised",
             NEW n \in LiveNodes(node)'
      PROVE  n \in adv'[w].cancel \/ node'[n].cancel
  <2>1. n \in LiveNodes(node) /\ (node[n].cancel => node'[n].cancel)
    BY <1>2, QuietLive
  <2>2. n \in adv[w].cancel \/ node[n].cancel
    BY <2>1, <1>2, Zenon DEF Concludes, Kept
  <2> QED
    BY <2>1, <2>2, Zenon DEF Kept
<1>3. ASSUME adv'[w].out = "success"
      PROVE  Over' /\ adv'[w].error = "none"
  <2>1. Over /\ adv[w].error = "none"
    BY <1>3, Zenon DEF Concludes, Kept
  <2>2. Over'
    BY <2>1, QuietOver
  <2>3. adv'[w].error = "none"
    BY <2>1 DEF Kept
  <2> QED
    BY <2>2, <2>3
<1> QED
  BY <1>1, <1>2, <1>3, Zenon DEF Concludes

LEMMA EmptyPlan ==
    ASSUME NEW w \in Workers, Empty(w)
    PROVE  Current(w)' /\ Concludes(w)'
<1>1. Current(w)'
  BY DEF Empty, Current
<1>2. ~(adv'[w].out # "none" /\ adv'[w].error # "raised") /\ adv'[w].out # "success"
  BY DEF Empty
<1> QED
  BY <1>1, <1>2, Zenon DEF Concludes

LEMMA QuietOrphans ==
    ASSUME Quiet, NoOrphans, ~late' => ~late,
           run'.status \in Ended => run.status \in Ended /\ run'.error = run.error
    PROVE  NoOrphans'
<1>1. SUFFICES ASSUME run'.status \in Ended, run'.error # "raised", ~late',
                      NEW n \in LiveNodes(node)'
               PROVE  node'[n].cancel
  BY Zenon DEF NoOrphans
<1>2. n \in LiveNodes(node) /\ (node[n].cancel => node'[n].cancel)
  BY <1>1, QuietLive
<1>3. node[n].cancel
  <2>1. run.status \in Ended /\ run.error # "raised" /\ ~late
    BY <1>1
  <2> QED
    BY <1>2, <2>1, Zenon DEF NoOrphans
<1> QED
  BY <1>2, <1>3, Zenon

\* All of it: only the plans and the run have to be looked at.
LEMMA QuietStep ==
    ASSUME PlanIInv, TypeOK', Claims', spec' = spec, Quiet, ~late' => ~late,
           \A w \in Workers : adv'[w].stands =>
              Kept(w) \/ Empty(w) \/ (~late => Current(w)' /\ Concludes(w)'),
           run'.status \in Ended => run.status \in Ended /\ run'.error = run.error,
           run'.status = "success" => run.status = "success"
    PROVE  Sound
<1>1. TypeOK /\ NoOrphans /\ (~late => Started /\ Plans /\ Succeeded)
  BY DEF PlanIInv
<1>2. NoOrphans'
  BY <1>1, QuietOrphans
<1>3. ASSUME ~late'
      PROVE  Started' /\ Plans' /\ Succeeded'
  <2>1. Started /\ Plans /\ Succeeded
    BY <1>1, <1>3
  <2>2. Started'
    BY <1>1, <2>1, QuietStarted
  <2>3. ASSUME NEW w \in Workers, adv'[w].stands
        PROVE  Current(w)' /\ Concludes(w)'
    <3>1. CASE Kept(w)
      <4>1. Current(w) /\ Concludes(w)
        BY <2>1, <3>1, Zenon DEF Plans, Kept
      <4>2. Current(w)'
        BY <1>1, <3>1, <4>1, QuietCurrent DEF Kept
      <4>3. Concludes(w)'
        BY <1>1, <3>1, <4>1, QuietConcludes
      <4> QED
        BY <4>2, <4>3
    <3>2. CASE Empty(w)
      BY <3>2, EmptyPlan
    <3> QED
      BY <1>3, <2>3, <3>1, <3>2, Zenon
  <2>4. Plans'
    BY <2>3, Zenon DEF Plans
  <2>5. Succeeded'
    <3>1. SUFFICES ASSUME run'.status = "success" PROVE Over'
      BY DEF Succeeded
    <3>2. Over
      BY <2>1, <3>1 DEF Succeeded
    <3> QED
      BY <1>1, <3>2, QuietOver
  <2> QED
    BY <2>2, <2>4, <2>5
<1>4. KeepsFinal(node, node')
  BY <1>1, QuietKeeps
<1> QED
  BY <1>2, <1>3, <1>4, Zenon DEF PlanIInv, Sound

LEMMA SamePlan ==
    ASSUME NEW v, adv'[v] = adv[v], adv[v].stands
    PROVE  Kept(v)
BY Zenon DEF Kept

\* A step that leaves the run's row and the claims alone.
LEMMA SameClaims ==
    ASSUME Claims, run'.status = run.status, run'.owner = run.owner,
           \A w \in Workers : /\ adv'[w].stands <=> adv[w].stands
                              /\ adv'[w].pc = "idle" <=> adv[w].pc = "idle"
    PROVE  Claims'
BY Zenon DEF Claims

\* An advancer that drops its plan, and the claim with it.
LEMMA DroppedClaim ==
    ASSUME Claims, run' = run, NEW w \in Workers, ~adv'[w].stands,
           adv'[w].pc = "idle", \A v \in Workers \ {w} : adv'[v] = adv[v]
    PROVE  Claims'
<1>1. ASSUME NEW v \in Workers
      PROVE  /\ adv'[v].stands => run'.status = "running" /\ run'.owner = v
             /\ adv'[v].pc # "idle" /\ run'.status = "running" /\ run'.owner = v
                   => adv'[v].stands
             /\ adv'[v].pc = "idle" => ~adv'[v].stands
  <2>1. CASE v = w
    BY <2>1, Zenon
  <2>2. CASE v # w
    <3>1. adv'[v] = adv[v]
      BY <2>2
    <3>2. /\ adv[v].stands => run.status = "running" /\ run.owner = v
          /\ adv[v].pc # "idle" /\ run.status = "running" /\ run.owner = v
                => adv[v].stands
          /\ adv[v].pc = "idle" => ~adv[v].stands
      BY Zenon DEF Claims
    <3> QED
      BY <3>1, <3>2
  <2> QED
    BY <2>1, <2>2, Zenon
<1> QED
  BY <1>1, Zenon DEF Claims

\* The steps of the queue: one row, quietly.
LEMMA NodeMovesKeep ==
    ASSUME PlanIInv, NEW n \in Nodes, NEW r \in Rows, QuietRow(node[n], r),
           NodeMoves(n, r)
    PROVE  Sound
<1>1. TypeOK /\ Claims
  BY DEF PlanIInv
<1>2. /\ node' = [node EXCEPT ![n] = r]
      /\ spec' = spec /\ run' = run /\ adv' = adv /\ api' = api
      /\ faults' = faults /\ late' = late
  BY DEF NodeMoves
<1>3. TypeOK'
  BY <1>1, <1>2, RowType DEF TypeOK
<1>4. Claims'
  BY <1>1, <1>2, Zenon DEF Claims
<1>5. Quiet
  BY <1>1, <1>2, QuietOne
<1>6. \A w \in Workers : adv'[w].stands => Kept(w)
  BY <1>2, SamePlan
<1> QED
  BY <1>2, <1>3, <1>4, <1>5, <1>6, QuietStep

LEMMA QueueKeeps ==
    ASSUME PlanIInv, NEW n \in Nodes,
           \/ NodeStarts(n) \/ NodeEnds(n) \/ NodeReaped(n)
           \/ BackoffPasses(n) \/ CancelJob(n)
    PROVE  Sound
<1>1. node[n] \in Rows
  BY DEF PlanIInv, TypeOK
<1>2. CASE NodeStarts(n)
  <2>1. /\ node[n].status \in Live
        /\ [node[n] EXCEPT !.status = "running"] \in Rows
        /\ [node[n] EXCEPT !.status = "running"].status = "running"
        /\ [node[n] EXCEPT !.status = "running"].cancel = node[n].cancel
    <3>1. node[n].status \in Live /\ "running" \in Live \cup Ended
      BY <1>2 DEF NodeStarts, Live
    <3> QED
      BY <1>1, <3>1, StatusWrite
  <2>2. QuietRow(node[n], [node[n] EXCEPT !.status = "running"])
    BY <2>1 DEF QuietRow
  <2> QED
    BY <1>2, <2>1, <2>2, NodeMovesKeep DEF NodeStarts
<1>3. CASE NodeEnds(n)
  <2>1. PICK out \in Ended : NodeMoves(n, [node[n] EXCEPT !.status = out])
    BY <1>3 DEF NodeEnds
  <2>2. /\ node[n].status \in Live
        /\ [node[n] EXCEPT !.status = out] \in Rows
        /\ [node[n] EXCEPT !.status = out].status # "absent"
        /\ [node[n] EXCEPT !.status = out].cancel = node[n].cancel
    <3>1. node[n].status \in Live /\ out \in Live \cup Ended /\ out # "absent"
      BY <1>3, <2>1 DEF NodeEnds, Live, Ended
    <3> QED
      BY <1>1, <3>1, StatusWrite
  <2>3. QuietRow(node[n], [node[n] EXCEPT !.status = out])
    BY <2>2 DEF QuietRow
  <2> QED
    BY <2>1, <2>2, <2>3, NodeMovesKeep
<1>4. CASE NodeReaped(n)
  <2> DEFINE again == [node[n] EXCEPT !.status = "pending", !.retries = @ + 1]
             lost  == [node[n] EXCEPT !.status = "failed"]
  <2>1. /\ node[n].status \in Live
        /\ again \in Rows /\ again.status = "pending" /\ again.cancel = node[n].cancel
        /\ lost \in Rows /\ lost.status = "failed" /\ lost.cancel = node[n].cancel
    <3>1. node[n].status \in Live /\ "failed" \in Live \cup Ended
      BY <1>4 DEF NodeReaped, Live, Ended
    <3>2. lost \in Rows /\ lost.status = "failed" /\ lost.cancel = node[n].cancel
      BY <1>1, <3>1, StatusWrite
    <3>3. again \in Rows /\ again.status = "pending" /\ again.cancel = node[n].cancel
      BY <1>1, RowWrites
    <3> QED
      BY <3>1, <3>2, <3>3
  <2>2. QuietRow(node[n], again) /\ QuietRow(node[n], lost)
    BY <2>1 DEF QuietRow
  <2>3. NodeMoves(n, again) \/ NodeMoves(n, lost)
    BY <1>4 DEF NodeReaped
  <2> QED
    BY <2>1, <2>2, <2>3, NodeMovesKeep
<1>5. CASE BackoffPasses(n)
  <2> DEFINE r == [node[n] EXCEPT !.due = TRUE]
  <2>1. /\ r \in Rows /\ r.status = node[n].status
        /\ r.retries = node[n].retries /\ r.cancel = node[n].cancel
    BY <1>1, RowWrites
  <2>2. QuietRow(node[n], r)
    BY <2>1 DEF QuietRow, Live
  <2> QED
    BY <1>5, <2>1, <2>2, NodeMovesKeep DEF BackoffPasses
<1>6. CASE CancelJob(n)
  <2> DEFINE r == [node[n] EXCEPT !.cancel = TRUE]
  <2>1. /\ r \in Rows /\ r.status = node[n].status
        /\ r.retries = node[n].retries /\ r.cancel = TRUE
    BY <1>1, RowWrites
  <2>2. QuietRow(node[n], r)
    BY <2>1 DEF QuietRow, Live
  <2> QED
    BY <1>6, <2>1, <2>2, NodeMovesKeep DEF CancelJob
<1> QED
  BY <1>2, <1>3, <1>4, <1>5, <1>6

\* The request that cancels the run.
LEMMA RequestKeeps ==
    ASSUME PlanIInv, CancelWorkflowRun \/ ApiCancelsRun
    PROVE  Sound
<1>1. TypeOK /\ Claims
  BY DEF PlanIInv
<1>2. /\ spec' = spec /\ node' = node /\ adv' = adv
      /\ faults' = faults /\ late' = late
  BY DEF CancelWorkflowRun, ApiCancelsRun
<1>3. /\ run' \in RunRow /\ run'.status = run.status /\ run'.owner = run.owner
      /\ run'.error = run.error
  BY <1>1 DEF CancelWorkflowRun, ApiCancelsRun, TypeOK, RunRow
<1>4. api' \in [pc : {"idle", "run", "nodes"}, todo : SUBSET Nodes,
                pending : SUBSET Nodes]
  BY <1>1 DEF CancelWorkflowRun, ApiCancelsRun, TypeOK, LiveNodes
<1>5. TypeOK'
  BY <1>1, <1>2, <1>3, <1>4 DEF TypeOK
<1>6. Claims'
  BY <1>1, <1>2, <1>3, Zenon DEF Claims
<1>7. Quiet
  BY <1>2, QuietNone
<1>8. \A w \in Workers : adv'[w].stands => Kept(w)
  BY <1>2, SamePlan
<1> QED
  BY <1>2, <1>3, <1>5, <1>6, <1>7, <1>8, QuietStep

LEMMA ApiCancelsNodeKeeps ==
    ASSUME PlanIInv, NEW n \in Nodes, ApiCancelsNode(n)
    PROVE  Sound
<1>1. TypeOK /\ Claims /\ node[n] \in Rows
  BY DEF PlanIInv, TypeOK
<1>2. PICK r : /\ r = IF n \in api.pending THEN Cancelled(node[n])
                      ELSE [node[n] EXCEPT !.cancel = TRUE]
               /\ node' = [node EXCEPT ![n] = r]
  BY DEF ApiCancelsNode
<1>3. /\ r \in Rows /\ r.retries = node[n].retries /\ r.cancel = TRUE
      /\ r.status = node[n].status \/ (node[n].status = "pending" /\ r.status = "cancelled")
  BY <1>1, <1>2, RowWrites
<1>4. QuietRow(node[n], r)
  BY <1>3 DEF QuietRow, Live
<1>5. /\ spec' = spec /\ run' = run /\ adv' = adv
      /\ faults' = faults /\ late' = late
  BY DEF ApiCancelsNode
<1>6. TypeOK'
  <2>1. api' \in [pc : {"idle", "run", "nodes"}, todo : SUBSET Nodes,
                  pending : SUBSET Nodes]
    BY <1>1 DEF ApiCancelsNode, TypeOK
  <2>2. node' \in [Nodes -> Rows]
    BY <1>1, <1>2, <1>3, RowType
  <2> QED
    BY <1>1, <1>5, <2>1, <2>2 DEF TypeOK
<1>7. Claims'
  BY <1>1, <1>5, Zenon DEF Claims
<1>8. Quiet
  BY <1>1, <1>2, <1>3, <1>4, QuietOne
<1>9. \A w \in Workers : adv'[w].stands => Kept(w)
  BY <1>5, SamePlan
<1> QED
  BY <1>5, <1>6, <1>7, <1>8, <1>9, QuietStep

----------------------------------------------------------------------------
(* The advancers.                                                           *)

\* The fields of an advancer.
LEMMA PlanFields ==
    ASSUME TypeOK, NEW w \in Workers
    PROVE  /\ adv[w] \in Plan
           /\ adv[w].stands \in BOOLEAN
           /\ adv[w].enqueue \subseteq Nodes
           /\ adv[w].retry \subseteq Nodes
           /\ adv[w].cancel \subseteq Nodes
           /\ adv[w].out \in Ended \cup {"none"}
           /\ adv[w].error \in {"none", "plan", "raised"}
BY DEF TypeOK, Plan

\* At most one claim stands, and only on a running run.
LEMMA OneClaim ==
    ASSUME Claims, NEW w \in Workers, adv[w].stands
    PROVE  /\ run.status = "running"
           /\ \A v \in Workers \ {w} : ~adv[v].stands
BY Zenon DEF Claims

LEMMA ClaimKeeps ==
    ASSUME PlanIInv, NEW w \in Workers, Claim(w)
    PROVE  Sound
<1>1. TypeOK /\ Claims
  BY DEF PlanIInv
<1>2. PICK p : p = [NoPlan EXCEPT !.pc = "list", !.stands = TRUE] /\ Step(w, p)
  BY DEF Claim
<1>3. /\ p \in Plan /\ p.pc = "list" /\ p.stands = TRUE
      /\ p.enqueue = {} /\ p.retry = {} /\ p.out = "none"
  BY <1>2 DEF NoPlan, Plan, Ended
<1>4. /\ adv' \in [Workers -> Plan] /\ adv'[w] = p
      /\ \A v \in Workers \ {w} : adv'[v] = adv[v]
  BY <1>1, <1>2, <1>3, StepType
<1>5. /\ spec' = spec /\ node' = node /\ api' = api /\ faults' = faults /\ late' = late
      /\ run.status = "pending"
  BY DEF Claim
<1>6. run' \in RunRow /\ run'.status = "running" /\ run'.owner = w
  BY <1>1 DEF Claim, TypeOK, RunRow, Live
<1>7. TypeOK'
  BY <1>1, <1>4, <1>5, <1>6 DEF TypeOK
<1>8. \A v \in Workers \ {w} : ~adv'[v].stands
  BY <1>1, <1>4, <1>5, OneClaim
<1>9. Claims'
  <2>1. ASSUME NEW v \in Workers
        PROVE  /\ adv'[v].stands => run'.status = "running" /\ run'.owner = v
               /\ adv'[v].pc # "idle" /\ run'.status = "running" /\ run'.owner = v
                     => adv'[v].stands
               /\ adv'[v].pc = "idle" => ~adv'[v].stands
    <3>1. CASE v = w
      BY <3>1, <1>3, <1>4, <1>6
    <3>2. CASE v # w
      BY <3>2, <1>6, <1>8
    <3> QED
      BY <3>1, <3>2
  <2> QED
    BY <2>1, Zenon DEF Claims
<1>10. Quiet
  BY <1>5, QuietNone
<1>11. \A v \in Workers : adv'[v].stands => Kept(v) \/ Empty(v)
  <2>1. Empty(w)
    BY <1>3, <1>4 DEF Empty
  <2> QED
    BY <1>8, <2>1
<1>12. run'.status \notin Ended /\ run'.status # "success"
  BY <1>6 DEF Ended
<1> QED
  BY <1>5, <1>7, <1>9, <1>10, <1>11, <1>12, QuietStep

LEMMA ChecksKeeps ==
    ASSUME PlanIInv, NEW w \in Workers, Checks(w)
    PROVE  Sound
<1>1. TypeOK /\ Claims
  BY DEF PlanIInv
<1>2. PICK p : p = [adv[w] EXCEPT !.pc = "apply"] /\ Step(w, p)
  BY DEF Checks
<1>3. /\ p \in Plan /\ p.pc = "apply" /\ p.stands = adv[w].stands
      /\ p.enqueue = adv[w].enqueue /\ p.retry = adv[w].retry
      /\ p.cancel = adv[w].cancel /\ p.out = adv[w].out /\ p.error = adv[w].error
  BY <1>1, <1>2, PlanFields DEF Plan
<1>4. /\ adv' \in [Workers -> Plan] /\ adv'[w] = p
      /\ \A v \in Workers \ {w} : adv'[v] = adv[v]
  BY <1>1, <1>2, <1>3, StepType
<1>5. /\ spec' = spec /\ run' = run /\ node' = node /\ api' = api
      /\ faults' = faults /\ late' = late /\ adv[w].pc = "check"
  BY DEF Checks
<1>6. TypeOK'
  BY <1>1, <1>4, <1>5 DEF TypeOK
<1>7. Claims'
  <2>1. \A v \in Workers : /\ adv'[v].stands <=> adv[v].stands
                           /\ adv'[v].pc = "idle" <=> adv[v].pc = "idle"
    BY <1>3, <1>4, <1>5
  <2> QED
    BY <1>1, <1>5, <2>1, SameClaims
<1>8. Quiet
  BY <1>5, QuietNone
<1>9. \A v \in Workers : adv'[v].stands => Kept(v)
  <2>1. ASSUME adv'[w].stands PROVE Kept(w)
    <3>1. adv[w].stands
      BY <2>1, <1>3, <1>4
    <3>2. /\ adv'[w].enqueue \subseteq adv[w].enqueue
          /\ adv'[w].retry \subseteq adv[w].retry
          /\ adv'[w].out = adv[w].out /\ adv'[w].error = adv[w].error
          /\ adv'[w].cancel = adv[w].cancel
      BY <1>3, <1>4
    <3> QED
      BY <3>1, <3>2, Zenon DEF Kept
  <2> QED
    BY <1>4, <2>1, SamePlan
<1> QED
  BY <1>5, <1>6, <1>7, <1>8, <1>9, QuietStep

LEMMA RaisesKeeps ==
    ASSUME PlanIInv, NEW w \in Workers, Raises(w)
    PROVE  Sound
<1>1. TypeOK /\ Claims
  BY DEF PlanIInv
<1>2. PICK p : /\ p = [NoPlan EXCEPT !.pc = "apply", !.stands = adv[w].stands,
                                     !.out = "failed", !.error = "raised"]
               /\ Step(w, p)
  BY DEF Raises
<1>3. /\ p \in Plan /\ p.pc = "apply" /\ p.stands = adv[w].stands
      /\ p.enqueue = {} /\ p.retry = {} /\ p.out = "failed" /\ p.error = "raised"
  BY <1>1, <1>2, PlanFields DEF NoPlan, Plan, Ended
<1>4. /\ adv' \in [Workers -> Plan] /\ adv'[w] = p
      /\ \A v \in Workers \ {w} : adv'[v] = adv[v]
  BY <1>1, <1>2, <1>3, StepType
<1>5. /\ spec' = spec /\ run' = run /\ node' = node /\ api' = api
      /\ faults' = faults /\ late' = late /\ adv[w].pc # "idle"
  BY DEF Raises
<1>6. TypeOK'
  BY <1>1, <1>4, <1>5 DEF TypeOK
<1>7. Claims'
  <2>1. \A v \in Workers : /\ adv'[v].stands <=> adv[v].stands
                           /\ adv'[v].pc = "idle" <=> adv[v].pc = "idle"
    BY <1>3, <1>4, <1>5
  <2> QED
    BY <1>1, <1>5, <2>1, SameClaims
<1>8. Quiet
  BY <1>5, QuietNone
<1>9. \A v \in Workers : adv'[v].stands => Kept(v) \/ Empty(v)
  <2>1. Empty(w)
    BY <1>3, <1>4 DEF Empty
  <2> QED
    BY <1>4, <2>1, SamePlan
<1> QED
  BY <1>5, <1>6, <1>7, <1>8, <1>9, QuietStep

LEMMA CrashKeeps ==
    ASSUME PlanIInv, NEW w \in Workers, Crash(w)
    PROVE  Sound
<1>1. TypeOK /\ Claims
  BY DEF PlanIInv
<1>2. /\ adv' \in [Workers -> Plan] /\ adv'[w] = NoPlan
      /\ \A v \in Workers \ {w} : adv'[v] = adv[v]
  BY <1>1, NoPlanType, StepType DEF Crash
<1>3. /\ spec' = spec /\ run' = run /\ node' = node /\ api' = api /\ late' = late
      /\ faults < MaxFaults /\ faults' = faults + 1
  BY DEF Crash
<1>4. faults' \in 0 .. MaxFaults
  BY <1>1, <1>3, WorkflowAssumption DEF TypeOK
<1>5. TypeOK'
  BY <1>1, <1>2, <1>3, <1>4 DEF TypeOK
<1>6. ~adv'[w].stands /\ adv'[w].pc = "idle"
  BY <1>2, NoPlanType
<1>7. Claims'
  BY <1>1, <1>2, <1>3, <1>6, DroppedClaim
<1>8. Quiet
  BY <1>3, QuietNone
<1>9. \A v \in Workers : adv'[v].stands => Kept(v)
  BY <1>2, <1>6, SamePlan
<1> QED
  BY <1>3, <1>5, <1>7, <1>8, <1>9, QuietStep

LEMMA ReapRunKeeps ==
    ASSUME PlanIInv, ReapRun
    PROVE  Sound
<1>1. TypeOK /\ Claims
  BY DEF PlanIInv
<1>2. /\ spec' = spec /\ node' = node /\ api' = api /\ late' = late
      /\ faults' = IF Orphaned THEN faults ELSE faults + 1
      /\ Orphaned \/ faults < MaxFaults
      /\ adv' = [w \in Workers |-> [adv[w] EXCEPT !.stands = FALSE]]
  BY DEF ReapRun
<1>3. faults' \in 0 .. MaxFaults
  BY <1>1, <1>2, WorkflowAssumption DEF TypeOK
<1>4. run' \in RunRow /\ run'.status = "pending" /\ run'.owner = NoWorker
  BY <1>1 DEF ReapRun, TypeOK, RunRow, Live
<1>5. adv' \in [Workers -> Plan] /\ \A w \in Workers : adv'[w].stands = FALSE
  <2>1. \A p \in Plan : /\ [p EXCEPT !.stands = FALSE] \in Plan
                        /\ [p EXCEPT !.stands = FALSE].stands = FALSE
    BY DEF Plan
  <2> QED
    BY <1>1, <1>2, <2>1, PlanFields
<1>6. TypeOK'
  BY <1>1, <1>2, <1>3, <1>4, <1>5 DEF TypeOK
<1>7. Claims'
  <2>1. run'.status # "running"
    BY <1>4
  <2>2. \A w \in Workers : ~adv'[w].stands
    BY <1>5
  <2> QED
    BY <2>1, <2>2, Zenon DEF Claims
<1>8. Quiet
  BY <1>2, QuietNone
<1>9. \A w \in Workers : ~adv'[w].stands
  BY <1>5
<1>10. run'.status \notin Ended /\ run'.status # "success"
  BY <1>4 DEF Ended
<1> QED
  BY <1>2, <1>6, <1>7, <1>8, <1>9, <1>10, QuietStep

LEMMA YieldsKeeps ==
    ASSUME PlanIInv, NEW w \in Workers, Yields(w)
    PROVE  Sound
<1>1. TypeOK /\ Claims
  BY DEF PlanIInv
<1>2. /\ adv' \in [Workers -> Plan] /\ adv'[w] = NoPlan
      /\ \A v \in Workers \ {w} : adv'[v] = adv[v]
  BY <1>1, NoPlanType, StepType DEF Yields
<1>3. /\ spec' = spec /\ node' = node /\ api' = api
      /\ faults' = faults /\ late' = late
  BY DEF Yields
<1>4. \/ run' = run /\ ~Owns(w)
      \/ Owns(w) /\ run' \in RunRow /\ run'.status = "pending"
  BY <1>1 DEF Yields, TypeOK, RunRow, Live
<1>5. run' \in RunRow
  BY <1>1, <1>4 DEF TypeOK
<1>6. TypeOK'
  BY <1>1, <1>2, <1>3, <1>5 DEF TypeOK
<1>7. ~adv'[w].stands /\ adv'[w].pc = "idle"
  BY <1>2, NoPlanType
<1>8. Claims'
  <2>1. CASE run' = run
    BY <1>1, <1>2, <1>7, <2>1, DroppedClaim
  <2>2. CASE Owns(w) /\ run'.status = "pending"
    <3>1. \A v \in Workers : ~adv'[v].stands
      <4>1. ASSUME NEW v \in Workers, v # w PROVE ~adv'[v].stands
        BY <1>1, <1>2, <2>2, <4>1, Zenon DEF Claims, Owns
      <4> QED
        BY <1>7, <4>1, Zenon
    <3>2. run'.status # "running"
      BY <2>2
    <3> QED
      BY <3>1, <3>2, Zenon DEF Claims
  <2> QED
    BY <1>4, <2>1, <2>2
<1>9. Quiet
  BY <1>3, QuietNone
<1>10. \A v \in Workers : adv'[v].stands => Kept(v)
  BY <1>2, <1>7, SamePlan
<1>11. run' = run \/ (run'.status \notin Ended /\ run'.status # "success")
  BY <1>4 DEF Ended
<1> QED
  BY <1>3, <1>6, <1>8, <1>9, <1>10, <1>11, QuietStep

LEMMA CancelNodeKeeps ==
    ASSUME PlanIInv, NEW w \in Workers, NEW n \in Nodes, CancelNode(w, n)
    PROVE  Sound
<1>1. TypeOK /\ Claims /\ node[n] \in Rows
  BY DEF PlanIInv, TypeOK
<1>2. PICK p : p = [adv[w] EXCEPT !.cancel = @ \ {n}] /\ Step(w, p)
  BY DEF CancelNode
<1>3. /\ p \in Plan /\ p.pc = adv[w].pc /\ p.stands = adv[w].stands
      /\ p.enqueue = adv[w].enqueue /\ p.retry = adv[w].retry
      /\ p.cancel = adv[w].cancel \ {n} /\ p.out = adv[w].out /\ p.error = adv[w].error
  BY <1>1, <1>2, PlanFields DEF Plan
<1>4. /\ adv' \in [Workers -> Plan] /\ adv'[w] = p
      /\ \A v \in Workers \ {w} : adv'[v] = adv[v]
  BY <1>1, <1>2, <1>3, StepType
<1>5. PICK r : r = Cancelled(node[n]) /\ node' = [node EXCEPT ![n] = r]
  BY DEF CancelNode, Write
<1>6. /\ r \in Rows /\ r.retries = node[n].retries /\ r.cancel = TRUE
      /\ r.status = node[n].status \/ (node[n].status = "pending" /\ r.status = "cancelled")
  BY <1>1, <1>5, RowWrites
<1>7. QuietRow(node[n], r)
  BY <1>6 DEF QuietRow, Live
<1>8. Quiet
  BY <1>1, <1>5, <1>6, <1>7, QuietOne
<1>9. /\ node' \in [Nodes -> Rows] /\ node'[n] = r
  BY <1>1, <1>5, <1>6, RowType
<1>10. spec' = spec /\ run' = run /\ api' = api /\ faults' = faults
  BY DEF CancelNode
<1>11. late' \in BOOLEAN /\ (~late' => ~late)
  BY <1>1, Zenon DEF CancelNode, Write, TypeOK
<1>12. TypeOK'
  BY <1>1, <1>4, <1>9, <1>10, <1>11 DEF TypeOK
<1>13. Claims'
  <2>1. \A v \in Workers : /\ adv'[v].stands <=> adv[v].stands
                           /\ adv'[v].pc = "idle" <=> adv[v].pc = "idle"
    BY <1>3, <1>4
  <2> QED
    BY <1>1, <1>10, <2>1, SameClaims
<1>14. ASSUME NEW v \in Workers, adv'[v].stands
       PROVE  Kept(v)
  <2>1. CASE v = w
    <3>1. adv[w].stands
      BY <2>1, <1>3, <1>4, <1>14
    <3>2. /\ adv'[w].enqueue \subseteq adv[w].enqueue
          /\ adv'[w].retry \subseteq adv[w].retry
          /\ adv'[w].out = adv[w].out /\ adv'[w].error = adv[w].error
      BY <1>3, <1>4
    <3>3. node'[n].cancel
      BY <1>6, <1>9
    <3>4. \A m \in adv[w].cancel : m \in adv'[w].cancel \/ m = n
      BY <1>3, <1>4
    <3>5. \A m \in adv[w].cancel : m \in adv'[w].cancel \/ node'[m].cancel
      BY <3>3, <3>4, Zenon
    <3> QED
      BY <2>1, <3>1, <3>2, <3>5, Zenon DEF Kept
  <2>2. CASE v # w
    BY <1>4, <1>14, <2>2, SamePlan
  <2> QED
    BY <2>1, <2>2
<1> QED
  BY <1>8, <1>10, <1>11, <1>12, <1>13, <1>14, QuietStep

\* A node is started or started again by a plan that stands.
LEMMA StartStep ==
    ASSUME PlanIInv, TypeOK', Claims', spec' = spec, run' = run, ~late,
           NEW w \in Workers, NEW n \in Nodes, NEW r \in Rows,
           adv[w].stands,
           node' = [node EXCEPT ![n] = r],
           StatusOf(node, n) \notin FinalStates, Enabled(n),
           \A v \in Workers \ {w} : adv'[v] = adv[v],
           adv'[w].enqueue \subseteq adv[w].enqueue \ {n},
           adv'[w].retry \subseteq adv[w].retry \ {n},
           adv[w].enqueue \cup adv[w].retry # {},
           adv'[w].out = adv[w].out, adv'[w].error = adv[w].error
    PROVE  Sound
<1>1. TypeOK /\ Claims /\ Started /\ Current(w) /\ Concludes(w)
  BY Zenon DEF PlanIInv, Plans
<1>2. /\ run.status = "running"
      /\ \A v \in Workers \ {w} : ~adv[v].stands
  BY <1>1, OneClaim
<1>3. node'[n] = r /\ \A m \in Nodes \ {n} : node'[m] = node[m]
  BY <1>1, RowType
<1>4. KeepsFinal(node, node')
  BY <1>3 DEF KeepsFinal
<1>5. Started'
  <2>1. \A m \in Nodes : node'[m].status # "absent" => Enabled(m)
    BY <1>1, <1>3 DEF Started
  <2>2. \A m \in Nodes : Enabled(m) => Enabled(m)'
    BY <1>1, <1>4, KeptStates
  <2> QED
    BY <2>1, <2>2, Zenon DEF Started
<1>6. Current(w)'
  <2>1. ASSUME NEW m \in adv'[w].enqueue
        PROVE  node'[m].status = "absent" /\ StatusOf(node, m)' = "ready"
    <3>1. m \in Nodes \ {n} /\ node[m].status = "absent" /\ StatusOf(node, m) = "ready"
      BY <1>1, <2>1, PlanFields DEF Current
    <3>2. node'[m] = node[m]
      BY <1>3, <3>1
    <3> QED
      BY <1>1, <1>4, <3>1, <3>2, ReadyStays
  <2>2. ASSUME NEW m \in adv'[w].retry
        PROVE  node'[m].status = "failed" /\ node'[m].retries < spec'.maxRetries[m]
    <3>1. m \in Nodes \ {n} /\ node[m].status = "failed"
          /\ node[m].retries < spec.maxRetries[m]
      BY <1>1, <2>2, PlanFields DEF Current
    <3>2. node'[m] = node[m]
      BY <1>3, <3>1
    <3> QED
      BY <3>1, <3>2
  <2> QED
    BY <2>1, <2>2, Zenon DEF Current
<1>7. Concludes(w)'
  <2>1. adv[w].out = "none" \/ adv[w].error = "raised"
    BY <1>1 DEF Concludes
  <2>2. adv[w].out = "success" => adv[w].error = "none"
    BY <1>1, Zenon DEF Concludes
  <2>3. ~(adv'[w].out # "none" /\ adv'[w].error # "raised") /\ adv'[w].out # "success"
    BY <2>1, <2>2
  <2> QED
    BY <2>3, Zenon DEF Concludes
<1>8. Plans'
  <2>1. \A v \in Workers \ {w} : ~adv'[v].stands
    BY <1>2
  <2> QED
    BY <1>6, <1>7, <2>1, Zenon DEF Plans
<1>9. run'.status \notin Ended /\ run'.status # "success"
  BY <1>2 DEF Ended
<1>10. Succeeded' /\ NoOrphans'
  BY <1>9, Zenon DEF Succeeded, NoOrphans
<1> QED
  BY <1>4, <1>5, <1>8, <1>10, Zenon DEF PlanIInv, Sound

\* A late write: nothing more is claimed.
LEMMA LateStep ==
    ASSUME TypeOK', Claims', spec' = spec, late'
    PROVE  Sound
BY Zenon DEF PlanIInv, NoOrphans, Sound

\* A write that changes nothing.
LEMMA NoWrite ==
    ASSUME PlanIInv, TypeOK', Claims', spec' = spec, run' = run, node' = node,
           ~late' => ~late, NEW w \in Workers,
           \A v \in Workers \ {w} : adv'[v] = adv[v],
           adv'[w].stands = adv[w].stands,
           adv'[w].enqueue \subseteq adv[w].enqueue,
           adv'[w].retry \subseteq adv[w].retry,
           adv'[w].cancel = adv[w].cancel,
           adv'[w].out = adv[w].out, adv'[w].error = adv[w].error
    PROVE  Sound
<1>1. Quiet
  BY QuietNone
<1>2. ASSUME NEW v \in Workers, adv'[v].stands
      PROVE  Kept(v)
  <2>1. CASE v = w
    <3>1. adv[w].stands
      BY <1>2, <2>1
    <3> QED
      BY <2>1, <3>1, Zenon DEF Kept
  <2>2. CASE v # w
    BY <1>2, <2>2, SamePlan
  <2> QED
    BY <2>1, <2>2
<1> QED
  BY <1>1, <1>2, QuietStep

LEMMA EnqueueNodeKeeps ==
    ASSUME PlanIInv, NEW w \in Workers, NEW n \in Nodes, EnqueueNode(w, n)
    PROVE  Sound
<1>1. /\ TypeOK /\ Claims /\ node[n] \in Rows
      /\ ~late => Started /\ Plans
  BY DEF PlanIInv, TypeOK
<1>2. PICK p : p = [adv[w] EXCEPT !.enqueue = @ \ {n}] /\ Step(w, p)
  BY DEF EnqueueNode
<1>3. /\ p \in Plan /\ p.pc = adv[w].pc /\ p.stands = adv[w].stands
      /\ p.enqueue = adv[w].enqueue \ {n} /\ p.retry = adv[w].retry
      /\ p.cancel = adv[w].cancel /\ p.out = adv[w].out /\ p.error = adv[w].error
  BY <1>1, <1>2, PlanFields DEF Plan
<1>4. /\ adv' \in [Workers -> Plan] /\ adv'[w] = p
      /\ \A v \in Workers \ {w} : adv'[v] = adv[v]
  BY <1>1, <1>2, <1>3, StepType
<1>5. PICK r : /\ r = IF node[n].status = "absent"
                      THEN [node[n] EXCEPT !.status = "pending"] ELSE node[n]
               /\ Write(w, n, r)
  BY DEF EnqueueNode
<1>6. /\ r \in Rows
      /\ r # node[n] => node[n].status = "absent"
  <2>1. "pending" \in Live \cup Ended
    BY DEF Live
  <2> QED
    BY <1>1, <1>5, <2>1, StatusWrite
<1>7. /\ node' = [node EXCEPT ![n] = r]
      /\ late' = (late \/ (~adv[w].stands /\ r # node[n]))
  BY <1>5 DEF Write
<1>8. node' \in [Nodes -> Rows]
  BY <1>1, <1>6, <1>7, RowType
<1>9. /\ spec' = spec /\ run' = run /\ api' = api /\ faults' = faults
      /\ n \in adv[w].enqueue
  BY DEF EnqueueNode
<1>10. late' \in BOOLEAN /\ (~late' => ~late)
  BY <1>7, Zenon
<1>11. TypeOK'
  BY <1>1, <1>4, <1>8, <1>9, <1>10 DEF TypeOK
<1>12. Claims'
  <2>1. \A v \in Workers : /\ adv'[v].stands <=> adv[v].stands
                           /\ adv'[v].pc = "idle" <=> adv[v].pc = "idle"
    BY <1>3, <1>4
  <2> QED
    BY <1>1, <1>9, <2>1, SameClaims
<1>13. CASE r = node[n]
  <2>1. node' = node
    BY <1>1, <1>7, <1>13 DEF TypeOK
  <2>2. /\ adv'[w].stands = adv[w].stands
        /\ adv'[w].enqueue \subseteq adv[w].enqueue
        /\ adv'[w].retry \subseteq adv[w].retry
        /\ adv'[w].cancel = adv[w].cancel
        /\ adv'[w].out = adv[w].out /\ adv'[w].error = adv[w].error
    BY <1>3, <1>4
  <2> QED
    BY <1>4, <1>9, <1>10, <1>11, <1>12, <2>1, <2>2, NoWrite
<1>14. CASE late'
  BY <1>9, <1>11, <1>12, <1>14, LateStep
<1>15. CASE r # node[n] /\ ~late'
  <2>1. ~late /\ adv[w].stands
    BY <1>7, <1>15, Zenon
  <2>2. Current(w)
    BY <1>1, <2>1, Zenon DEF Plans
  <2>3. StatusOf(node, n) = "ready" /\ n \notin adv[w].retry
    BY <1>9, <2>2 DEF Current
  <2>4. StatusOf(node, n) \notin FinalStates
    BY <2>3 DEF FinalStates
  <2>5. Enabled(n)
    <3>1. spec \in Specs /\ node \in [Nodes -> Rows]
      BY <1>1 DEF TypeOK
    <3> QED
      BY <2>3, <3>1, StatusSays DEF Enabled
  <2>6. /\ adv'[w].enqueue \subseteq adv[w].enqueue \ {n}
        /\ adv'[w].retry \subseteq adv[w].retry \ {n}
        /\ adv[w].enqueue \cup adv[w].retry # {}
        /\ adv'[w].out = adv[w].out /\ adv'[w].error = adv[w].error
    BY <1>3, <1>4, <1>9, <2>3
  <2> QED
    BY <1>4, <1>6, <1>7, <1>9, <1>11, <1>12, <2>1, <2>4, <2>5, <2>6, StartStep
<1> QED
  BY <1>13, <1>14, <1>15, Zenon

LEMMA RetryNodeKeeps ==
    ASSUME PlanIInv, NEW w \in Workers, NEW n \in Nodes, RetryNode(w, n)
    PROVE  Sound
<1>1. /\ TypeOK /\ Claims /\ node[n] \in Rows
      /\ ~late => Started /\ Plans
  BY DEF PlanIInv, TypeOK
<1>2. PICK p : p = [adv[w] EXCEPT !.retry = @ \ {n}] /\ Step(w, p)
  BY DEF RetryNode
<1>3. /\ p \in Plan /\ p.pc = adv[w].pc /\ p.stands = adv[w].stands
      /\ p.enqueue = adv[w].enqueue /\ p.retry = adv[w].retry \ {n}
      /\ p.cancel = adv[w].cancel /\ p.out = adv[w].out /\ p.error = adv[w].error
  BY <1>1, <1>2, PlanFields DEF Plan
<1>4. /\ adv' \in [Workers -> Plan] /\ adv'[w] = p
      /\ \A v \in Workers \ {w} : adv'[v] = adv[v]
  BY <1>1, <1>2, <1>3, StepType
<1>5. PICK r : /\ r = IF node[n].status = "failed"
                      THEN [node[n] EXCEPT !.status = "pending", !.due = FALSE,
                                           !.retries = @ + 1]
                      ELSE node[n]
               /\ Write(w, n, r)
  BY DEF RetryNode
<1>6. r \in Rows
  BY <1>1, <1>5, RowWrites
<1>7. /\ node' = [node EXCEPT ![n] = r]
      /\ late' = (late \/ (~adv[w].stands /\ r # node[n]))
  BY <1>5 DEF Write
<1>8. node' \in [Nodes -> Rows]
  BY <1>1, <1>6, <1>7, RowType
<1>9. /\ spec' = spec /\ run' = run /\ api' = api /\ faults' = faults
      /\ n \in adv[w].retry /\ adv[w].enqueue = {}
  BY DEF RetryNode
<1>10. late' \in BOOLEAN /\ (~late' => ~late)
  BY <1>7, Zenon
<1>11. TypeOK'
  BY <1>1, <1>4, <1>8, <1>9, <1>10 DEF TypeOK
<1>12. Claims'
  <2>1. \A v \in Workers : /\ adv'[v].stands <=> adv[v].stands
                           /\ adv'[v].pc = "idle" <=> adv[v].pc = "idle"
    BY <1>3, <1>4
  <2> QED
    BY <1>1, <1>9, <2>1, SameClaims
<1>13. CASE r = node[n]
  <2>1. node' = node
    BY <1>1, <1>7, <1>13 DEF TypeOK
  <2>2. /\ adv'[w].stands = adv[w].stands
        /\ adv'[w].enqueue \subseteq adv[w].enqueue
        /\ adv'[w].retry \subseteq adv[w].retry
        /\ adv'[w].cancel = adv[w].cancel
        /\ adv'[w].out = adv[w].out /\ adv'[w].error = adv[w].error
    BY <1>3, <1>4
  <2> QED
    BY <1>4, <1>9, <1>10, <1>11, <1>12, <2>1, <2>2, NoWrite
<1>14. CASE late'
  BY <1>9, <1>11, <1>12, <1>14, LateStep
<1>15. CASE r # node[n] /\ ~late'
  <2>1. ~late /\ adv[w].stands
    BY <1>7, <1>15, Zenon
  <2>2. Current(w) /\ Started
    BY <1>1, <2>1, Zenon DEF Plans
  <2>3. node[n].status = "failed" /\ node[n].retries < spec.maxRetries[n]
    BY <1>9, <2>2 DEF Current
  <2>4. StatusOf(node, n) \notin FinalStates
    <3>1. spec \in Specs /\ node \in [Nodes -> Rows]
      BY <1>1 DEF TypeOK
    <3>2. StatusOf(node, n) = "retry_wait"
      BY <2>3, <3>1, RowState
    <3> QED
      BY <3>2 DEF FinalStates
  <2>5. Enabled(n)
    BY <2>2, <2>3 DEF Started
  <2>6. /\ adv'[w].enqueue \subseteq adv[w].enqueue \ {n}
        /\ adv'[w].retry \subseteq adv[w].retry \ {n}
        /\ adv[w].enqueue \cup adv[w].retry # {}
        /\ adv'[w].out = adv[w].out /\ adv'[w].error = adv[w].error
    BY <1>3, <1>4, <1>9
  <2> QED
    BY <1>4, <1>6, <1>7, <1>9, <1>11, <1>12, <2>1, <2>4, <2>5, <2>6, StartStep
<1> QED
  BY <1>13, <1>14, <1>15, Zenon

\* What plan_workflow_step promises of its plan.
LEMMA PlanSays ==
    ASSUME TypeOK
    PROVE  LET plan == PlanWorkflowStep(node)
           IN  /\ \A n \in plan.enqueue : n \in Nodes /\ StatusOf(node, n) = "ready"
               /\ \A n \in plan.retry : n \in Nodes /\ StatusOf(node, n) = "retry_wait"
               /\ plan.out # "none" => /\ plan.enqueue = {} /\ plan.retry = {}
                                       /\ LiveNodes(node) \subseteq plan.cancel
               /\ plan.out = "success" => Over
<1> DEFINE plan == PlanWorkflowStep(node)
           st == NodeStates(node)
           In(ss) == {n \in Nodes : st[n].status \in ss}
           aborted == Aborts(st)
           over == In(FinalStates) = Nodes
<1>1. /\ plan.enqueue = IF aborted THEN {} ELSE In({"ready"})
      /\ plan.retry = IF aborted THEN {} ELSE {n \in In({"retry_wait"}) : node[n].due}
      /\ plan.cancel = IF aborted THEN LiveNodes(node) ELSE {}
      /\ plan.out = IF aborted \/ (over /\ In({"failed", "cancelled"}) # {})
                    THEN "failed"
                    ELSE IF over THEN "success" ELSE "none"
  BY DEF PlanWorkflowStep
<1>2. \A n \in Nodes : StatusOf(node, n) = st[n].status
  BY DEF StatusOf
<1>3. \A n \in plan.enqueue : n \in Nodes /\ StatusOf(node, n) = "ready"
  BY <1>1, <1>2
<1>4. \A n \in plan.retry : n \in Nodes /\ StatusOf(node, n) = "retry_wait"
  BY <1>1, <1>2
<1>5. ASSUME over
      PROVE  /\ In({"ready"}) = {} /\ In({"retry_wait"}) = {}
             /\ LiveNodes(node) = {}
  <2>1. \A n \in Nodes : st[n].status \in FinalStates
    BY <1>5
  <2>2. \A n \in Nodes : node[n].status \notin Live
    <3>1. spec \in Specs /\ node \in [Nodes -> Rows]
      BY DEF TypeOK
    <3> QED
      BY <1>2, <2>1, <3>1, RowState DEF FinalStates
  <2> QED
    BY <2>1, <2>2 DEF FinalStates, LiveNodes
<1>6. ASSUME plan.out # "none"
      PROVE  /\ plan.enqueue = {} /\ plan.retry = {}
             /\ LiveNodes(node) \subseteq plan.cancel
  <2>1. CASE aborted
    BY <1>1, <2>1
  <2>2. CASE ~aborted
    <3>1. over
      BY <1>1, <1>6, <2>2
    <3> QED
      BY <1>1, <1>5, <2>2, <3>1
  <2> QED
    BY <2>1, <2>2
<1>7. ASSUME plan.out = "success"
      PROVE  Over
  <2>1. over /\ In({"failed", "cancelled"}) = {}
    BY <1>1, <1>7
  <2>2. \A n \in Nodes : st[n].status \in {"success", "skipped"}
    BY <2>1 DEF FinalStates
  <2> QED
    BY <1>2, <2>2 DEF Over
<1> QED
  BY <1>3, <1>4, <1>6, <1>7

LEMMA ListsKeeps ==
    ASSUME PlanIInv, NEW w \in Workers, Lists(w)
    PROVE  Sound
<1> DEFINE plan == PlanWorkflowStep(node)
<1>1. TypeOK /\ Claims
  BY DEF PlanIInv
<1>2. PICK p : /\ p = [pc |-> "check", stands |-> adv[w].stands,
                       enqueue |-> plan.enqueue, retry |-> plan.retry,
                       cancel |-> plan.cancel, out |-> plan.out,
                       error |-> IF plan.out = "failed" THEN "plan" ELSE "none"]
               /\ Step(w, p)
  BY DEF Lists
<1>3. /\ plan.enqueue \in SUBSET Nodes /\ plan.retry \in SUBSET Nodes
      /\ plan.cancel \in SUBSET Nodes /\ plan.out \in Ended \cup {"none"}
  BY PlanType DEF Ended
<1>4. /\ p.pc = "check" /\ p.stands = adv[w].stands
      /\ p.enqueue = plan.enqueue /\ p.retry = plan.retry
      /\ p.cancel = plan.cancel /\ p.out = plan.out
      /\ p.out = "success" => p.error = "none"
  BY <1>2
<1>5. p \in Plan
  BY <1>1, <1>2, <1>3, PlanFields DEF Plan
<1>6. /\ adv' \in [Workers -> Plan] /\ adv'[w] = p
      /\ \A v \in Workers \ {w} : adv'[v] = adv[v]
  BY <1>1, <1>2, <1>5, StepType
<1>7. /\ spec' = spec /\ run' = run /\ node' = node /\ api' = api
      /\ faults' = faults /\ late' = late /\ adv[w].pc = "list"
  BY DEF Lists
<1>8. TypeOK'
  BY <1>1, <1>6, <1>7 DEF TypeOK
<1>9. Claims'
  <2>1. \A v \in Workers : /\ adv'[v].stands <=> adv[v].stands
                           /\ adv'[v].pc = "idle" <=> adv[v].pc = "idle"
    BY <1>4, <1>6, <1>7
  <2> QED
    BY <1>1, <1>7, <2>1, SameClaims
<1>10. Quiet
  BY <1>7, QuietNone
<1>11. \A n \in Nodes : StatusOf(node, n)' = StatusOf(node, n)
  <2>1. NodeStates(node)' = NodeStates(node)
    BY <1>7, SameStates
  <2> QED
    BY <2>1 DEF StatusOf
<1>12. Current(w)'
  <2>1. spec \in Specs /\ node \in [Nodes -> Rows]
    BY <1>1 DEF TypeOK
  <2>2. \A n \in adv'[w].enqueue : node'[n].status = "absent" /\ StatusOf(node, n)' = "ready"
    BY <1>1, <1>4, <1>6, <1>7, <1>11, <2>1, PlanSays, StatusSays
  <2>3. \A n \in adv'[w].retry :
           node'[n].status = "failed" /\ node'[n].retries < spec'.maxRetries[n]
    BY <1>1, <1>4, <1>6, <1>7, <2>1, PlanSays, StatusSays
  <2> QED
    BY <2>2, <2>3, Zenon DEF Current
<1>13. Concludes(w)'
  <2>1. /\ adv'[w].enqueue = plan.enqueue /\ adv'[w].retry = plan.retry
        /\ adv'[w].cancel = plan.cancel /\ adv'[w].out = plan.out
        /\ adv'[w].out = "success" => adv'[w].error = "none"
    BY <1>4, <1>6
  <2>2. LiveNodes(node)' = LiveNodes(node)
    BY <1>7 DEF LiveNodes
  <2>3. /\ plan.out # "none" => /\ plan.enqueue = {} /\ plan.retry = {}
                                /\ LiveNodes(node) \subseteq plan.cancel
        /\ plan.out = "success" => Over
    BY <1>1, PlanSays
  <2>4. Over => Over'
    BY <1>1, <1>7, <1>10, QuietOver
  <2>5. adv'[w].out # "none" => /\ adv'[w].enqueue = {} /\ adv'[w].retry = {}
                                /\ \A n \in LiveNodes(node)' : n \in adv'[w].cancel
    <3> HIDE DEF plan
    <3> QED
      BY <2>1, <2>2, <2>3
  <2>6. adv'[w].out = "success" => Over' /\ adv'[w].error = "none"
    BY <2>1, <2>3, <2>4
  <2> QED
    BY <2>5, <2>6, Zenon DEF Concludes
<1>14. \A v \in Workers : adv'[v].stands =>
          Kept(v) \/ (Current(v)' /\ Concludes(v)')
  BY <1>6, <1>12, <1>13, SamePlan
<1> QED
  BY <1>7, <1>8, <1>9, <1>10, <1>14, QuietStep

LEMMA PropagatesKeeps ==
    ASSUME PlanIInv, NEW w \in Workers, Propagates(w)
    PROVE  Sound
<1>1. TypeOK /\ Claims
  BY DEF PlanIInv
<1>2. PICK p : /\ p = [NoPlan EXCEPT !.pc = "apply", !.stands = adv[w].stands,
                                     !.cancel = LiveNodes(node),
                                     !.out = "cancelled"]
               /\ Step(w, p)
  BY DEF Propagates
<1>3. LiveNodes(node) \in SUBSET Nodes
  BY DEF LiveNodes
<1>4. /\ p \in Plan /\ p.pc = "apply" /\ p.stands = adv[w].stands
      /\ p.enqueue = {} /\ p.retry = {} /\ p.cancel = LiveNodes(node)
      /\ p.out = "cancelled"
  BY <1>1, <1>2, <1>3, PlanFields DEF NoPlan, Plan, Ended
<1>5. /\ adv' \in [Workers -> Plan] /\ adv'[w] = p
      /\ \A v \in Workers \ {w} : adv'[v] = adv[v]
  BY <1>1, <1>2, <1>4, StepType
<1>6. /\ spec' = spec /\ run' = run /\ node' = node /\ api' = api
      /\ faults' = faults /\ late' = late /\ adv[w].pc # "idle"
  BY DEF Propagates
<1>7. TypeOK'
  BY <1>1, <1>5, <1>6 DEF TypeOK
<1>8. Claims'
  <2>1. \A v \in Workers : /\ adv'[v].stands <=> adv[v].stands
                           /\ adv'[v].pc = "idle" <=> adv[v].pc = "idle"
    BY <1>4, <1>5, <1>6
  <2> QED
    BY <1>1, <1>6, <2>1, SameClaims
<1>9. Quiet
  BY <1>6, QuietNone
<1>10. Current(w)' /\ Concludes(w)'
  <2>1. /\ adv'[w].enqueue = {} /\ adv'[w].retry = {}
        /\ adv'[w].out # "success"
        /\ \A n \in LiveNodes(node)' : n \in adv'[w].cancel
    BY <1>4, <1>5, <1>6 DEF LiveNodes
  <2>2. Current(w)'
    BY <2>1 DEF Current
  <2>3. Concludes(w)'
    BY <2>1, Zenon DEF Concludes
  <2> QED
    BY <2>2, <2>3
<1>11. \A v \in Workers : adv'[v].stands =>
          Kept(v) \/ (Current(v)' /\ Concludes(v)')
  BY <1>5, <1>10, SamePlan
<1> QED
  BY <1>6, <1>7, <1>8, <1>9, <1>11, QuietStep

LEMMA SettlesKeeps ==
    ASSUME PlanIInv, NEW w \in Workers, Settles(w)
    PROVE  Sound
<1>1. TypeOK /\ Claims /\ (~late => Started /\ Plans)
  BY DEF PlanIInv
<1>2. /\ adv' \in [Workers -> Plan] /\ adv'[w] = NoPlan
      /\ \A v \in Workers \ {w} : adv'[v] = adv[v]
  BY <1>1, NoPlanType, StepType DEF Settles
<1>3. /\ spec' = spec /\ node' = node /\ api' = api
      /\ faults' = faults /\ late' = late
      /\ adv[w].pc = "apply" /\ adv[w].cancel = {} /\ adv[w].out # "none"
  BY DEF Settles, Applied
<1>4. \/ run' = run
      \/ /\ Owns(w) /\ run' \in RunRow
         /\ run'.status = adv[w].out /\ run'.error = adv[w].error
  <2>1. PICK s \in Ended, e \in {"none", "plan", "raised"} :
           s = adv[w].out /\ e = adv[w].error
    BY <1>1, <1>3, PlanFields
  <2>2. PICK c \in BOOLEAN : c = (run.cancel \/ adv[w].out = "cancelled")
    OBVIOUS
  <2>3. PICK row : row = [run EXCEPT !.status = s, !.error = e, !.cancel = c]
    OBVIOUS
  <2>4. row \in RunRow /\ row.status = s /\ row.error = e
    BY <1>1, <2>3 DEF TypeOK, RunRow
  <2>5. run' = run \/ (Owns(w) /\ run' = row)
    BY <2>1, <2>2, <2>3, Zenon DEF Settles
  <2> QED
    BY <2>1, <2>4, <2>5, Zenon
<1>5. TypeOK'
  BY <1>1, <1>2, <1>3, <1>4 DEF TypeOK
<1>6. ~adv'[w].stands /\ adv'[w].pc = "idle"
  BY <1>2, NoPlanType
<1>7. Quiet
  BY <1>3, QuietNone
<1>8. CASE run' = run
  <2>1. Claims'
    BY <1>1, <1>2, <1>6, <1>8, DroppedClaim
  <2>2. \A v \in Workers : adv'[v].stands => Kept(v)
    BY <1>2, <1>6, SamePlan
  <2> QED
    BY <1>3, <1>5, <1>7, <1>8, <2>1, <2>2, QuietStep
<1>9. CASE Owns(w) /\ run'.status = adv[w].out /\ run'.error = adv[w].error
  <2>1. adv[w].stands
    BY <1>1, <1>3, <1>9 DEF Claims, Owns
  <2>2. \A v \in Workers : ~adv'[v].stands
    BY <1>1, <1>2, <1>6, <2>1, OneClaim
  <2>3. run'.status \in Ended /\ run'.status # "running"
    BY <1>1, <1>3, <1>9, PlanFields DEF Ended
  <2>4. Claims'
    BY <2>2, <2>3, Zenon DEF Claims
  <2>5. ~late => Concludes(w) /\ Started
    BY <1>1, <2>1, Zenon DEF Plans
  <2>6. ~late' => Started' /\ Plans'
    <3>1. Plans'
      BY <2>2, Zenon DEF Plans
    <3>2. ~late => Started'
      BY <1>1, <1>3, <1>7, <2>5, QuietStarted
    <3> QED
      BY <1>3, <3>1, <3>2
  <2>7. ~late' => Succeeded'
    <3>1. SUFFICES ASSUME ~late', run'.status = "success" PROVE Over'
      BY DEF Succeeded
    <3>2. Over
      BY <1>3, <1>9, <2>5, <3>1, Zenon DEF Concludes
    <3> QED
      BY <1>1, <1>3, <1>7, <3>2, QuietOver
  <2>8. NoOrphans'
    <3>1. SUFFICES ASSUME run'.error # "raised", ~late', NEW n \in LiveNodes(node)'
                   PROVE  node'[n].cancel
      BY Zenon DEF NoOrphans
    <3>2. n \in LiveNodes(node)
      BY <1>7, <3>1, QuietLive
    <3>3. ~late /\ adv[w].error # "raised"
      BY <1>3, <1>9, <3>1
    <3>4. n \in adv[w].cancel \/ node[n].cancel
      BY <1>3, <2>5, <3>2, <3>3, Zenon DEF Concludes
    <3> QED
      BY <1>3, <3>4
  <2>9. KeepsFinal(node, node')
    BY <1>1, <1>7, QuietKeeps
  <2> QED
    BY <1>3, <1>5, <2>4, <2>6, <2>7, <2>8, <2>9, Zenon DEF PlanIInv, Sound
<1> QED
  BY <1>4, <1>8, <1>9

----------------------------------------------------------------------------
(* The theorems.                                                            *)

LEMMA InitPlan ==
    ASSUME Init
    PROVE  PlanIInv
<1>1. TypeOK
  <2>1. run \in RunRow
    BY DEF Init, RunRow, Live
  <2>2. node \in [Nodes -> Rows]
    BY DEF Init, Rows
  <2>3. adv \in [Workers -> Plan]
    BY NoPlanType DEF Init
  <2>4. api \in [pc : {"idle", "run", "nodes"}, todo : SUBSET Nodes,
                 pending : SUBSET Nodes]
    BY DEF Init
  <2>5. faults \in 0 .. MaxFaults
    BY WorkflowAssumption DEF Init
  <2>6. spec \in Specs /\ late \in BOOLEAN
    BY Zenon DEF Init
  <2> QED
    BY <2>1, <2>2, <2>3, <2>4, <2>5, <2>6 DEF TypeOK
<1>2. \A w \in Workers : adv[w].stands = FALSE /\ adv[w].pc = "idle"
  BY NoPlanType DEF Init
<1>3. run.status = "pending" /\ \A n \in Nodes : node[n].status = "absent"
  BY DEF Init
<1>4. Claims /\ Plans
  BY <1>2, <1>3 DEF Claims, Plans
<1>5. Started /\ Succeeded /\ NoOrphans
  BY <1>3 DEF Started, Succeeded, NoOrphans, Ended
<1> QED
  BY <1>1, <1>4, <1>5 DEF PlanIInv

LEMMA NextPlan ==
    ASSUME PlanIInv, [Next]_vars
    PROVE  Sound
<1>1. CASE UNCHANGED vars
  <2>1. TypeOK' /\ Claims'
    <3>1. TypeOK /\ Claims
      BY DEF PlanIInv
    <3>2. TypeOK'
      BY <1>1, <3>1 DEF TypeOK, vars
    <3>3. Claims'
      BY <1>1, <3>1 DEF Claims, vars
    <3> QED
      BY <3>2, <3>3
  <2>2. /\ spec' = spec /\ run' = run /\ node' = node /\ adv' = adv /\ late' = late
    BY <1>1 DEF vars
  <2>3. Quiet /\ \A w \in Workers : adv'[w].stands => Kept(w)
    BY <2>2, QuietNone, SamePlan
  <2> QED
    BY <2>1, <2>2, <2>3, QuietStep
<1>2. ASSUME NEW w \in Workers, Advances(w) \/ Raises(w) \/ Crash(w)
      PROVE  Sound
  BY <1>2, ClaimKeeps, ListsKeeps, ChecksKeeps, PropagatesKeeps, EnqueueNodeKeeps,
     RetryNodeKeeps, CancelNodeKeeps, YieldsKeeps, SettlesKeeps, RaisesKeeps,
     CrashKeeps DEF Advances
<1> QED
  BY <1>1, <1>2, ReapRunKeeps, QueueKeeps, RequestKeeps, ApiCancelsNodeKeeps DEF Next

LEMMA PlanIInvImplies ==
    ASSUME PlanIInv
    PROVE  PlanInv
<1>1. TypeOK /\ NoOrphans /\ (~late => Started /\ Succeeded)
  BY DEF PlanIInv
<1>2. SuccessMeansDone
  <2>1. SUFFICES ASSUME run.status = "success", ~late PROVE AllDone
    BY DEF SuccessMeansDone
  <2>2. Over
    BY <1>1, <2>1 DEF Succeeded
  <2> QED
    BY <1>1, <2>2, OverIsDone
<1>3. UpstreamFirst
  <2>1. CASE late
    BY <2>1 DEF UpstreamFirst
  <2>2. CASE ~late
    BY <1>1, <2>2, StartedUpstream
  <2> QED
    BY <2>1, <2>2
<1>4. RoutesExclusive
  <2>1. CASE late
    BY <2>1 DEF RoutesExclusive
  <2>2. CASE ~late
    BY <1>1, <2>2, StartedRoutes
  <2> QED
    BY <2>1, <2>2
<1> QED
  BY <1>1, <1>2, <1>3, <1>4 DEF PlanInv

LEMMA PlanIsInductive == Spec => []PlanIInv
<1>1. Init => PlanIInv
  BY InitPlan
<1>2. PlanIInv /\ [Next]_vars => PlanIInv'
  BY NextPlan DEF Sound
<1> QED
  BY <1>1, <1>2, PTL DEF Spec

\* The plan of a run is safe (plan_workflow_step, _execute_workflow_run): for
\* every set of valid specs, every number of nodes, workers, retries and
\* faults, a success leaves nothing to run, a node starts only after what it
\* depends on is over for good, routes exclude each other, and a run that is
\* over has told its live nodes to stop.
THEOREM PlanIsSafe == Spec => []PlanInv
<1>1. PlanIInv => PlanInv
  BY PlanIInvImplies
<1> QED
  BY <1>1, PlanIsInductive, PTL

\* What the API shows of a node: cancelled, if the run was over before it was.
LEMMA ItemIs ==
    ASSUME NEW rows, NEW status, NEW n \in Nodes
    PROVE  LET st   == NodeStates(rows)
               over == Aborts(st) \/ status \in {"failed", "cancelled"}
           IN  NodeItems(rows, status)[n].status =
                  IF over /\ st[n].status \notin FinalStates THEN "cancelled"
                  ELSE st[n].status
BY Zenon DEF NodeItems, PlannedStates, Relabelled, State, FinalStates

\* A run that failed or was cancelled stays so: only a live one is claimed,
\* settled, given back or reaped.
LEMMA RunStands ==
    ASSUME PlanIInv, [Next]_vars, run.status \in {"failed", "cancelled"}
    PROVE  run'.status = run.status
<1>1. CASE UNCHANGED vars
  BY <1>1 DEF vars
<1>2. ASSUME NEW w \in Workers, Advances(w) \/ Raises(w) \/ Crash(w)
      PROVE  run'.status = run.status
  BY <1>2 DEF Advances, Claim, Lists, Checks, Propagates, EnqueueNode, RetryNode,
              CancelNode, Yields, Settles, Owns, Raises, Crash
<1>3. CASE \E n \in Nodes : \/ NodeStarts(n) \/ NodeEnds(n) \/ NodeReaped(n)
                            \/ BackoffPasses(n) \/ CancelJob(n)
  BY <1>3 DEF NodeStarts, NodeEnds, NodeReaped, BackoffPasses, CancelJob, NodeMoves
<1>4. CASE CancelWorkflowRun \/ ApiCancelsRun \/ \E n \in Nodes : ApiCancelsNode(n)
  <2>1. run \in RunRow
    BY DEF PlanIInv, TypeOK
  <2> QED
    BY <1>4, <2>1 DEF CancelWorkflowRun, ApiCancelsRun, ApiCancelsNode, RunRow
<1>5. CASE ReapRun
  BY <1>5 DEF ReapRun
<1> QED
  BY <1>1, <1>2, <1>3, <1>4, <1>5 DEF Next

\* What the API shows of a node as over is never shown as going on again and,
\* but for a node called cancelled because its run was over before it, never
\* taken back, as long as no advancer has written without a claim
\* (plan_workflow_step, _workflow_run_node_items).
THEOREM FinalIsFinal == Spec => DecisionsStand
<1> DEFINE Old(n) == NodeItems(node, run.status)[n].status
           New(n) == NodeItems(node', run'.status)[n].status
<1>1. ASSUME PlanIInv, [Next]_vars, ~late', NEW n \in Nodes, Old(n) \in FinalStates
      PROVE  /\ New(n) \in FinalStates
             /\ Old(n) # "cancelled" \/ node[n].status = "cancelled" => New(n) = Old(n)
  <2> DEFINE st == NodeStates(node)
             st2 == NodeStates(node')
  <2>1. TypeOK /\ spec' = spec /\ KeepsFinal(node, node')
    BY <1>1, NextPlan DEF PlanIInv, Sound
  <2>2. \A m \in Nodes : st[m].status \in FinalStates => st2[m] = st[m]
    BY <2>1, FinalStands DEF StatusOf, TypeOK
  <2>3. Old(n) = IF /\ Aborts(st) \/ run.status \in {"failed", "cancelled"}
                    /\ st[n].status \notin FinalStates
                 THEN "cancelled" ELSE st[n].status
    BY ItemIs
  <2>4. New(n) = IF /\ Aborts(st2) \/ run'.status \in {"failed", "cancelled"}
                    /\ st2[n].status \notin FinalStates
                 THEN "cancelled" ELSE st2[n].status
    BY ItemIs
  <2> HIDE DEF Old, New, st, st2
  <2>5. CASE st[n].status \in FinalStates
    BY <2>2, <2>3, <2>4, <2>5
  <2>6. CASE st[n].status \notin FinalStates
    <3>1. Old(n) = "cancelled"
      BY <1>1, <2>3, <2>6
    <3>2. Aborts(st) => Aborts(st2)
      BY <2>2 DEF Aborts, FinalStates
    <3>3. run.status \in {"failed", "cancelled"} => run'.status \in {"failed", "cancelled"}
      BY <1>1, RunStands
    <3>4. New(n) \in FinalStates
      BY <1>1, <2>3, <2>4, <2>6, <3>2, <3>3 DEF FinalStates
    <3>5. node[n].status # "cancelled"
      <4>1. spec \in Specs
        BY <2>1 DEF TypeOK
      <4>2. st[n] = StateOf(node, st, n)
        BY <4>1, StatesAre DEF st
      <4>3. node[n].status = "cancelled" => st[n] = State("cancelled")
        BY <4>2 DEF StateOf, StateFromChild, Live
      <4> QED
        BY <2>6, <4>3 DEF State, FinalStates
    <3> QED
      BY <3>1, <3>4, <3>5
  <2> QED
    BY <2>5, <2>6
<1>2. PlanIInv /\ [Next]_vars =>
         [~late' => \A n \in Nodes : Old(n) \in FinalStates =>
              /\ New(n) \in FinalStates
              /\ Old(n) # "cancelled" \/ node[n].status = "cancelled"
                    => New(n) = Old(n)]_<<node, run>>
  <2> HIDE DEF Old, New
  <2> QED
    BY <1>1
<1> QED
  BY <1>2, PlanIsInductive, PTL DEF DecisionsStand, Spec
=============================================================================
