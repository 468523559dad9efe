--------------------------- MODULE MCWorkflowRun ---------------------------
(* WorkflowRun for TLC: small specs with every kind of route. *)
EXTENDS WorkflowRun, TLC

E(src, dst, trigger, when, default) ==
    [src |-> src, dst |-> dst, trigger |-> trigger, when |-> when,
     default |-> default]

Then(src, dst) == E(src, dst, "success", "none", FALSE)

All(x) == [n \in Nodes |-> x]

\* a, with compensation c; b on success.
Compensation ==
    [edges |-> <<Then("a", "b"), E("a", "c", "failure", "none", TRUE)>>,
     branch |-> {}, onFailure |-> [All("continue") EXCEPT !["a"] = "branch"],
     eval |-> All("run"), maxRetries |-> [All(0) EXCEPT !["a"] = 1]]

\* a and b side by side, c after both; a failure aborts.
FanIn ==
    [edges |-> <<Then("a", "c"), Then("b", "c")>>, branch |-> {},
     onFailure |-> [All("abort") EXCEPT !["b"] = "continue"],
     eval |-> All("run"), maxRetries |-> All(0)]

\* b after a, or after a's compensation c: the routes meet again.
Rejoin ==
    [edges |-> <<Then("a", "b"), E("a", "c", "failure", "none", TRUE),
                 Then("c", "b")>>,
     branch |-> {}, onFailure |-> [All("continue") EXCEPT !["a"] = "branch"],
     eval |-> All("run"), maxRetries |-> All(0)]

\* A branch whose condition is true, or raises; the targets
\* of the branch fail without stopping the rest.
Branch(when) ==
    [edges |-> <<E("a", "b", "success", when, FALSE),
                 E("a", "c", "success", "none", TRUE)>>,
     branch |-> {"a"}, onFailure |-> All("continue"), eval |-> All("run"),
     maxRetries |-> All(0)]

\* A chain: b is skipped by its condition, or cannot be evaluated.
Chain(eval) ==
    [edges |-> <<Then("a", "b"), Then("b", "c")>>, branch |-> {},
     onFailure |-> All("continue"), eval |-> [All("run") EXCEPT !["b"] = eval],
     maxRetries |-> All(0)]

MCSpecs ==
    {Compensation, FanIn, Rejoin, Chain("skip"), Chain("error")}
       \cup {Branch(when) : when \in {"true", "error"}}

Symmetry == Permutations(Workers)
=============================================================================
