-------------------------- MODULE MCWorkflowRuntime --------------------------
(* A small instance of the workflow runtime. *)
EXTENDS WorkflowRuntime, TLC

CONSTANTS n1, n2, c1, c2, key

\* A dependency against the order of declaration, and a cycle.
Backward == [nodes |-> <<n2, n1>>, deps |-> n1 :> <<>> @@ n2 :> <<n1>>]
Cycle    == [nodes |-> <<n1, n2>>, deps |-> n1 :> <<n2>> @@ n2 :> <<n1>>]

Graphs   == {Backward, Cycle}
TwoTries == n1 :> 2 @@ n2 :> 1
Asks     == n1 :> {"completed"} @@ n2 :> {"skipped", "awaiting_approval"}
SameKey  == [c \in Call |-> key]

\* topologicalSort on every graph of three nodes whose dependencies are listed
\* in any order, declared or not: what it accepts it sorts.
Three == 1 .. 3
SomeDeps == { s \in UNION { [1 .. l -> Three] : l \in 0 .. 2 } : IsInjective(s) }
SomeNodes == { s \in UNION { [1 .. l -> Three] : l \in 0 .. 3 } : TRUE }

ASSUME EverySmallGraphIsSorted ==
  \A ns \in SomeNodes, ds \in [Three -> SomeDeps] :
    LET d == [nodes |-> ns, deps |-> ds]
    IN  Sortable(d, 3) => TopologicalOrder(d, Sorted(d))
=============================================================================
