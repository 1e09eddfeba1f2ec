--------------------------- MODULE TopologicalSort ---------------------------
(***************************************************************************)
(* topologicalSort of src/lib/control-plane/runtime.ts.  A definition is a  *)
(* record: nodes, the ids in the order they are declared, and deps, the     *)
(* sequence of dependencies of each id.  The visit of the code, a depth-    *)
(* first search that skips what is already placed, places the nodes in the  *)
(* order in which they occur first in the post-order of the unfolded graph. *)
(***************************************************************************)
EXTENDS Naturals, Sequences, SequencesExt

\* Post-order of the unfolding below each node, to a depth.
Unfolding(d, depth) ==
  LET under[k \in 0 .. depth] ==
        [n \in DOMAIN d.deps |->
           IF k = 0 THEN <<n>>
           ELSE Append(FlattenSeq([i \in DOMAIN d.deps[n] |-> under[k - 1][d.deps[n][i]]]), n)]
  IN  under[depth]

FirstOccurrences(s) ==
  FoldLeft(LAMBDA placed, n : IF n \in ToSet(placed) THEN placed ELSE Append(placed, n), <<>>, s)

Depends(d, n) == ToSet(d.deps[n])

\* The nodes below one or more dependencies of n.
Below(d, n) ==
  LET reach[k \in 0 .. Len(d.nodes)] ==
        IF k = 0 THEN Depends(d, n)
        ELSE reach[k - 1] \cup UNION { Depends(d, m) : m \in reach[k - 1] }
  IN  reach[Len(d.nodes)]

\* What the sort rejects: too many nodes, an id declared twice, a dependency
\* that is not declared, a cycle.
Sortable(d, maxIterations) ==
  /\ Len(d.nodes) <= maxIterations
  /\ IsInjective(d.nodes)
  /\ \A n \in ToSet(d.nodes) : Depends(d, n) \subseteq ToSet(d.nodes)
  /\ \A n \in ToSet(d.nodes) : n \notin Below(d, n)

Sorted(d) ==
  FirstOccurrences(FlattenSeq(
    [i \in DOMAIN d.nodes |-> Unfolding(d, Len(d.nodes))[d.nodes[i]]]))

\* The reference definition: every node once, after its dependencies.
TopologicalOrder(d, s) ==
  /\ ToSet(s) = ToSet(d.nodes) /\ IsInjective(s)
  /\ \A i \in DOMAIN s : \A n \in Depends(d, s[i]) : \E j \in 1 .. i - 1 : s[j] = n
=============================================================================
