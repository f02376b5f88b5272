--------------------------- MODULE DependencySort ---------------------------
(***************************************************************************)
(* Building and sorting the dependency graph of a run (pkg/object/graph:   *)
(* depends.go, graph.go), one object and one round of the sort at a time.  *)
(* What comes out decides in which order a run touches the cluster.        *)
(***************************************************************************)
EXTENDS DependencyGraph, FiniteSets

CONSTANTS Ids,       \* identifiers an annotation may name
          Vertices,  \* the objects of the run
          Implicits  \* sets of edges to definitions and namespaces

ASSUME SortAssumption ==
    /\ Vertices \subseteq Ids /\ IsFiniteSet(Vertices)
    /\ \A g \in Implicits : g \subseteq Vertices \X Vertices

VARIABLES
    edges,         \* Graph.edges: the objects each vertex depends on
    reverseEdges,  \* Graph.reverseEdges: the objects that depend on each vertex
    todo,          \* objects whose annotations were not read
    invalid,       \* objects of the validation errors collected so far
    left,          \* the vertices of the copy that Sort takes apart
    rest,          \* the edges of the copy
    sorted,        \* the layers found so far
    phase          \* building, sorting, sorted, cyclic

graphVars == <<edges, reverseEdges, todo>>
sortVars == <<left, rest, sorted>>
vars == <<graphVars, invalid, sortVars, phase>>

Adjacency == [Vertices -> SUBSET Vertices]

TypeOK ==
    /\ edges \in Adjacency
    /\ reverseEdges \in Adjacency
    /\ todo \subseteq Vertices
    /\ invalid \subseteq Vertices
    /\ left \subseteq Vertices
    /\ rest \in Adjacency
    /\ sorted \in Seq(SUBSET Vertices)
    /\ phase \in {"building", "sorting", "sorted", "cyclic"}

\* addVertices, addCRDEdges and addNamespaceEdges.
Init ==
    /\ \E g \in Implicits :
          /\ edges = [v \in Vertices |-> {w \in Vertices : <<v, w>> \in g}]
          /\ reverseEdges = [v \in Vertices |-> {w \in Vertices : <<w, v>> \in g}]
    /\ todo = Vertices
    /\ invalid = {}
    /\ left = {} /\ rest = [v \in Vertices |-> {}] /\ sorted = <<>>
    /\ phase = "building"

\* AddEdge from v to each object of a set of the run.
AddEdges(v, tos) ==
    /\ edges' = [edges EXCEPT ![v] = @ \cup tos]
    /\ reverseEdges' = [w \in Vertices |->
           IF w \in tos THEN reverseEdges[w] \cup {v} ELSE reverseEdges[w]]

\* Mutant: an external dependency is an error, and an edge all the same.
ReadAnnotationKeep(v) ==
    /\ phase = "building" /\ v \in todo
    /\ todo' = todo \ {v}
    /\ \E deps \in SUBSET Ids :
          /\ AddEdges(v, deps)
          /\ invalid' = IF deps \subseteq Vertices THEN invalid ELSE invalid \cup {v}
    /\ UNCHANGED <<sortVars, phase>>

\* addDependsOnEdges and addApplyTimeMutationEdges for one object.  An
\* annotation that cannot be read gives an error and no edge; one that names
\* an object twice, or one that is not in the run, gives an error, and the
\* edges to the others.
ReadAnnotation(v) ==
    /\ phase = "building" /\ v \in todo
    /\ todo' = todo \ {v}
    /\ \/ /\ invalid' = invalid \cup {v}
          /\ UNCHANGED <<edges, reverseEdges>>
       \/ \E deps \in SUBSET Ids, duplicate \in BOOLEAN :
             /\ AddEdges(v, deps \cap Vertices)
             /\ invalid' = IF duplicate \/ ~(deps \subseteq Vertices)
                             THEN invalid \cup {v} ELSE invalid
    /\ UNCHANGED <<sortVars, phase>>

\* Sort works on a copy of the edges.
StartSort ==
    /\ phase = "building" /\ todo = {}
    /\ left' = Vertices /\ rest' = edges
    /\ phase' = "sorting"
    /\ UNCHANGED <<graphVars, invalid, sorted>>

\* Mutant: off by one.
LeafOffByOne == {v \in left : Cardinality(rest[v]) <= 1}

Leaf == {v \in left : rest[v] = {}}

\* Mutant: the edges to the removed vertices stay.
RemoveVerticesOnly(vs) ==
    /\ left' = left \ vs
    /\ UNCHANGED rest

\* removeVertex for every leaf.
RemoveVertices(vs) ==
    /\ left' = left \ vs
    /\ rest' = [v \in Vertices |-> IF v \in vs THEN {} ELSE rest[v] \ vs]

\* Mutant: a round takes one leaf only.
SortRoundOne ==
    /\ phase = "sorting" /\ left # {} /\ Leaf # {}
    /\ \E v \in Leaf : RemoveVertices({v}) /\ sorted' = Append(sorted, {v})
    /\ UNCHANGED <<graphVars, invalid, phase>>

\* One round of the loop.
SortRound ==
    /\ phase = "sorting" /\ left # {} /\ Leaf # {}
    /\ RemoveVertices(Leaf)
    /\ sorted' = Append(sorted, Leaf)
    /\ UNCHANGED <<graphVars, invalid, phase>>

\* Mutant: the objects of the error are not collected.
EndSortSilent ==
    /\ phase = "sorting"
    /\ \/ left = {} /\ phase' = "sorted"
       \/ left # {} /\ Leaf = {} /\ phase' = "cyclic"
    /\ UNCHANGED <<graphVars, invalid, sortVars>>

\* Mutant: no check for cycles.
EndSortNoCycles ==
    /\ phase = "sorting" /\ left = {}
    /\ phase' = "sorted"
    /\ UNCHANGED <<graphVars, invalid, sortVars>>

\* The loop ends: everything is sorted, or what is left is the error.
EndSort ==
    /\ phase = "sorting"
    /\ \/ /\ left = {}
          /\ phase' = "sorted"
          /\ UNCHANGED invalid
       \/ /\ left # {} /\ Leaf = {}
          /\ phase' = "cyclic"
          /\ invalid' = invalid \cup left
    /\ UNCHANGED <<graphVars, sortVars>>

Next == (\E v \in Vertices : ReadAnnotation(v)) \/ StartSort \/ SortRound \/ EndSort

Spec == Init /\ [][Next]_vars

\* A sequential program: it goes on while it can.
FairSpec == Spec /\ WF_vars(Next)

----------------------------------------------------------------------------
(* Properties.                                                             *)

\* The apply order reads the graph forwards and the prune filter backwards:
\* both directions hold the same edges (graph.go:61-82).
MirroredEdges ==
    \A v, w \in Vertices : w \in edges[v] <=> v \in reverseEdges[w]

\* The copy that is taken apart has exactly the edges of the graph between the
\* vertices that are left (graph.go:114-121, 146-177).
CopyFollowsGraph ==
    phase # "building" => \A v \in left : rest[v] = edges[v] \cap left

\* Every dependency of a sorted object is in an earlier layer, so it is applied
\* and waited for before the object, and deleted after it.
LayersRespectEdges ==
    \A j \in DOMAIN sorted : \A v \in sorted[j] : \A w \in edges[v] :
        phase # "building" => \E i \in 1 .. j - 1 : w \in sorted[i]

\* What the error names cannot be ordered: every one of those objects depends
\* on another of them; so an acyclic graph is never refused.
CycleIsReal ==
    phase = "cyclic" => \A v \in left : edges[v] \cap left # {}

\* No object is in two layers, or in none without being reported as part of
\* a cycle that is real (graph.go:166-177, solver.go:142-149).
NothingLost ==
    /\ phase # "building" =>
          /\ Members(sorted) \cup left = Vertices
          /\ \A i, j \in DOMAIN sorted : i # j => sorted[i] \cap sorted[j] = {}
          /\ Members(sorted) \cap left = {}
          /\ phase = "sorted" => left = {}
          /\ phase = "cyclic" => left # {} /\ left \subseteq invalid
    /\ CycleIsReal

\* The operator the other modules plan runs with computes the same layers.
AgreesWithSortLayers ==
    phase \in {"sorted", "cyclic"} =>
        LET g == {e \in Vertices \X Vertices : e[2] \in edges[e[1]]}
        IN  /\ sorted = SortLayers(Vertices, g)
            /\ left = CyclicVertices(Vertices, g)

\* The sort ends on every graph, also on one with cycles.
SortEnds == <>(phase \in {"sorted", "cyclic"})
=============================================================================
