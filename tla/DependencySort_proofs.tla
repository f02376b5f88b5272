----------------------- MODULE DependencySort_proofs -----------------------
(***************************************************************************)
(* What DependencySort guarantees for any number of objects and any        *)
(* annotations.                                                            *)
(***************************************************************************)
EXTENDS DependencySort, Solver_proofs

\* Before the sort nothing is sorted; from then on the copy is the part of the
\* graph that is not sorted.
SortInv ==
    /\ TypeOK
    /\ phase = "building" => sorted = <<>> /\ left = {}
    /\ CopyFollowsGraph
    /\ LayersRespectEdges
    /\ NothingLost

\* Init gives every variable a value of its type and both directions of the
\* graph the same edges (depends.go:31-39).
LEMMA SortInit ==
    Init => SortInv /\ MirroredEdges
<1> SUFFICES ASSUME Init PROVE SortInv /\ MirroredEdges
  OBVIOUS
<1>1. PICK g \in Implicits :
          /\ edges = [v \in Vertices |-> {w \in Vertices : <<v, w>> \in g}]
          /\ reverseEdges = [v \in Vertices |-> {w \in Vertices : <<w, v>> \in g}]
  BY DEF Init
<1>2. edges \in Adjacency /\ reverseEdges \in Adjacency
  BY <1>1 DEF Adjacency
<1>3. rest \in Adjacency
  BY DEF Init, Adjacency
<1>4. TypeOK
  BY <1>2, <1>3 DEF Init, TypeOK
<1>5. MirroredEdges
  BY <1>1 DEF MirroredEdges
<1>6. sorted = <<>> /\ left = {} /\ phase = "building"
  BY DEF Init
<1> QED
  BY <1>4, <1>5, <1>6
     DEF SortInv, CopyFollowsGraph, LayersRespectEdges, NothingLost, CycleIsReal

\* AddEdge keeps the adjacency maps well formed and mirrored (graph.go:61-82).
LEMMA AddEdgesMirrored ==
    ASSUME TypeOK, MirroredEdges, NEW v \in Vertices, NEW tos \in SUBSET Vertices,
           AddEdges(v, tos)
    PROVE  edges' \in Adjacency /\ reverseEdges' \in Adjacency /\ MirroredEdges'
BY DEF TypeOK, Adjacency, MirroredEdges, AddEdges

\* Every step keeps the types, and both directions of the graph alike.
LEMMA GraphStep ==
    ASSUME TypeOK, MirroredEdges, [Next]_vars
    PROVE  TypeOK' /\ MirroredEdges'
<1>1. ASSUME NEW v \in Vertices, ReadAnnotation(v)
      PROVE  TypeOK' /\ MirroredEdges'
  <2>1. edges' \in Adjacency /\ reverseEdges' \in Adjacency /\ MirroredEdges'
    <3>1. CASE UNCHANGED <<edges, reverseEdges>>
      BY <3>1 DEF TypeOK, MirroredEdges
    <3>2. CASE \E deps \in SUBSET Ids : AddEdges(v, deps \cap Vertices)
      BY <3>2, AddEdgesMirrored
    <3> QED
      BY <1>1, <3>1, <3>2 DEF ReadAnnotation
  <2>2. invalid' \subseteq Vertices
    BY <1>1 DEF ReadAnnotation, TypeOK
  <2> QED
    BY <1>1, <2>1, <2>2 DEF ReadAnnotation, sortVars, TypeOK
<1>2. CASE StartSort
  BY <1>2 DEF StartSort, graphVars, TypeOK, MirroredEdges
<1>3. CASE SortRound
  <2>1. rest' \in Adjacency /\ left' \subseteq Vertices
    BY <1>3 DEF SortRound, RemoveVertices, Adjacency, TypeOK
  <2>2. Leaf \subseteq Vertices
    BY DEF Leaf, TypeOK
  <2>3. sorted' \in Seq(SUBSET Vertices)
    BY <1>3, <2>2 DEF SortRound, TypeOK
  <2> QED
    BY <1>3, <2>1, <2>3 DEF SortRound, graphVars, TypeOK, MirroredEdges
<1>4. CASE EndSort
  BY <1>4 DEF EndSort, graphVars, sortVars, TypeOK, MirroredEdges
<1>5. CASE UNCHANGED vars
  BY <1>5 DEF vars, graphVars, sortVars, TypeOK, MirroredEdges
<1> QED
  BY <1>1, <1>2, <1>3, <1>4, <1>5 DEF Next

\* A round appends one layer and leaves the earlier ones alone.
LEMMA RoundAppends ==
    ASSUME TypeOK, SortRound
    PROVE  /\ Len(sorted) \in Nat
           /\ DOMAIN sorted = 1 .. Len(sorted)
           /\ DOMAIN sorted' = 1 .. Len(sorted) + 1
           /\ \A i \in 1 .. Len(sorted) : sorted'[i] = sorted[i]
           /\ sorted'[Len(sorted) + 1] = Leaf
           /\ Members(sorted') = Members(sorted) \cup Leaf
<1>1. sorted \in Seq(SUBSET Vertices) /\ Leaf \in SUBSET Vertices
  BY DEF TypeOK, Leaf
<1>2. sorted' = Append(sorted, Leaf)
  BY DEF SortRound
<1>3. /\ Len(sorted) \in Nat
      /\ DOMAIN sorted = 1 .. Len(sorted)
      /\ DOMAIN sorted' = 1 .. Len(sorted) + 1
      /\ \A i \in 1 .. Len(sorted) : sorted'[i] = sorted[i]
      /\ sorted'[Len(sorted) + 1] = Leaf
  BY <1>1, <1>2
<1>4. Members(sorted') = Members(sorted) \cup Leaf
  <2>1. \A v : v \in Members(sorted) <=> \E i \in DOMAIN sorted : v \in sorted[i]
    BY DEF Members
  <2>2. \A v : v \in Members(sorted') <=> \E i \in DOMAIN sorted' : v \in sorted'[i]
    BY DEF Members
  <2>3. \A i \in DOMAIN sorted' : i \in DOMAIN sorted \/ i = Len(sorted) + 1
    BY <1>3
  <2>4. \A i \in DOMAIN sorted : i \in DOMAIN sorted'
    BY <1>3
  <2>5. Len(sorted) + 1 \in DOMAIN sorted'
    BY <1>3
  <2>6. \A v : v \in Members(sorted') <=> v \in Members(sorted) \/ v \in Leaf
    BY <1>3, <2>1, <2>2, <2>3, <2>4, <2>5
  <2> QED
    BY <2>6
<1> QED
  BY <1>3, <1>4

\* While annotations are read nothing is sorted, so there is nothing to disturb;
\* the copy StartSort takes is the whole graph.
LEMMA BuildingStep ==
    ASSUME SortInv, TypeOK', (\E v \in Vertices : ReadAnnotation(v)) \/ StartSort
    PROVE  SortInv'
<1>1. phase = "building" /\ sorted = <<>> /\ left = {} /\ sorted' = <<>>
  BY DEF SortInv, ReadAnnotation, StartSort, sortVars
<1>2. Members(sorted') = {}
  BY <1>1 DEF Members
<1>3. CASE \E v \in Vertices : ReadAnnotation(v)
  BY <1>1, <1>3
     DEF ReadAnnotation, sortVars, SortInv, CopyFollowsGraph, LayersRespectEdges,
         NothingLost, CycleIsReal
<1>4. CASE StartSort
  <2>1. left' = Vertices /\ rest' = edges' /\ edges' = edges /\ phase' = "sorting"
    BY <1>4 DEF StartSort, graphVars
  <2>2. CopyFollowsGraph'
    BY <2>1 DEF CopyFollowsGraph, SortInv, TypeOK, Adjacency
  <2>3. NothingLost'
    BY <1>1, <1>2, <2>1 DEF NothingLost, CycleIsReal
  <2> QED
    BY <1>1, <2>1, <2>2, <2>3 DEF SortInv, LayersRespectEdges
<1> QED
  BY <1>3, <1>4

\* The leaves depend only on sorted objects, so they may form the next layer,
\* and taking them off the copy keeps it the graph of what is left.
LEMMA RoundStep ==
    ASSUME SortInv, TypeOK', SortRound
    PROVE  SortInv'
<1>1. /\ phase = "sorting" /\ phase' = "sorting" /\ edges' = edges /\ invalid' = invalid
      /\ left' = left \ Leaf
      /\ rest' = [v \in Vertices |-> IF v \in Leaf THEN {} ELSE rest[v] \ Leaf]
      /\ Leaf \subseteq left
  BY DEF SortRound, RemoveVertices, graphVars, Leaf
<1>2. /\ Len(sorted) \in Nat
      /\ DOMAIN sorted = 1 .. Len(sorted)
      /\ DOMAIN sorted' = 1 .. Len(sorted) + 1
      /\ \A i \in 1 .. Len(sorted) : sorted'[i] = sorted[i]
      /\ sorted'[Len(sorted) + 1] = Leaf
      /\ Members(sorted') = Members(sorted) \cup Leaf
  BY RoundAppends DEF SortInv
<1>3. TypeOK /\ left \subseteq Vertices /\ edges \in [Vertices -> SUBSET Vertices]
  BY DEF SortInv, TypeOK, Adjacency
<1>4. CopyFollowsGraph'
  BY <1>1, <1>3 DEF CopyFollowsGraph, SortInv
<1>5. /\ Members(sorted) \cup left = Vertices
      /\ Members(sorted) \cap left = {}
      /\ \A i, j \in DOMAIN sorted : i # j => sorted[i] \cap sorted[j] = {}
  BY <1>1 DEF SortInv, NothingLost
<1>6. LayersRespectEdges'
  <2> SUFFICES ASSUME NEW j \in 1 .. Len(sorted) + 1, NEW v \in sorted'[j],
                      NEW w \in edges[v]
               PROVE  \E i \in 1 .. j - 1 : w \in sorted'[i]
    BY <1>1, <1>2 DEF LayersRespectEdges
  <2>1. CASE j \in 1 .. Len(sorted)
    <3>1. v \in sorted[j]
      BY <1>2, <2>1
    <3>2. PICK i \in 1 .. j - 1 : w \in sorted[i]
      BY <1>1, <1>2, <2>1, <3>1 DEF SortInv, LayersRespectEdges
    <3>3. i \in 1 .. Len(sorted)
      BY <1>2, <2>1
    <3> QED
      BY <1>2, <3>2, <3>3
  <2>2. CASE j = Len(sorted) + 1
    <3>1. v \in Leaf
      BY <1>2, <2>2
    <3>2. v \in left /\ edges[v] \cap left = {} /\ w \in Vertices
      BY <1>1, <1>3, <3>1 DEF Leaf, CopyFollowsGraph, SortInv
    <3>3. w \in Members(sorted)
      BY <1>5, <3>2
    <3>4. PICK i \in 1 .. Len(sorted) : w \in sorted[i]
      BY <1>2, <3>3 DEF Members
    <3>5. i \in 1 .. j - 1
      BY <1>2, <2>2
    <3> QED
      BY <1>2, <3>4, <3>5
  <2> QED
    BY <1>2, <2>1, <2>2
<1>7. NothingLost'
  <2>1. Members(sorted') \cup left' = Vertices /\ Members(sorted') \cap left' = {}
    BY <1>1, <1>2, <1>5
  <2>2. \A i \in DOMAIN sorted : sorted[i] \cap Leaf = {}
    BY <1>1, <1>5 DEF Members
  <2>3. \A i, j \in DOMAIN sorted' : i # j => sorted'[i] \cap sorted'[j] = {}
    <3> SUFFICES ASSUME NEW i \in 1 .. Len(sorted) + 1, NEW j \in 1 .. Len(sorted) + 1,
                        i # j
                 PROVE  sorted'[i] \cap sorted'[j] = {}
      BY <1>2
    <3>1. CASE i \in 1 .. Len(sorted) /\ j \in 1 .. Len(sorted)
      BY <1>2, <1>5, <3>1
    <3>2. CASE i = Len(sorted) + 1
      <4>1. j \in 1 .. Len(sorted)
        BY <1>2, <3>2
      <4> QED
        BY <1>2, <2>2, <3>2, <4>1
    <3>3. CASE j = Len(sorted) + 1
      <4>1. i \in 1 .. Len(sorted)
        BY <1>2, <3>3
      <4> QED
        BY <1>2, <2>2, <3>3, <4>1
    <3> QED
      BY <1>2, <3>1, <3>2, <3>3
  <2> QED
    BY <1>1, <2>1, <2>3 DEF NothingLost, CycleIsReal
<1> QED
  BY <1>1, <1>4, <1>6, <1>7 DEF SortInv

\* When the loop ends with vertices left, none of them is a leaf of the copy,
\* which is the graph of what is left.
LEMMA EndStep ==
    ASSUME SortInv, TypeOK', EndSort
    PROVE  SortInv'
<1>1. /\ phase = "sorting" /\ UNCHANGED <<edges, left, rest, sorted>>
      /\ \/ left = {} /\ phase' = "sorted"
         \/ left # {} /\ Leaf = {} /\ phase' = "cyclic" /\ left \subseteq invalid'
  BY DEF EndSort, graphVars, sortVars
<1>2. /\ CopyFollowsGraph' /\ LayersRespectEdges' /\ NothingLost'
  <2>1. CopyFollowsGraph'
    BY <1>1 DEF SortInv, CopyFollowsGraph
  <2>2. LayersRespectEdges'
    BY <1>1 DEF SortInv, LayersRespectEdges
  <2>3. Members(sorted') = Members(sorted)
    BY <1>1
  <2>4. CycleIsReal'
    BY <1>1 DEF SortInv, CopyFollowsGraph, CycleIsReal, Leaf
  <2>5. NothingLost'
    BY <1>1, <2>3, <2>4 DEF SortInv, NothingLost
  <2> QED
    BY <2>1, <2>2, <2>5
<1> QED
  BY <1>1, <1>2 DEF SortInv

\* SortInv and MirroredEdges hold in every reachable state.
LEMMA SortInvariant ==
    Spec => [](SortInv /\ MirroredEdges)
<1>1. Init => SortInv /\ MirroredEdges
  BY SortInit
<1>2. SortInv /\ MirroredEdges /\ [Next]_vars => (SortInv /\ MirroredEdges)'
  <2> SUFFICES ASSUME SortInv, MirroredEdges, [Next]_vars
               PROVE  SortInv' /\ MirroredEdges'
    OBVIOUS
  <2>1. TypeOK' /\ MirroredEdges'
    BY GraphStep DEF SortInv
  <2>2. CASE (\E v \in Vertices : ReadAnnotation(v)) \/ StartSort
    BY <2>1, <2>2, BuildingStep
  <2>3. CASE SortRound
    BY <2>1, <2>3, RoundStep
  <2>4. CASE EndSort
    BY <2>1, <2>4, EndStep
  <2>5. CASE UNCHANGED vars
    <3>1. UNCHANGED <<edges, left, rest, sorted, phase, invalid>>
      BY <2>5 DEF vars, graphVars, sortVars
    <3>2. CopyFollowsGraph' /\ LayersRespectEdges'
      BY <3>1 DEF SortInv, CopyFollowsGraph, LayersRespectEdges
    <3>3. NothingLost'
      BY <3>1 DEF SortInv, NothingLost, CycleIsReal, Members
    <3> QED
      BY <2>1, <3>1, <3>2, <3>3 DEF SortInv
  <2> QED
    BY <2>1, <2>2, <2>3, <2>4, <2>5 DEF Next
<1> QED
  BY <1>1, <1>2, PTL DEF Spec

\* The types of the graph and of the sort.
THEOREM SortTypes == Spec => []TypeOK
BY SortInvariant, PTL DEF SortInv

\* Both directions of the graph always hold the same edges (graph.go:61-82).
THEOREM BothDirections == Spec => []MirroredEdges
BY SortInvariant, PTL

\* Every dependency of a sorted object is in an earlier layer, for every graph
\* (graph.go:146-177).
THEOREM LayersInOrder == Spec => []LayersRespectEdges
BY SortInvariant, PTL DEF SortInv

\* Every object is in exactly one layer, or reported with the cycle
\* (graph.go:166-177).
THEOREM NothingIsLost == Spec => []NothingLost
BY SortInvariant, PTL DEF SortInv

\* The sort refuses only objects that each depend on another refused object
\* (graph.go:164-171).
THEOREM CyclesAreReal == Spec => []CycleIsReal
BY SortInvariant, PTL DEF SortInv, NothingLost

----------------------------------------------------------------------------
(* The sort, round by round, and the recursive definition of the layers.   *)

\* Graph.edges as a set of pairs.
EdgeSet == {e \in Vertices \X Vertices : e[2] \in edges[e[1]]}

\* What is sorted, and then the layers of what is left, are the layers of the
\* whole graph.
LayersInv ==
    phase # "building" =>
        SortLayers(Vertices, EdgeSet) = sorted \o LayersOf(Vertices, EdgeSet)[left]

\* Before a round, the vertices without edges in the copy are the leaves of the
\* graph among what is left (graph.go:150-156).
LEMMA LeafIsLeaves ==
    ASSUME SortInv, phase # "building"
    PROVE  Leaf = Leaves(left, EdgeSet) /\ left \in SUBSET Vertices
<1>1. left \subseteq Vertices /\ edges \in Adjacency
  BY DEF SortInv, TypeOK
<1>2. \A v \in left : rest[v] = edges[v] \cap left
  BY DEF SortInv, CopyFollowsGraph
<1>3. ASSUME NEW v \in left
      PROVE  rest[v] = {} <=> \A e \in EdgeSet : e[1] = v => e[2] \notin left
  <2>1. ASSUME rest[v] = {}, NEW e \in EdgeSet, e[1] = v PROVE e[2] \notin left
    BY <1>2, <2>1 DEF EdgeSet
  <2>2. ASSUME rest[v] # {} PROVE \E e \in EdgeSet : e[1] = v /\ e[2] \in left
    <3>1. PICK w \in left : w \in edges[v]
      BY <1>2, <2>2
    <3>2. <<v, w>> \in EdgeSet
      BY <1>1, <3>1 DEF EdgeSet
    <3> QED
      BY <3>1, <3>2
  <2> QED
    BY <2>1, <2>2
<1> QED
  BY <1>1, <1>3 DEF Leaf, Leaves

\* An element moves from the front of one sequence to the end of the other.
LEMMA AppendInFront ==
    ASSUME NEW S, NEW s \in Seq(S), NEW x \in S, NEW u \in Seq(S)
    PROVE  s \o (<<x>> \o u) = Append(s, x) \o u
<1>1. <<x>> \in Seq(S)
  OBVIOUS
<1>2. Append(s, x) = s \o <<x>>
  BY AppendIsConcat
<1>3. (s \o <<x>>) \o u = s \o (<<x>> \o u)
  BY <1>1, ConcatAssociative
<1> QED
  BY <1>2, <1>3

\* Every step keeps LayersInv.
LEMMA LayersStepKeeps ==
    ASSUME SortInv, LayersInv, [Next]_vars
    PROVE  LayersInv'
<1>0. /\ left \in SUBSET Vertices /\ sorted \in Seq(SUBSET Vertices)
      /\ IsFiniteSet(Vertices)
  BY SortAssumption DEF SortInv, TypeOK
<1>1. CASE \E v \in Vertices : ReadAnnotation(v)
  BY <1>1 DEF ReadAnnotation, LayersInv
<1>2. CASE StartSort
  <2>1. EdgeSet' = EdgeSet /\ left' = Vertices /\ sorted' = <<>>
    BY <1>2 DEF StartSort, graphVars, EdgeSet, SortInv
  <2>2. LayersWell(LayersOf(Vertices, EdgeSet)[Vertices], Vertices, EdgeSet)
    BY <1>0, LayersAreWell
  <2>3. <<>> \o LayersOf(Vertices, EdgeSet)[Vertices] = LayersOf(Vertices, EdgeSet)[Vertices]
    BY <2>2 DEF LayersWell
  <2> QED
    BY <2>1, <2>3, SortLayersOf DEF LayersInv
<1>3. CASE SortRound
  <2> DEFINE g == EdgeSet
             L == LayersOf(Vertices, g)
             next == left \ Leaf
  <2>1. /\ EdgeSet' = g /\ left' = next /\ sorted' = Append(sorted, Leaf)
        /\ phase # "building" /\ Leaf # {}
    BY <1>3 DEF SortRound, RemoveVertices, graphVars, EdgeSet
  <2>2. Leaf = Leaves(left, g)
    BY <2>1, LeafIsLeaves
  <2>3. L[left] = <<Leaf>> \o L[next]
    BY <1>0, <2>1, <2>2, LayersUnfold
  <2>4. SortLayers(Vertices, g) = sorted \o (<<Leaf>> \o L[next])
    BY <2>1, <2>3 DEF LayersInv
  <2>5. next \in SUBSET Vertices /\ Leaf \in SUBSET Vertices
    BY <1>0 DEF Leaf
  <2>6. L[next] \in Seq(SUBSET Vertices)
    <3>1. L[next] \in Seq(SUBSET next)
      BY <1>0, <2>5, LayersAreWell DEF LayersWell
    <3>2. SUBSET next \subseteq SUBSET Vertices
      BY <2>5
    <3> HIDE DEF L, next
    <3> QED
      BY <3>1, <3>2
  <2>7. sorted \o (<<Leaf>> \o L[next]) = Append(sorted, Leaf) \o L[next]
    <3> HIDE DEF L, next
    <3>1. \A s, u \in Seq(SUBSET Vertices), x \in SUBSET Vertices :
            s \o (<<x>> \o u) = Append(s, x) \o u
      BY AppendInFront
    <3>2. sorted \in Seq(SUBSET Vertices) /\ Leaf \in SUBSET Vertices
      BY <1>0, <2>5
    <3> QED
      BY <2>6, <3>1, <3>2, Zenon
  <2> QED
    BY <2>1, <2>4, <2>7 DEF LayersInv
<1>4. CASE EndSort
  BY <1>4 DEF EndSort, graphVars, sortVars, EdgeSet, LayersInv
<1>5. CASE UNCHANGED vars
  BY <1>5 DEF vars, graphVars, sortVars, EdgeSet, LayersInv
<1> QED
  BY <1>1, <1>2, <1>3, <1>4, <1>5 DEF Next

\* When the sort ends, nothing that is left has leaves.
LEMMA LayersAtTheEnd ==
    ASSUME SortInv, LayersInv, phase \in {"sorted", "cyclic"}
    PROVE  AgreesWithSortLayers
<1>0. /\ left \in SUBSET Vertices /\ sorted \in Seq(SUBSET Vertices)
      /\ IsFiniteSet(Vertices) /\ phase # "building"
  BY SortAssumption DEF SortInv, TypeOK
<1>1. Leaves(left, EdgeSet) = {}
  <2>1. CASE phase = "sorted"
    BY <2>1 DEF SortInv, NothingLost, Leaves
  <2>2. CASE phase = "cyclic"
    <3>1. \A v \in left : rest[v] # {}
      BY <2>2 DEF SortInv, NothingLost, CycleIsReal, CopyFollowsGraph
    <3> QED
      BY <1>0, <3>1, LeafIsLeaves DEF Leaf
  <2> QED
    BY <2>1, <2>2
<1>2. LayersOf(Vertices, EdgeSet)[left] = <<>>
  BY <1>0, <1>1, LayersUnfold
<1>3. SortLayers(Vertices, EdgeSet) = sorted
  BY <1>0, <1>2 DEF LayersInv
<1>4. left = Vertices \ Members(sorted)
  BY <1>0 DEF SortInv, NothingLost
<1> QED
  BY <1>3, <1>4 DEF AgreesWithSortLayers, CyclicVertices, EdgeSet

\* Graph.Sort, which takes its copy of the graph apart round by round, computes
\* the layers and the cyclic objects that the other modules plan runs with
\* (graph.go:146-177).
THEOREM SortComputesLayers == Spec => []AgreesWithSortLayers
<1>1. Init => LayersInv
  BY DEF Init, LayersInv
<1>2. SortInv /\ LayersInv /\ [Next]_vars => LayersInv'
  BY LayersStepKeeps
<1>3. SortInv /\ LayersInv => AgreesWithSortLayers
  BY LayersAtTheEnd DEF AgreesWithSortLayers
<1> QED
  BY <1>1, <1>2, <1>3, SortInvariant, PTL DEF Spec

----------------------------------------------------------------------------
(* How long the sort can take.                                             *)

\* Every round of the loop takes at least one vertex out of the copy, so the
\* sort makes no more rounds than the run has objects, on any graph, and has
\* one layer per object at most (graph.go:146-177).
SortBounded ==
    phase # "building" => Len(sorted) + Cardinality(left) <= Cardinality(Vertices)

\* A round appends one layer and removes the leaves it is made of.
LEMMA RoundShrinks ==
    ASSUME SortInv, SortBounded, SortRound
    PROVE  SortBounded'
<1>0. /\ TypeOK /\ IsFiniteSet(Vertices) /\ phase = "sorting"
      /\ left \subseteq Vertices /\ Leaf \subseteq left /\ Leaf # {}
  BY SortAssumption DEF SortInv, TypeOK, SortRound, Leaf
<1>1. IsFiniteSet(left) /\ Cardinality(left) \in Nat /\ Cardinality(Vertices) \in Nat
  BY <1>0, FS_Subset, FS_CardinalityType
<1>2. PICK v \in Leaf : v \in left
  BY <1>0
<1>3. left' = left \ Leaf
  BY DEF SortRound, RemoveVertices
<1>4. IsFiniteSet(left \ {v}) /\ Cardinality(left \ {v}) = Cardinality(left) - 1
  BY <1>1, <1>2, FS_RemoveElement
<1>5. /\ Cardinality(left') \in Nat
      /\ Cardinality(left') <= Cardinality(left) - 1
  <2>1. left' \subseteq left \ {v}
    BY <1>2, <1>3
  <2> QED
    BY <1>4, <2>1, FS_Subset, FS_CardinalityType
<1>6. Len(sorted) \in Nat /\ Len(sorted') = Len(sorted) + 1
  BY <1>0 DEF TypeOK, SortRound
<1>7. Len(sorted) + Cardinality(left) <= Cardinality(Vertices)
  BY <1>0 DEF SortBounded
<1> QED
  BY <1>1, <1>5, <1>6, <1>7 DEF SortBounded

\* The loop of Sort ends: at most one round per object of the run, whatever
\* the annotations say (graph.go:146-177).
THEOREM SortBoundedHolds == Spec => []SortBounded
<1>1. Init => SortBounded
  BY DEF Init, SortBounded
<1>2. SortInv /\ SortBounded /\ [Next]_vars => SortBounded'
  <2> SUFFICES ASSUME SortInv, SortBounded, [Next]_vars PROVE SortBounded'
    OBVIOUS
  <2>1. CASE \E v \in Vertices : ReadAnnotation(v)
    BY <2>1 DEF ReadAnnotation, SortBounded, sortVars
  <2>2. CASE StartSort
    <3>1. left' = Vertices /\ sorted' = <<>>
      BY <2>2 DEF StartSort, SortInv
    <3>2. Cardinality(Vertices) \in Nat
      BY SortAssumption, FS_CardinalityType
    <3> QED
      BY <3>1, <3>2 DEF SortBounded
  <2>3. CASE SortRound
    BY <2>3, RoundShrinks
  <2>4. CASE EndSort
    BY <2>4 DEF EndSort, SortBounded, sortVars
  <2>5. CASE UNCHANGED vars
    BY <2>5 DEF vars, sortVars, SortBounded
  <2> QED
    BY <2>1, <2>2, <2>3, <2>4, <2>5 DEF Next
<1> QED
  BY <1>1, <1>2, SortInvariant, PTL DEF Spec
=============================================================================
