--------------------------- MODULE DependencyGraph ---------------------------
(***************************************************************************)
(* The dependency graph of a run (pkg/object/graph).  A graph is a set of  *)
(* edges <<a, b>>, "a depends on b", between the objects of the run; the   *)
(* adjacency maps of the code keep the same edges in both directions.      *)
(***************************************************************************)
EXTENDS Integers, Sequences

\* DependencyGraph: an edge joins two objects of the run.  Explicit edges are
\* those of the depends-on and apply-time-mutation annotations, implicit ones
\* those from a custom resource to its definition and from an object to its
\* namespace.
GraphOf(objs, explicit, implicit) ==
    {e \in explicit \cup implicit : e[1] \in objs /\ e[2] \in objs}

\* An annotation that names an object outside the run is a validation error.
ExternalDependents(objs, explicit) ==
    {a \in objs : \E e \in explicit : e[1] = a /\ e[2] \notin objs}

\* The vertices that depend on nothing that is left.
Leaves(rest, g) == {v \in rest : \A e \in g : e[1] = v => e[2] \notin rest}

\* Graph.Sort: takes the leaves off until nothing, or nothing but cycles and
\* what depends on them, is left.
SortLayers(vertices, g) ==
    LET sort[rest \in SUBSET vertices] ==
            IF Leaves(rest, g) = {}
              THEN <<>>
              ELSE <<Leaves(rest, g)>> \o sort[rest \ Leaves(rest, g)]
    IN  sort[vertices]

Members(sets) == UNION {sets[i] : i \in DOMAIN sets}

\* The vertices of the CyclicDependencyError.
CyclicVertices(vertices, g) == vertices \ Members(SortLayers(vertices, g))
=============================================================================
