------------------------- MODULE MCInventoryPipeline -------------------------
(* Instances of InventoryPipeline for TLC. *)
EXTENDS InventoryPipeline

\* a and z are two identifiers of one API object, ka, that depends on b; b is
\* in the namespace n.
CONSTANTS a, b, n, z, ka, kb, kn

MCKeyOf == [id \in Objects |-> IF id = b THEN kb ELSE IF id = n THEN kn ELSE ka]
MCUIDs == Keys \X (1 .. 3)
MCNamespaceOf == [id \in Objects |-> IF id = b THEN n ELSE NoObject]
NamespaceEdges == {<<b, n>>}
DependsOnEdges == {<<a, b>>, <<z, b>>}

Apply(objs) ==
    [destroy |-> FALSE, local |-> objs, bad |-> {}, exitEarly |-> FALSE,
     prune |-> TRUE, dryRun |-> FALSE, policy |-> "MustMatch"]
Destroy == [Apply({}) EXCEPT !.destroy = TRUE]

SafetyRequests ==
    { Apply({a, b}),
      Apply({z, b}),
      Apply({b, n}),
      [Apply({b}) EXCEPT !.policy = "AdoptAll"],
      [Apply({a, b}) EXCEPT !.bad = {b}],
      [Apply({b}) EXCEPT !.prune = FALSE],
      [Apply({n}) EXCEPT !.dryRun = TRUE],
      Destroy,
      [Destroy EXCEPT !.exitEarly = TRUE, !.policy = "AdoptIfNoInventory"],
      [Destroy EXCEPT !.dryRun = TRUE] }

\* The third run picks up what two others left, or destroys it.
SafetyTurns == [r \in SafetyRequests |->
                  IF r \in {Apply({z, b}), Destroy} THEN 1 .. 3 ELSE 1 .. 2]
AnyTurn == [r \in Requests |-> 1 .. MaxRuns]

\* Two objects, the first of which depends on the second.
DestroyRequests == {Apply({a, b}), Apply({b}), Destroy}

\* The second leaves the first one's object alone.
NoPruneRequests == {Apply({a, b}), [Apply({b}) EXCEPT !.prune = FALSE]}
=============================================================================
