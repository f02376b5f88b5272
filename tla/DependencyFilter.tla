-------------------------- MODULE DependencyFilter --------------------------
(***************************************************************************)
(* DependencyFilter (pkg/apply/filter/dependency-filter.go): whether the   *)
(* objects an object is related to let it be applied or deleted.  An apply *)
(* looks at the dependencies of the object, a delete at its dependents.    *)
(***************************************************************************)
EXTENDS InventoryManager

\* g is the graph of the task context: <<a, b>> means that a depends on b.
Dependencies(g, id) == {b \in Objects : <<id, b>> \in g}
Dependents(g, id)   == {b \in Objects : <<b, id>> \in g}

\* Mutant: a delete looks at the dependencies too.
RelatedDependencies(g, strategy, id) == Dependencies(g, id)

Related(g, strategy, id) ==
    IF strategy = "Apply" THEN Dependencies(g, id) ELSE Dependents(g, id)

\* Mutant: the reconcile status is not looked at.
FilterByActuation(im, invalid, dryRun, strategy, b) ==
    IF b \in invalid \/ ~Found(im, b) THEN "invalid"
      ELSE IF im[b].strategy = strategy /\ im[b].actuation = "Succeeded" THEN "pass"
      ELSE "skip"

(***************************************************************************)
(* What one related object says.  "invalid" and "premature" are fatal      *)
(* filter errors (the object fails), "skip" skips it.  A dry run has no    *)
(* wait tasks, so it does not look at the reconcile status.                *)
(***************************************************************************)
FilterByRelationship(im, invalid, dryRun, strategy, b) ==
    CASE b \in invalid \/ ~Found(im, b)               -> "invalid"
      [] b \notin invalid /\ Found(im, b) /\ im[b].strategy # strategy
                                                      -> "skip"
      [] OTHER ->
           CASE im[b].actuation = "Pending"               -> "premature"
             [] im[b].actuation \in {"Skipped", "Failed"} -> "skip"
             [] im[b].actuation = "Succeeded" ->
                  CASE dryRun \/ im[b].reconcile = "Succeeded" -> "pass"
                    [] ~dryRun /\ im[b].reconcile = "Pending"  -> "premature"
                    [] ~dryRun /\ im[b].reconcile \in
                          {"Skipped", "Failed", "Timeout"}     -> "skip"

\* The answers of all related objects; the filter returns the first one
\* that is not "pass" in the order the edges were added.
DependencyAnswers(g, im, invalid, dryRun, strategy, id) ==
    {FilterByRelationship(im, invalid, dryRun, strategy, b) :
        b \in Related(g, strategy, id)}

DependenciesPass(g, im, invalid, dryRun, strategy, id) ==
    DependencyAnswers(g, im, invalid, dryRun, strategy, id) \subseteq {"pass"}
=============================================================================
