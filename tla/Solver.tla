------------------------------- MODULE Solver -------------------------------
(***************************************************************************)
(* TaskQueueBuilder.Build (pkg/apply/solver/solver.go) and the set-list    *)
(* helpers of pkg/object/graph/depends.go it uses: from the layers of the  *)
(* dependency graph to the queue of tasks the runner executes.  A layer is *)
(* a set; the order inside one (only for display and readability in the    *)
(* code) is left out.                                                      *)
(***************************************************************************)
EXTENDS DependencyFilter, DependencyGraph

(***************************************************************************)
(* A plan is what Build works from once the graph is sorted: the non-empty *)
(* apply sets and prune sets, both in apply order, the objects that failed *)
(* validation, and the options that shape the queue.                       *)
(***************************************************************************)
PlanType ==
    [applySets : Seq(SUBSET Objects),
     pruneSets : Seq(SUBSET Objects),
     invalid   : SUBSET Objects,
     destroy   : BOOLEAN,   \* Options.Destroy
     prune     : BOOLEAN,   \* Options.Prune
     dryRun    : BOOLEAN,   \* DryRunStrategy is client or server
     timeout   : BOOLEAN]   \* ReconcileTimeout and PruneTimeout are set

\* No object is in two sets of a plan: the layers of a graph are disjoint, and
\* what is applied is taken off what is pruned (GetPruneObjs, prune.go:242-244).
OneSetEach(p) ==
    /\ \A i, j \in DOMAIN p.applySets : i # j => p.applySets[i] \cap p.applySets[j] = {}
    /\ \A i, j \in DOMAIN p.pruneSets : i # j => p.pruneSets[i] \cap p.pruneSets[j] = {}
    /\ Members(p.applySets) \cap Members(p.pruneSets) = {}

\* ids are the objects of an actuation task, or the objects a wait is about.
Task ==
    [action  : {"Apply", "Prune", "Wait", "Inventory"},
     ids     : SUBSET Objects,
     cond    : {"AllCurrent", "AllNotFound", "None"},
     timeout : BOOLEAN]

ActuationTask(action, ids) ==
    [action |-> action, ids |-> ids, cond |-> "None", timeout |-> FALSE]

WaitTaskFor(cond, ids, timeout) ==
    [action |-> "Wait", ids |-> ids, cond |-> cond, timeout |-> timeout]

\* InvAddTask and DeleteOrUpdateInvTask; the runner treats them alike.
InventoryTask ==
    [action |-> "Inventory", ids |-> {}, cond |-> "None", timeout |-> FALSE]

\* Keeps, per layer, the objects that are in objs and drops empty layers.
HydrateSetList(layers, objs) ==
    LET keep[i \in 0 .. Len(layers)] ==
            IF i = 0 THEN <<>>
              ELSE IF layers[i] \cap objs = {} THEN keep[i - 1]
              ELSE Append(keep[i - 1], layers[i] \cap objs)
    IN  keep[Len(layers)]

\* The plan of a run: the layers of the sorted graph of all objects, split
\* into what is applied and what is pruned.
SortedPlan(layers, applyObjs, pruneObjs, invalid) ==
    [applySets |-> HydrateSetList(layers, applyObjs \ invalid),
     pruneSets |-> HydrateSetList(layers, pruneObjs \ invalid),
     invalid   |-> invalid,
     destroy |-> FALSE, prune |-> TRUE, dryRun |-> FALSE, timeout |-> TRUE]

\* Mutant: the loop stops one set early.
ReverseSetListShort(sets) == [i \in 1 .. Len(sets) - 1 |-> sets[Len(sets) - i]]

ReverseSetList(sets) == [i \in 1 .. Len(sets) |-> sets[Len(sets) + 1 - i]]

\* One actuation task per set, each followed by its wait unless dry-run.
ActuateAndWait(action, cond, sets, plan) ==
    IF plan.dryRun
      THEN [i \in 1 .. Len(sets) |-> ActuationTask(action, sets[i])]
      ELSE [i \in 1 .. 2 * Len(sets) |->
              IF i % 2 = 1
                THEN ActuationTask(action, sets[(i + 1) \div 2])
                ELSE WaitTaskFor(cond, sets[i \div 2], plan.timeout)]

\* Build also registers the plan with the manager.
PlannedManager(plan) ==
    AddPending(AddPending(NewManager, "Apply", Members(plan.applySets)),
               "Delete", IF plan.prune THEN Members(plan.pruneSets) ELSE {})

Build(plan) ==
    (IF plan.destroy THEN <<>> ELSE <<InventoryTask>>)
    \o ActuateAndWait("Apply", "AllCurrent", plan.applySets, plan)
    \o (IF plan.prune
          THEN ActuateAndWait("Prune", "AllNotFound",
                              ReverseSetList(plan.pruneSets), plan)
          ELSE <<>>)
    \o <<InventoryTask>>
=============================================================================
