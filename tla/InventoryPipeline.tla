-------------------------- MODULE InventoryPipeline --------------------------
(***************************************************************************)
(* Runs of the applier and the destroyer over a cluster and a stored       *)
(* inventory (pkg/apply/applier.go, destroyer.go, prune/, task/, filter/,  *)
(* inventory/policy.go).  One run follows another; a run may stop between  *)
(* any two of its steps (crash, cancellation, error), calls to the API     *)
(* server may fail before or after they took effect, and other actors      *)
(* change the cluster meanwhile.  The queue is executed task by task:      *)
(* TaskRunner has the concurrency inside a run, here a wait task is the    *)
(* statuses it can leave behind.                                           *)
(***************************************************************************)
EXTENDS Solver, FiniteSets

CONSTANTS
    Keys,          \* the API objects; <<k, n>> is the UID of the n-th incarnation of k
    KeyOf,         \* the API object of an identifier; cohabitated identifiers share one
    Explicit,      \* edges of annotations
    Implicit,      \* edges to namespaces and definitions
    NamespaceOf,   \* the identifier of the namespace an object is in, or NoObject
    InvNamespace,  \* that of the inventory object, or NoObject
    NoObject,
    Requests,      \* what callers ask for
    Turns,         \* bound: the runs each of them may be
    LateReports,   \* whether statuses are reported while a wait task ends
    MaxRuns,       \* bound on the number of runs
    MaxDrift       \* bound on the number of changes by other actors

Owners   == {"none", "us", "other"}
Policies == {"MustMatch", "AdoptIfNoInventory", "AdoptAll"}

\* owner is the owning-inventory annotation, keep one that prevents removal.
Resource == [owner : Owners, uid : UIDs, keep : BOOLEAN, terminating : BOOLEAN]
Absent   == [owner |-> "none", uid |-> NoUID, keep |-> FALSE, terminating |-> FALSE]

\* The arguments and options of Applier.Run and Destroyer.Run; bad are the
\* objects of the call that fail validation.
Request ==
    [destroy : BOOLEAN, local : SUBSET Objects, bad : SUBSET Objects,
     exitEarly : BOOLEAN, prune : BOOLEAN, dryRun : BOOLEAN, policy : Policies]

ASSUME PipelineAssumption ==
    /\ IsFiniteSet(Objects)
    /\ UIDs \subseteq Keys \X Nat
    /\ KeyOf \in [Objects -> Keys]
    /\ Explicit \subseteq Objects \X Objects /\ Implicit \subseteq Objects \X Objects
    /\ NoObject \notin Objects
    /\ NamespaceOf \in [Objects -> Objects \cup {NoObject}]
    /\ InvNamespace \in Objects \cup {NoObject}
    /\ Requests \subseteq Request
    /\ \A r \in Requests : r.destroy => r.local = {}
    /\ LateReports \in BOOLEAN
    /\ MaxRuns \in Nat /\ MaxDrift \in Nat

\* The stored inventory, when there is none.
NoInventory == [exists |-> FALSE, refs |-> {}]
Stored(refs) == [exists |-> TRUE, refs |-> refs]

VARIABLES
    cluster,    \* what the API server stores for each key
    stored,     \* the inventory object in the cluster
    request,    \* options of the current run, meaningful while queue is not empty
    queue,      \* tasks of the current run, the first one being executed
    remaining,  \* objects the current task has yet to handle
    checked,    \* the object of an apply task whose filters passed, or NoObject
    graph,      \* TaskContext.graph
    planned,    \* the prune objects, as they were when the run was planned
    refs,       \* Inventory.GetObjectRefs of the in-memory inventory
    im,         \* TaskContext.inventoryManager
    abandoned,  \* TaskContext.abandonedObjects
    invalid,    \* TaskContext.invalidObjects
    nsCreated,  \* the inventory add task created the inventory's namespace
    failure,    \* why the last run stopped, "none" or "NamespaceExists"
    runs,       \* number of runs started
    drift       \* number of changes by other actors

planVars == <<request, graph, planned, invalid>>
vars == <<cluster, stored, queue, remaining, checked, planVars, refs, im,
          abandoned, nsCreated, failure, runs, drift>>

TypeOK ==
    /\ cluster \in [Keys -> Resource \cup {Absent}]
    /\ stored \in {NoInventory} \cup {Stored(r) : r \in SUBSET Objects}
    /\ request \in Request
    /\ queue \in Seq(Task)
    /\ remaining \subseteq Objects
    /\ checked \in Objects \cup {NoObject}
    /\ graph \subseteq Explicit \cup Implicit
    /\ planned \in [Objects -> Resource \cup {Absent}]
    /\ refs \subseteq Objects
    /\ im \in Managers
    /\ abandoned \subseteq Objects
    /\ invalid \subseteq Objects
    /\ nsCreated \in BOOLEAN
    /\ failure \in {"none", "NamespaceExists"}
    /\ runs \in 0 .. MaxRuns
    /\ drift \in 0 .. MaxDrift

NoRequest ==
    [destroy |-> FALSE, local |-> {}, bad |-> {}, exitEarly |-> TRUE,
     prune |-> TRUE, dryRun |-> FALSE, policy |-> "MustMatch"]

NothingPlanned == [id \in Objects |-> Absent]

Init ==
    /\ cluster = [k \in Keys |-> Absent]
    /\ stored = NoInventory
    /\ request = NoRequest /\ queue = <<>> /\ remaining = {} /\ checked = NoObject
    /\ graph = {} /\ planned = NothingPlanned
    /\ refs = {} /\ im = NewManager /\ abandoned = {} /\ invalid = {}
    /\ nsCreated = FALSE
    /\ failure = "none" /\ runs = 0 /\ drift = 0

Exists(id) == cluster[KeyOf[id]] # Absent

\* The end of a run, whatever it had still to do: its memory is gone.
Forget ==
    /\ request' = NoRequest /\ queue' = <<>> /\ remaining' = {} /\ checked' = NoObject
    /\ graph' = {} /\ planned' = NothingPlanned
    /\ refs' = {} /\ im' = NewManager /\ abandoned' = {} /\ invalid' = {}
    /\ nsCreated' = FALSE

----------------------------------------------------------------------------
(* Planning: Applier.Run and Destroyer.Run up to the task runner, with     *)
(* GetPruneObjs, validation and Build.                                     *)

\* GetPruneObjs: what the inventory has, the caller does not, and exists.
PruneObjects(r) == {id \in stored.refs \ r.local : Exists(id)}

Validated(r) == (r.local \cup PruneObjects(r)) \ r.bad

RunGraph(r) == GraphOf(Validated(r), Explicit, Implicit)

InvalidObjects(r) ==
    r.bad \cup ExternalDependents(Validated(r), Explicit)
          \cup CyclicVertices(Validated(r), RunGraph(r))

RunPlan(r, prune) ==
    [SortedPlan(SortLayers(Validated(r), RunGraph(r)), r.local, PruneObjects(r),
                InvalidObjects(r))
        EXCEPT !.destroy = r.destroy, !.prune = prune, !.dryRun = r.dryRun]

\* What both do.  With the ExitEarly policy a validation error ends the run at
\* once.
StartRun(r, prune) ==
    /\ queue = <<>> /\ runs < MaxRuns /\ runs + 1 \in Turns[r]
    /\ InvalidObjects(r) = {} \/ ~r.exitEarly
    /\ request' = r
    /\ graph' = RunGraph(r)
    /\ invalid' = InvalidObjects(r)
    /\ planned' = [id \in Objects |->
                     IF id \in PruneObjects(r) THEN cluster[KeyOf[id]] ELSE Absent]
    /\ queue' = Build(RunPlan(r, prune))
    /\ im' = PlannedManager(RunPlan(r, prune))
    /\ refs' = stored.refs
    /\ remaining' = Head(queue').ids /\ checked' = NoObject
    /\ abandoned' = {} /\ nsCreated' = FALSE
    /\ failure' = "none"
    /\ runs' = runs + 1
    /\ UNCHANGED <<cluster, stored, drift>>

\* Applier.Run validates the objects of the call.
RunApplier(r) == ~r.destroy /\ r.bad \subseteq r.local /\ StartRun(r, r.prune)

\* Destroyer.Run has no objects but those of the inventory, which it validates
\* as they are in the cluster, and always deletes.
RunDestroyer(r) == r.destroy /\ r.bad \subseteq PruneObjects(r) /\ StartRun(r, TRUE)

\* On to the next task; the last task ends the run itself.
Pop == queue' = Tail(queue) /\ remaining' = queue[2].ids /\ UNCHANGED checked

\* ApplyTask and PruneTask: every object has been handled.
EndTask ==
    /\ Len(queue) > 1 /\ Head(queue).action \in {"Apply", "Prune"} /\ remaining = {}
    /\ Pop
    /\ UNCHANGED <<cluster, stored, planVars, refs, im, abandoned, nsCreated,
                   failure, runs, drift>>

----------------------------------------------------------------------------
(* InvAddTask.                                                             *)

Adding == Len(queue) > 1 /\ Head(queue).action = "Inventory"

\* The objects of the task: those to apply that are valid.
Added == request.local \ invalid

NeedsNamespace == InvNamespace \in Added /\ ~request.dryRun /\ ~nsCreated

\* UIDs of object k that neither the run nor its plan knows.
FreshUIDs(k) ==
    {u \in UIDs : u[1] = k /\ \A id \in Objects : u \notin {planned[id].uid, im[id].uid}}

Owned(u) == [owner |-> "us", uid |-> u, keep |-> FALSE, terminating |-> FALSE]

\* createNamespace: Create, with the owning-inventory annotation.  It fails if
\* the namespace exists, which fails the task and ends the run.
CreateNamespace ==
    /\ Adding /\ NeedsNamespace
    /\ \/ /\ Exists(InvNamespace)
          /\ failure' = "NamespaceExists"
          /\ Forget
          /\ UNCHANGED cluster
       \/ /\ ~Exists(InvNamespace)
          /\ \E u \in FreshUIDs(KeyOf[InvNamespace]) :
                cluster' = [cluster EXCEPT ![KeyOf[InvNamespace]] = Owned(u)]
          /\ nsCreated' = TRUE
          /\ UNCHANGED <<queue, remaining, checked, planVars, refs, im, abandoned,
                         failure>>
    /\ UNCHANGED <<stored, runs, drift>>

\* Merges the objects into the in-memory inventory, for the rest of the run,
\* and writes it.  A write may fail before or after it took effect, and then
\* ends the run.
AddInventory ==
    LET union == refs \cup Added
    IN  /\ Adding /\ ~NeedsNamespace
        /\ \/ /\ Pop
              /\ refs' = union
              /\ stored' = IF request.dryRun THEN stored ELSE Stored(union)
              /\ UNCHANGED <<planVars, im, abandoned, nsCreated>>
           \/ /\ ~request.dryRun
              /\ stored' \in {stored, Stored(union)}
              /\ Forget
        /\ UNCHANGED <<cluster, failure, runs, drift>>

----------------------------------------------------------------------------
(* ApplyTask and PruneTask: one object after the other.                    *)

Handling(action, id) ==
    queue # <<>> /\ Head(queue).action = action /\ id \in remaining

Handled(id) ==
    /\ remaining' = remaining \ {id} /\ checked' = NoObject
    /\ UNCHANGED <<stored, queue, planVars, refs, nsCreated, failure, runs, drift>>

\* CanApply and CanPrune agree on which owners the policy lets us take.
CanActuate(owner) ==
    \/ owner = "us"
    \/ owner = "none" /\ request.policy # "MustMatch"
    \/ owner = "other" /\ request.policy = "AdoptAll"

Answers(strategy, id) ==
    DependencyAnswers(graph, im, invalid, request.dryRun, strategy, id)

\* InventoryPolicyApplyFilter reads the cluster when the object's turn comes.
ApplyAllowed(id) ==
    ~Exists(id) \/ CanActuate(cluster[KeyOf[id]].owner)

\* PreventUpdateFilter skips an object with the annotation, which any may have,
\* if the object exists.
UpdatePrevented(id) == Exists(id)

\* The filters let the object pass; mutation and the call come later.
CheckApply(id) ==
    /\ Handling("Apply", id) /\ checked = NoObject
    /\ ApplyAllowed(id) /\ Answers("Apply", id) \subseteq {"pass"}
    /\ checked' = id
    /\ UNCHANGED <<cluster, stored, queue, remaining, planVars, refs, im, abandoned,
                   nsCreated, failure, runs, drift>>

\* A filter skips the object, or a filter, the mutation or the API server fails
\* it.
RefuseApply(id, actuation) ==
    /\ Handling("Apply", id) /\ checked \in {id, NoObject}
    /\ \/ actuation = "Failed"
       \/ /\ actuation = "Skipped" /\ checked = NoObject
          /\ \/ ~ApplyAllowed(id) \/ UpdatePrevented(id)
             \/ "skip" \in Answers("Apply", id)
    /\ im' = AddUnsuccessful(im, "Apply", actuation, id)
    /\ Handled(id)
    /\ UNCHANGED <<cluster, abandoned>>

\* The object is created or updated as it is now, and gets our annotation.
\* The answer of the API server may be lost.
ApplyObject(id) ==
    LET k == KeyOf[id]
    IN  /\ Handling("Apply", id) /\ checked = id
        /\ \/ /\ request.dryRun
              /\ im' = AddSuccessfulApply(im, id, cluster[k].uid, 0)
              /\ UNCHANGED cluster
           \/ /\ ~request.dryRun
              /\ cluster' \in
                   IF Exists(id) THEN {[cluster EXCEPT ![k].owner = "us"]}
                     ELSE {[cluster EXCEPT ![k] = Owned(u)] : u \in FreshUIDs(k)}
              /\ im' \in {AddSuccessfulApply(im, id, cluster'[k].uid, 0),
                          AddUnsuccessful(im, "Apply", "Failed", id)}
        /\ Handled(id)
        /\ UNCHANGED abandoned

\* Everything a prune is decided on, except the dependents, is the copy of the
\* object that was read when the run was planned.
LocalNamespaces == {NamespaceOf[id] : id \in request.local} \cup {InvNamespace}

\* PreventRemoveFilter, InventoryPolicyPruneFilter, LocalNamespacesFilter,
\* which only the applier has, and CurrentUIDFilter: the object was just
\* applied under another identifier.
RemovalPrevented(id) == planned[id].keep
OwnerAllows(id)      == CanActuate(planned[id].owner)
NamespaceInUse(id)   == ~request.destroy /\ id \in LocalNamespaces
JustApplied(id)      == planned[id].uid \in AppliedResourceUIDs(im)

PruneAllowed(id) == ~RemovalPrevented(id) /\ OwnerAllows(id) /\ ~NamespaceInUse(id)

\* The object is abandoned once our annotation is removed from it.  The update carries the resource version of the planned copy.
KeepObject(id) ==
    LET k == KeyOf[id]
        released == [cluster EXCEPT ![k].owner = "none"]
        skipped == AddUnsuccessful(im, "Delete", "Skipped", id)
        failed == AddUnsuccessful(im, "Delete", "Failed", id)
    IN  /\ Handling("Prune", id) /\ RemovalPrevented(id)
        /\ \/ /\ request.dryRun
              /\ im' = skipped
              /\ UNCHANGED <<cluster, abandoned>>
           \/ /\ ~request.dryRun /\ planned[id].owner = "none"
              /\ im' = skipped /\ abandoned' = abandoned \cup {id}
              /\ UNCHANGED cluster
           \/ /\ ~request.dryRun /\ planned[id].owner # "none"
              /\ cluster[k] = planned[id]
              /\ cluster' = released
              /\ \/ im' = skipped /\ abandoned' = abandoned \cup {id}
                 \/ im' = failed /\ UNCHANGED abandoned
        /\ Handled(id)

\* The other filters skip the object, or a fatal filter error, a conflict or
\* the API server fails it.
RefuseDelete(id, actuation) ==
    /\ Handling("Prune", id)
    /\ \/ actuation = "Failed"
       \/ /\ actuation = "Skipped" /\ ~RemovalPrevented(id)
          /\ ~PruneAllowed(id) \/ "skip" \in Answers("Delete", id)
    /\ im' = AddUnsuccessful(im, "Delete", actuation, id)
    /\ Handled(id)
    /\ UNCHANGED <<cluster, abandoned>>

\* An object that was just applied is abandoned under this identifier.
LeaveApplied(id) ==
    /\ Handling("Prune", id)
    /\ PruneAllowed(id) /\ Answers("Delete", id) \subseteq {"pass"}
    /\ JustApplied(id)
    /\ im' = AddUnsuccessful(im, "Delete", "Skipped", id)
    /\ abandoned' = IF request.dryRun THEN abandoned ELSE abandoned \cup {id}
    /\ Handled(id)
    /\ UNCHANGED cluster

\* Delete, on condition that the object still has the UID it was planned with
\* (else a conflict fails it, see RefuseDelete).  An object that is gone
\* counts as deleted; one with finalizers stays until they are done.
DeleteObject(id) ==
    LET k == KeyOf[id]
        deleted == AddSuccessfulDelete(im, id, planned[id].uid)
    IN  /\ Handling("Prune", id)
        /\ PruneAllowed(id) /\ Answers("Delete", id) \subseteq {"pass"}
        /\ ~JustApplied(id)
        /\ \/ /\ request.dryRun \/ ~Exists(id)
              /\ im' = deleted
              /\ UNCHANGED cluster
           \/ /\ ~request.dryRun /\ cluster[k].uid = planned[id].uid
              /\ cluster' \in {[cluster EXCEPT ![k] = Absent],
                               [cluster EXCEPT ![k].terminating = TRUE]}
              /\ im' \in {deleted, AddUnsuccessful(im, "Delete", "Failed", id)}
        /\ Handled(id)
        /\ UNCHANGED abandoned

----------------------------------------------------------------------------
(* WaitTask: what TaskRunner can leave behind.  An object that was actuated *)
(* is found reconciled, is reported failed, or times out.  Once nothing is *)
(* pending the wait ends; a report that arrives before the runner takes    *)
(* the result (LateReports) may make an object pending again, be it one    *)
(* that was reconciled or one that had failed.                             *)

Gone(id) == ~Exists(id) \/ cluster[KeyOf[id]].uid # im[id].uid

WaitOutcomes(id) ==
    IF im[id].actuation # "Succeeded" THEN {"Skipped"}
      ELSE {"Failed", "Timeout"}
           \cup (IF im[id].strategy = "Apply" \/ Gone(id) THEN {"Succeeded"} ELSE {})
           \cup (IF LateReports THEN {"Pending"} ELSE {})

WaitFor ==
    /\ Len(queue) > 1 /\ Head(queue).action = "Wait"
    /\ \E outcome \in [remaining -> Reconciles] :
          /\ \A id \in remaining : outcome[id] \in WaitOutcomes(id)
          /\ im' = [id \in Objects |->
                      IF id \in remaining
                        THEN [im[id] EXCEPT !.reconcile = outcome[id]]
                        ELSE im[id]]
    /\ Pop
    /\ UNCHANGED <<cluster, stored, planVars, refs, abandoned, nsCreated, failure,
                   runs, drift>>

----------------------------------------------------------------------------
(* DeleteOrUpdateInvTask.                                                  *)

\* Mutant: objects that timed out are not retained.
InventoryRefsNoTimeouts ==
    LET retained ==
            WithActuation(im, "Apply", "Failed") \cup WithActuation(im, "Apply", "Skipped")
            \cup WithActuation(im, "Delete", "Failed")
            \cup WithActuation(im, "Delete", "Skipped") \cup WithReconcile(im, "Failed")
    IN  ((WithActuation(im, "Apply", "Succeeded") \cup (refs \cap retained)) \ abandoned)
        \cup (refs \cap invalid)

\* updateInventory.  The previous inventory it retains from is the in-memory
\* one, which InvAddTask extended.
InventoryRefs ==
    LET retained ==
            WithActuation(im, "Apply", "Failed") \cup WithActuation(im, "Apply", "Skipped")
            \cup WithActuation(im, "Delete", "Failed")
            \cup WithActuation(im, "Delete", "Skipped")
            \cup WithReconcile(im, "Failed") \cup WithReconcile(im, "Timeout")
    IN  ((WithActuation(im, "Apply", "Succeeded") \cup (refs \cap retained)) \ abandoned)
        \cup (refs \cap invalid)

DestroySuccessful ==
    /\ WithActuation(im, "Delete", "Failed") = {}
    /\ WithReconcile(im, "Failed") = {} /\ WithReconcile(im, "Timeout") = {}

\* Mutant: the dry-run check covers the update only.
FinishInventoryDeletes ==
    /\ Len(queue) = 1
    /\ stored' \in
         IF request.destroy /\ DestroySuccessful THEN {stored, NoInventory}
           ELSE IF request.dryRun THEN {stored} ELSE {stored, Stored(InventoryRefs)}
    /\ Forget
    /\ UNCHANGED <<cluster, failure, runs, drift>>

\* The last task.  Whether or not its call succeeds, the run is over.
FinishInventory ==
    /\ Len(queue) = 1
    /\ stored' \in
         IF request.dryRun THEN {stored}
           ELSE IF request.destroy /\ DestroySuccessful
             THEN {stored, NoInventory}
             ELSE {stored, Stored(InventoryRefs)}
    /\ Forget
    /\ UNCHANGED <<cluster, failure, runs, drift>>

\* The process dies, the context is cancelled, or the watcher fails.
StopRun ==
    /\ queue # <<>>
    /\ Forget
    /\ UNCHANGED <<cluster, stored, failure, runs, drift>>

Run ==
    \/ \E r \in Requests : RunApplier(r) \/ RunDestroyer(r)
    \/ EndTask \/ CreateNamespace \/ AddInventory \/ WaitFor
    \/ \E id \in Objects :
          \/ \E a \in {"Failed", "Skipped"} : RefuseApply(id, a) \/ RefuseDelete(id, a)
          \/ CheckApply(id) \/ ApplyObject(id) \/ KeepObject(id) \/ LeaveApplied(id) \/ DeleteObject(id)
    \/ FinishInventory \/ StopRun

----------------------------------------------------------------------------
(* Other actors: users, controllers, other inventories.                    *)

Untouched == UNCHANGED <<stored, queue, remaining, checked, planVars, refs, im,
                         abandoned, nsCreated, failure, runs>>

Drift(k) ==
    /\ drift < MaxDrift /\ drift' = drift + 1
    /\ \/ cluster[k] # Absent /\ cluster' = [cluster EXCEPT ![k] = Absent]
       \/ /\ cluster[k] = Absent
          /\ \E u \in FreshUIDs(k), o \in {"none", "other"} :
                cluster' = [cluster EXCEPT ![k] = [Owned(u) EXCEPT !.owner = o]]
       \/ /\ cluster[k] # Absent
          /\ cluster' \in {[cluster EXCEPT ![k].owner = "other"],
                           [cluster EXCEPT ![k].keep = TRUE]}
    /\ Untouched

FinalizersDone(k) ==
    /\ cluster[k].terminating
    /\ cluster' = [cluster EXCEPT ![k] = Absent]
    /\ Untouched /\ UNCHANGED drift

Next == Run \/ \E k \in Keys : Drift(k) \/ FinalizersDone(k)

Spec == Init /\ [][Next]_vars

----------------------------------------------------------------------------
(* Properties.                                                             *)

OwnedKeys == {k \in Keys : cluster[k].owner = "us"}
Tracked == {KeyOf[id] : id \in stored.refs}

\* What this step leaves untracked of what is ours.  The namespace of the
\* inventory is created before the inventory can be.
NewlyUntracked ==
    ((OwnedKeys \ Tracked)' \ (OwnedKeys \ Tracked))
    \ (IF InvNamespace = NoObject THEN {} ELSE {KeyOf[InvNamespace]})

\* "The guiding principal is that anything in the cluster should be in the
\* inventory, unless it was explicitly abandoned" (inv_set_task.go:69-70):
\* no step leaves an object of ours untracked that was not so before, whether
\* the step creates the object or writes the inventory, after any crash or
\* failed call.
OwnedStaysTracked == [][stored' # NoInventory => NewlyUntracked = {}]_vars

\* What updateInventory leaves out of the inventory without knowing that it is
\* gone: an object the run asked to delete and that a late report made pending
\* again after its wait (task.go:384-395) or, with pruning disabled, what the
\* caller does not have (solver.go:186).
LeftOut ==
    IF ~(request.destroy \/ request.prune)
      THEN {id \in stored.refs : planned[id] # Absent}
      ELSE IF LateReports
        THEN WithActuation(im, "Delete", "Succeeded") \cap WithReconcile(im, "Pending")
        ELSE {}

\* The principle as far as the code keeps it: no step but that of LeftOut leaves
\* an object of ours untracked, whatever else is skipped, fails, times out or
\* drifts, and wherever a run stops.
OwnedStaysTrackedButLeftOut ==
    [][stored' # NoInventory => NewlyUntracked \subseteq {KeyOf[id] : id \in LeftOut}]_vars

\* Deletes requested by the run in this step: other actors leave the objects
\* the run has still to handle alone.
Deleted ==
    {k \in Keys :
        /\ remaining' # remaining /\ cluster[k] # Absent
        /\ \/ cluster'[k] = Absent
           \/ cluster'[k].terminating /\ ~cluster[k].terminating}

\* An object this run applied is never deleted by it, also when the inventory
\* knows it under another identifier, or when it was deleted and created again
\* while the run was under way (current-uids-filter.go, prune.go:180-187).
AppliedSurvivesRun ==
    [][\A id \in WithActuation(im, "Apply", "Succeeded") : KeyOf[id] \notin Deleted]_vars

\* When an object is deleted, every object of the run that depends on it is
\* gone: the incarnation the run planned to delete does not exist any more,
\* and none is being applied (dependency-filter.go:66-73, solver.go:195-206).
DependentsGoneFirst ==
    [][\A id \in remaining \ remaining' : KeyOf[id] \in Deleted =>
          \A a \in Dependents(graph, id) :
              /\ a \notin request.local
              /\ cluster[KeyOf[a]].uid # planned[a].uid]_vars

\* No step of a dry run changes the cluster or the stored inventory, whichever
\* of the seven places that look at DryRunStrategy it goes through.
DryRunTouchesNothing ==
    [][request.dryRun =>
          /\ stored' = stored
          /\ cluster' # cluster =>
                drift' # drift \/ \E k \in Keys : cluster[k].terminating]_vars

(***************************************************************************)
(* What comments of the code say and the code does not do.                 *)
(***************************************************************************)

\* "The inventory will only be deleted if all prunes were successful (none
\* failed/skipped)" (inv_set_task.go:44-46): the inventory is not deleted
\* while an object of ours that it tracks is still in the cluster.
DestroyLeavesNothing ==
    [][stored' = NoInventory => OwnedKeys \cap Tracked = {}]_vars
=============================================================================
