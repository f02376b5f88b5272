# cli-utils in TLA+

A specification of the core of cli-utils (`pkg/`): how the applier and the
destroyer bring a set of objects into a cluster, wait for it, prune what is no
longer wanted, and keep an inventory of what they own. The modules are
translated from the Go source; `PROJECT.json` maps every definition to the
lines it stands for.

## The system

| part | state | operations | with whom it interacts |
|---|---|---|---|
| Applier, Destroyer (`pkg/apply/applier.go`, `destroyer.go`) | none of its own | `Run`: read the inventory, find the prune objects, validate, build the queue, run it | everything below; a caller that reads the event channel and may cancel |
| Dependency graph (`pkg/object/graph`) | two adjacency maps | add edges from annotations, definitions, namespaces; `Sort` | built by the solver, read by the dependency filter |
| Task queue builder (`pkg/apply/solver`) | the queue; registers the plan | `Build` | graph, inventory manager |
| Task status runner (`pkg/apply/taskrunner/runner.go`) | current task, abort flag, done channel | a `select` over statuses, task results and the caller's context | starts tasks as goroutines; reads the watcher; writes the resource cache |
| Wait task (`taskrunner/task.go`) | pending and failed sets, context | `Start`, `StatusUpdate`, `Cancel`, timer | shares the cache and the inventory manager with the runner |
| Apply task, prune task (`pkg/apply/task`, `prune`) | position in their objects | filter, mutate and apply; filter and delete or abandon | API server, inventory manager, task context |
| Filters (`pkg/apply/filter`, `pkg/inventory/policy.go`) | none | skip or fail an object | graph, inventory manager, cluster |
| Inventory tasks (`inv_add_task.go`, `inv_set_task.go`) | the in-memory inventory | add before the first apply; update or delete at the end | inventory client, inventory manager |
| Inventory manager (`pkg/inventory/manager.go`) | per object: strategy, actuation, reconcile, UID, generation | `Add*`, `Set*` and queries | all tasks |
| Inventory client (`pkg/inventory/inventory-client.go`) | the stored inventory object | `Get`, `CreateOrUpdate` (retries conflicts), `Delete` | API server |
| Object status reporter, event funnel (`pkg/kstatus/watcher`) | informers, scheduled checks, a count of inputs | start and stop informers on CRD and namespace events; merge their events | the runner, which must drain it |
| Status computation (`pkg/kstatus/status`) | none | `Compute` and `Augment`: the status of one object | reporter, polling engine |
| Polling engine, status command (`pkg/kstatus/polling`, `cmd/status`) | a cache of lists, the last status sent, the collected statuses | list, compute, send what changed; an observer that ends the command | API server; its collector and its caller |
| Events, statistics, printers (`pkg/apply/event`, `pkg/print`, `pkg/printers`) | counters; the table's rows | read the event channel to its end, print, return a result | the run, which they block when they do not read |
| Apply-time mutation, validation, order in a layer, manifest readers | | | see "components" in `PROJECT.json` |

What is hard here is not in any one function. A run is a pipeline of
goroutines that share a cache and a manager; a status may arrive between any
two steps; the caller may cancel at any time. Across runs the only memory is
the inventory in the cluster, which has to be right after a crash at any
point, after calls whose answer was lost, and while others change the cluster.
The list of hazards in `PROJECT.json`, each at its line, is what the
properties were chosen from.

## Modules

    InventoryManager            the statuses of a run; no variables
      DependencyFilter          the filter both actuation tasks end with
    DependencyGraph             the sorted layers of a graph; no variables
        Solver                  from layers to the queue of tasks
          TaskRunner            the concurrency inside one run
          InventoryPipeline     one run after the other over cluster and inventory
    DependencySort              the graph built and sorted, step by step
                                (EXTENDS DependencyGraph and agrees with it)
    EventFunnel                 many channels into one
      StatusReporter            informers, checks, restarts; EXTENDS the funnel
    StatusPromise               what a watcher promises; StatusReporter
                                implements it, TaskRunner assumes it
    KStatus                     the status of an object; no variables
      Rollout                   a workload, its controller and its pods
        Polling                 the status command over both
    InventoryClient             the stored inventory and those who write it
    EventStream                 the events of a run and the printers

`MC<module>` instantiates a module for TLC; `<module>_proofs` has its
theorems. The proof modules extend each other as the modules do:
Solver_proofs has those of DependencyGraph too, and is used by the proofs of
DependencySort, TaskRunner and InventoryPipeline; StatusReporter_proofs has those
of EventFunnel, and Polling_proofs those of KStatus and Rollout.

**InventoryManager**, **DependencyFilter**, **DependencyGraph**, **Solver** and
**KStatus** are operators on values. The manager's slice of statuses is a
function, and `Untracked` stands for an absent entry. A graph is a set of edges,
a layer a set of objects. KStatus has one operator per function of `core.go`
and `status.go`; an object is its kind, generations, conditions and the fields
the rules read, and messages are left out.

**TaskRunner** has one action per case of the `select` (`RecvStatus`,
`RecvSync`, `RecvWatchError`, `RecvTaskResult`, `RecvDone`), one per step of a
task's goroutine, and one each for the timer, the caller and the closing of
the watcher's channel. `queue`, `current`, `abort`, `doneSeen` are the local
variables of `Run`; `pending`, `failed` and `waitCtx` the fields of the wait
task; `cache` and `im` what the goroutines share. `worker = "sending"` is a
goroutine blocked on the unbuffered task channel: the time between the end of
a task and the moment the runner takes its result is where statuses still
reach the task. A step of an actuation goroutine handles one object. A wait
task starts in the step that dequeues it, because `Start` does the first pass
under the lock, before the goroutine that waits. The watcher is an environment:
any status from `Reports`, in any order.

**InventoryPipeline** has the cluster as a function from API objects to owner,
UID, keep annotation and terminating mark, the stored inventory, and the memory
of the current run. `RunApplier` and `RunDestroyer` are everything before the
task runner starts; then the head of `queue` is executed, one object at a time,
until `FinishInventory`. Each filter is an operator. The check of the filters
and the apply call are separate steps. `StopRun` at any point stands for a
crash, a cancellation and an error. A write to the inventory, an apply, a delete
and a removal of an annotation may each fail before or after it took effect. Two
identifiers may name one API object (`KeyOf`). Wait tasks are reduced to the
reconcile statuses that TaskRunner can leave behind; `LateReports` says whether
those include the statuses that arrive after a wait was told to end, as they do
in the code, so the runs that must pass have it on. `Drift` and
`FinalizersDone` are the other actors.

**DependencySort** builds the two adjacency maps object by object, from any
annotations, and then takes the copy apart round by round. It ends with the
layers the operator `SortLayers` gives, which the other modules plan with: TLC
checks it on three vertices, and `SortComputesLayers` proves it of every graph.

**EventFunnel** keeps, per input channel, where its drain is, what event it
holds and whether the channel's owner closed it; the counter and the loop that
closes the output are beside it.
**StatusReporter** adds the goroutines that use it. An informer target may be
started several times; an *attempt* is one start, with its own context, channel,
reflector and handler, so that an old attempt that is still ending and a new one
can overlap as they do in the code. `objs` is the cluster, with a version per
object; `got` the newest version the reader received. Its last step is the
reader's. A send on a closed channel is the step that sets `panicked`.
A send of a handler, a reflector or a failed start on a closed channel has no
such step: `SendersHaveChannel` says that it cannot happen.
`handleFatalError` ignores an error that is `Canceled` or `DeadlineExceeded` by
type, also that of one request which ran out of its own time ("deadline"): the
handler or the check ends quietly and the reporter goes on (`HandlerIgnores`,
`TaskReads`). `unread` is history: the versions left out this way.
The error of a start that failed is shadowed by the nil of the call that joins
its channel to the funnel (`JoinFunnel`), so each such failure is reported.
**StatusPromise** is the abstract specification: five booleans, of which the
refinement mapping in StatusReporter says what they are there. Its `SafetySpec`
is what a watcher may do, its `Spec` adds what it must do in the end.

**Rollout** is external to this repository: what deployments, stateful sets,
replica sets and daemon sets do to their status while a new generation is
rolled out. A user may change replicas and pod template, but not how many pods
a daemon set has, which is up to the nodes: the rule for daemon sets compares its
counts with `desiredNumberScheduled` only from below, so that after the removal
of a node it says current while a pod is still to be taken away. **Polling** has the poller, the collector with the observer, and the
end of the command, over Rollout and one object of any other kind. `cache` is
what the last `Sync` listed, key by key, so that one pass reads pieces of
different moments; `prev` is `previousResourceStatuses`. `HandleSyncAndPollErr`
drops an error by its type, whether or not the context is done; `err = "dropped"`
is a poller that stopped this way.

**InventoryClient** has one process per client with the program counter of
`CreateOrUpdate` (`get`, `write`, `getStatus`, `status`) and of `Delete`. A
write carries the resource version it read and is refused as a conflict when
that is old. `Note` is somebody else's change of the metadata. The object has
four forms: the ConfigMap with statuses, the ConfigMap without, and a custom
resource with a status subresource, whose conversions are those of
`test/e2e/customprovider`, in two forms. The CRD of that provider has no
`status.observedGeneration`, and the client writes the field only where the
object has it already (`Observed`); "CustomObserved" is a CRD that defaults it
to 0, as the comment of the client asks (`inventory-client.go:418-420`). Ids are sequences of characters here, since the
separator is the point. The variables after "History" (`author`, `overlap`,
`did`, `disturbed`) are for the properties.

**EventStream** has a producer, which may send what the code may send next, and
a reader, over one unbuffered channel (`chan`). The table printer is three
goroutines. What the run decides is nondeterministic here, since TaskRunner
and InventoryPipeline have it.

## Runs

| run | states | what it shows |
|---|---|---|
| `TaskRunner` | 675 k | bookkeeping of waits, order of dependencies, nothing lost, no task outlives its run; a cancelled run, a run whose watcher failed, and a run with timeouts return |
| `InventoryPipeline_safety` | 2.0 M | objects stay tracked but for two named steps; applied objects survive; dependents go first; dry runs touch nothing |
| `DependencySort` | 12 k | layers, completeness, cycles, agreement with the operator, termination |
| `StatusReporter` | 566 k | the reporter implements StatusPromise; the funnel closes last; only a scheduled check meets a closed channel; what is there and watched is reported unless its handler ignored an error |
| `Polling` | 318 k | the command ends, returns every error it does not drop by its type, and takes only a finished rollout for current |
| `InventoryClient` | 1.5 M | writes keep foreign changes and have their effect in spite of conflicts; a status that claims a generation is of its spec; ids survive storage |
| `EventStream` | 624 k | results and the last table agree with the events; nobody is blocked for ever |
| `InventoryPipeline_destroy`, `InventoryPipeline_noprune`, `StatusReporter_panic`, `InventoryClient_list`, `EventStream_late` | | one disagreement each, see below |

*Bounds.* TaskRunner has three objects, one depending on another: two layers
are the least in which a dependency is waited for, and the third object makes a
layer of two, so that an update of one meets the wait of the other. Two UIDs
and two generations are enough to tell applied from replaced and from stale.
Its plans cover apply, prune, both, destroy, dry run, no pruning, waits with
and without timeouts and an invalid object. InventoryPipeline has three API
objects and four identifiers: two are one API object (cohabitation) that
depends on another, which is in the namespace of the inventory. Three runs
let an object be applied, lost in a failure, and picked up or destroyed: the
third (`Turns`) applies the other identifier of the object or destroys, the
first two are any of ten requests, and all ten in all three runs (6.0 M
states) were explored without a difference; `MaxDrift` allows one change by
another actor. Two runs with two changes were explored too, without a
difference. UIDs are bounded by three incarnations per
API object, as many as these bounds can produce between objects the run knows.
DependencySort takes all annotations over three vertices and one outside
identifier, which has every shape of cycle with something hanging off it.

StatusReporter has a CRD and an object of the kind it defines, two starts per
informer, two changes of the cluster and one scheduled check at a time: a
definition can come, go, or come back, a start can overlap the end of the one
before, and a check can outlive its informer. Its scenarios say what exists at
the start and which kind of call may fail. The objects are in different
namespaces, so the watch is at root scope, and the stopping of informers when
their namespace is deleted is not exercised by this instance. Polling has one
replica (`MaxReplicas`) in two pod slots, so that the pods of two revisions
overlap, two generations of the workload, one change of the other object, and at
most one failing call. InventoryClient has two clients, three calls, two foreign
changes and two failures; `Steps` is 2 where client-go tries 5 times, so that a
conflict in every attempt is within these bounds. EventStream has two objects
and two statuses delivered by the watcher, the least in which an object fails
and becomes current.

*Reductions.* In Polling the cluster moves only while the poller lists and
before the context ends: a pass computes everything from its cache, so moves at
other times are seen by the next pass only. `moves` says before which lists: for a
Deployment only before its own, since what it generated changes its status only
when a rate limiter refuses the list of its pods; with moves before all its
lists the run is twice as long and shows the same. Objects generated by a workload count
by whether one of them failed. Messages are reduced to the possibility that a
status differs in its message alone and is sent again. In InventoryClient a
custom resource whose status has no entries loses its observed generation, as
the conversion of the test provider writes it. The validity of keys as the API
server checks it is not modelled.

*What the safety run of the pipeline excepts.* It has `LateReports` on and
requests that do not prune, and both take objects of ours out of the inventory
(below). `OwnedStaysTrackedButLeftOut` names them: a delete that a late status
made pending again after its wait, and in a run that does not prune what the
caller does not have (`LeftOut`). It forbids every other loss. It lets the
namespace of the inventory be created before the inventory can be, which the
code cannot avoid, and it says nothing of the step that deletes the inventory,
which is a disagreement of its own. `OwnedStaysTracked`, without exceptions, is
what the comment of the code promises and what the run `noprune` violates.

*Deadlock* is checked for InventoryClient and EventStream, whose end is a
stutter of its own. In the others a run, and so a behaviour, ends;
`AbortReturns`, `TimeoutReturns`, `SortEnds`, `KeepsPromise` and `CommandEnds`
say where it must not stop early.

*Fairness.* Each is weak fairness of one action or one goroutine. TaskRunner:
`select` picks at random among its ready cases, so a result or a cancellation
that stays ready is taken; goroutines that can run are scheduled; timers fire; a
cancelled watcher closes its channel, which is what `KeepsPromise` shows of the
reporter. Nothing is assumed of what the watcher reports, of whether it ever
synchronizes, or of the caller. StatusReporter: every goroutine runs, and the
caller reads until the channel is closed, as `complete` does; nothing makes the
cluster change, a call fail or the caller cancel. Polling: poller, collector
and command run, the ticker ticks, calls return. EventStream: the producer runs,
which includes that a wait ends (that is TaskRunner's `TimeoutReturns` and
`AbortReturns`), and the reader runs. InventoryClient has no fairness.

## Disagreements

Each is a run that violates one property; the finding in `PROJECT.json` quotes
the comment.

* *panic*: a scheduled status check that is reading when its informer stops
  sends on the channel the informer closed.
* *list*: `List` fails as soon as the cluster has a ConfigMap that is no
  inventory, which every cluster has.
* *late*: an object that is reported failed and then current counts as a
  failure in the result of the printer.
* *noprune*: a run with `NoPrune` drops the objects it does not prune from the
  inventory.
* *destroy*: skipped deletes and invalid objects do not keep the inventory from
  being deleted.

Found with these models too, and not kept as runs:

* A status taken between the end of a wait and its result puts a settled object
  back to pending (`task.go:386`). The next layer then fails with "If reconcile
  is still pending, dependency sorting is probably broken"
  (`dependency-filter.go:152`), although it is not. At the last wait of a run, a
  deleted object that is pending again is in none of the sets that
  `updateInventory` keeps, and drops out of the inventory while it exists
  (`inv_set_task.go:138`), one of the two exceptions of
  `OwnedStaysTrackedButLeftOut`.
* The comments at `object_status_reporter.go:460` and `509` say "Send error event
  and stop the reporter!", but `handleFatalError` (712-716) ignores an error that
  is `Canceled` or `DeadlineExceeded` by type. When a single request runs out of
  its time, its object's newest status is lost and the reporter goes on:
  the exception `LeftOut` of `PresentIsReported`.
* A start that fails reports an error event without its error: `err` is declared
  again for the call to the funnel, and is nil (`object_status_reporter.go:297-306`).
* An applied object that was reconciled or failed before another actor replaced
  it can count as reconciled: only the pending case asks `changedUID`
  (`task.go:329`, `360`; the comment at `295-296` promises a failure).
* Creating the inventory's namespace fails when it exists (`inv_add_task.go:136`;
  the comment at `63` says "ensure").
* The comment at `inv_set_task.go:102-104` says that new objects that failed to
  apply leave the inventory; they stay, which is the safe choice.
* The poller takes an error for "a signal that the process should shut down" by
  its type (`engine.go:185-193`; `engine_test.go:199-231` expects it). One request
  that ran out of its time stops the poller, and the command returns no error
  although nobody ended it, the exception of `ErrorIsReturned`. On the
  other hand a rate limiter that sees the deadline of the command coming returns an
  error of another type, and the command fails.
* The comment at `inventory-client.go:418-420` asks that `observedGeneration` of a
  custom inventory defaults to 0. The CRD of the repository's own provider
  (`customprovider/provider.go:58-87`) has no such field, so there it is never
  written and a status claims no generation.
* `Sync` of the caching reader says "Reset the RESTMapper" at a missing kind
  (`caching_reader.go:228-232`) and does not; a mapper that caches its misses
  never finds the kind of a CRD installed later.
* `listInvFromCluster` keys inventories by name (`cmdstatus.go:217`); of two with
  one name in different namespaces one is dropped.
* The start of an informer that finds no kind stops the reference
  (`object_status_reporter.go:290`), also when the event of the CRD has just
  started it; nobody starts it again.
* The table's RECONCILED column (`printers/table/printer.go:117`) is always
  empty: it prints for `WaitAction` only, which the collector never keeps
  (`collector.go:26-30`). Its ACTION column stays empty for deletes. Validation
  events sent before the init event are not shown.

## Proofs

The theorems hold for every value of the constants that satisfies the named
assumptions. Most of these are types (`UIDAssumption`, `RunnerAssumption`,
`FunnelAssumption`, `ReporterAssumption`, `ClientAssumption`, `PollAssumption`,
`RolloutAssumption`: at least one generation and one replica, finitely many
pods). The others say what a caller relies on:

* `SortAssumption`, `StreamAssumption`, `PipelineAssumption`: the objects of a
  run are a finite set (they come from a slice).
* `ContentsAssumption` (InventoryClient): names and namespaces hold no `_`, which
  the comment of `fieldSeparator` says of every name (`objmetadata.go:30-32`), a
  name is not empty, and neither is the text of a status.
* `PlanAssumption` (TaskRunner): no object is in two sets of a plan.
  `GetPruneObjs` takes the objects of the caller off those it prunes, and the
  layers of a graph are disjoint. It is not left as an assumption where plans
  are made: `SortedPlanWell` proves it of every plan that `SortedPlan` makes, and
  InventoryPipeline uses that.
* `GroupsAssumption` (EventStream): an object is in one group that actuates, and
  a wait is for objects of a group before it. It is what `Build` does, said of
  action groups.
* `PipelineAssumption` also says that a request to destroy has no objects of its
  own: `Destroyer.Run` takes an inventory and options only.

| module | theorems |
|---|---|
| `DependencySort_proofs` | `SortTypes`, `BothDirections`, `LayersInOrder`, `NothingIsLost`, `CyclesAreReal`, `SortComputesLayers`, `SortBoundedHolds` |
| `Solver_proofs` | `SortLayersWell` of DependencyGraph; `SortedPlanWell` |
| `TaskRunner_proofs` | `TypeCorrect`, `NoTaskOutlives`, `WaitBookkeepingHolds`, `SuccessTracksCacheHolds`, `AppliedAfterDependenciesHolds`, `DeletedAfterDependentsHolds`, `OkMeansActuatedHolds`, `WaitMissesNothingHolds`, `OnlyObjectsHoldUpHolds`, `AbortWindsDownHolds` |
| `InventoryPipeline_proofs` | `PipelineTypeCorrect`, `DryRunTouchesNothingHolds`, `AppliedSurvivesRunHolds`, `DependentsGoneFirstHolds`, `OwnedStaysTrackedHolds` |
| `InventoryClient_proofs` | `ClientTypes`, `ForeignIsKept`, `NilMeansDoneHolds`, `UndisturbedIsCompleteHolds`, `ObservedIsOfTheSpecHolds`, `KeyRoundTrip`, `ReadBackHolds` |
| `EventStream_proofs` | `NilMeansNothingFailedHolds`, `AttemptsAreObjectsHolds`, `ShownIsLastHolds`, `StreamGoesOnHolds` |
| `StatusReporter_proofs` | `CountIsRight`, `FunnelClosesLast`, `FunnelClosedIsFinal` of EventFunnel; `ReporterTypeCorrect`, `ReporterUsesFunnel`, `ReporterClosesLast`, `ReporterIsWatcher`, `SendersHaveChannelHolds`, `NewsIsOnItsWayHolds`, `StopGoesOnHolds` of StatusReporter |
| `Polling_proofs` | `AugmentAgreesHolds` of KStatus; `ExitMeansRolledOutHolds`, `CollectorFollowsHolds`, `ErrorIsReturnedHolds`, `PollingTypeCorrect` |

**Graph and plan.** `SortLayers` and `HydrateSetList` are recursive functions.
The induction theorems of the library take an operator, which the provers cannot
instantiate, so `SetInduction` states induction over the natural numbers with a
set instead. By induction on the number of objects left, `LayersUnfold` shows
that the recursive definition has a value on every finite set and satisfies its
equation, and `LayersAreWell` that its layers are disjoint with the
dependencies of an object in earlier ones. `HydrateWell` carries that over to what is kept of
the layers, and `SortedPlanWell` to the plan. `SortComputesLayers` ties the sort
the code does to the definition the plans use: the layers sorted so far,
followed by the layers of what is left, are the layers of the whole graph
(`LayersInv`). The other theorems about the sort add `CopyFollowsGraph`, that
the copy has exactly the edges between the vertices that are left: a leaf of
the copy then has all its dependencies in earlier layers, and when there is no
leaf every vertex left has a dependency left. `SortBounded`: each round takes a
vertex, so there are no more rounds than objects.

**TaskRunner.** Types need that queues built from a plan are sequences of tasks
(`BuildType`). `NoTaskOutlivesRun` is not inductive: it needs that a goroutine
exists only with a current task, which is why `RecvDone` and `RecvWatchError` may
complete at once when there is none. `WaitBookkeeping` and `SuccessTracksCache`
are proved together with two facts they need (`WaitInv`): every object a task is
about is registered with the manager (`TasksFound`, else `SetReconcile` would
fail and only be logged), and an object the wait started with as skipped keeps
that status (`SkippedStaysSkipped`). The order of dependencies is `OrderInv`. An
object whose actuation is pending is exactly one that the goroutine or the queue
has yet to come to (`PendingIsAhead`); no object is left for two tasks of a kind
(`OneTaskEach`), so an outcome is given once; and nothing is reconciled before
its wait (`WaitIsAhead`). What an object was actuated on top of therefore is
settled and stays so (`RelatedSettled`): its actuation is done, and the wait that
made it reconciled is not the current one, so that no later status can undo it.
A late status (Disagreements) reaches an object while its wait is current; the
filter of the next layer looks later, and sees what the status did.
`OnlyObjectsHoldUp` rests on `HoldInv`: what a wait has pending is not
reconciled in the latest report (`WaitMissesNothing`, since startInner and
StatusUpdate both look at it), a wait with nothing pending or whose run is
aborted has been told to end, and a wait has the timeout of the run, which
`BuildTimed` shows of every queue that is built (`TimedTasks`).

**InventoryPipeline.** `PipelineInv` relates the memory of a run to the cluster
and to the stored inventory. `QueueInv`: the queue has tasks for objects of the
plan, every actuation is followed by its wait, and the last task is the one that
writes the inventory. `PendingInv` and `WaitedInv`: what has no outcome, or was
not waited for, is ahead. `StoredInv`: the inventory in memory is the stored one, and has
what is applied from the end of the first task on. `AppliedInv` and
`DeletedInv`: what the manager says of an object, in terms of the UIDs in the
cluster. `OwnedInv`: an object that is ours and in the inventory is the
inventory's namespace, or in the inventory by an identifier the caller gave, or
is as it was when the run was planned. Steps are grouped by what they do to the cluster
(`ClusterEffect`: no object gets a UID something was planned to be deleted
with, and only the run makes things ours), so that one lemma covers other actors
and another every step that handles an object. `AppliedSurvivesRun` then is:
an object that still has its planned UID and was applied was applied
with that UID, so `CurrentUIDFilter` sees it. `DependentsGoneFirst`: a dependent
that lets the filter pass was found gone. `OwnedStaysTrackedButLeftOut`: at the last task
no actuation is pending and nothing was left unwaited, so each object that leaves the
inventory is gone, was released, is applied under another identifier, or is
one of `LeftOut`. The theorem needs no assumption about late statuses or about
pruning: where a late status can arrive, an object that was deleted and is in no
set that is kept is pending, and so is in `LeftOut`; without
pruning nothing of the inventory is in the plan but what the caller has.

**InventoryClient.** `ServerInv` types the object and its version. `CopyInv`
says that a client's copy with the version that is stored is equal to what is
stored, which holds because a step either leaves the object alone or gives it a
version no copy has (`Versioned`); so the update that is let through writes back
every field it did not mean to change. `Progress` says what a client has done
when it is at each place of its call: the status part begins only after its spec
has been in the cluster, and a conflict there starts that part again, never the
call. `WholeInv` adds what is true of a client nobody disturbed, at each place,
and `AuthorInv` that the references stored are those of the last author, and that
a call between its spec and its status is the author as long as calls do not
overlap. Both are proved from one classification of the steps of a client by
what they do to the stored object (`Begins`, `GoesOn`, `StoresSpec` and so on).
So is `ReadInv`, that the stored spec is what `toUnstructured` makes of its
author's contents. `ReadBack` then is a fact about keys, `KeyRoundTrip`: the
namespace has no separator, so the first one ends it (`FirstSepAt`); group and
kind have none, so the last two start them (`FinalSepAt`); and `ColonsIn` undoes
`ColonsOut`, by induction from the end of a name, because a name has no separator
of its own that could pair with those that stand for a colon (`ColonsRoundTrip`).
Both are recursive functions, and `LaterExist` shows that they have a value.

**EventStream.** `StreamInv` has no history of the channel: it says that
counters and rows are up to date but for the one event in the channel (`Attempts`,
`InfosAgree`, `FailsCounted`), which holds because an object that is still ahead
has no outcome (`Ahead`, from `GroupsAssumption`) and so changes one counter
once. `Phases` says how far the run, the channel and the reader can be from one
another; only an error, the last event of a run, parts them. `ShownAgree` is the
last table. `StreamGoesOn` adds `EndsMeet`: a group that goes on has something
left, and a reader that has returned has read the last event.

**EventFunnel and StatusReporter.** The invariant of the funnel is that the
loop's counter is the number of drains that have not ended (`CountInv`);
`OpenGrows` and `OpenShrinks` say what opening and ending an input do to that
cardinality. The output is closed at zero with the context done, so no input is
open then, and none is opened later. This is proved of the funnel among any
producers, and `StepOfFunnel` shows that every step of the reporter is one of the
funnel or leaves it alone, so that `CountInv` carries over. What is sent then has
to be an event of an object with a version of it, which is where the types of the
reporter come in, one group of variables after the other (`ReporterInv`).
`ReporterIsWatcher` is the refinement of StatusPromise, step by step: a step that
shows the reader nothing new stutters, stops the watch, or closes the channel
(`QuietStep`); it can close it only when the count falls to zero after the
context was done, and never when an input is added (`OutputCloses`), which is why
the step of `Start` that returns the funnel's output cannot return a closed one.
`SendersHaveChannel` rests on `SenderInv`: what belongs to the informer of an
attempt is there only while the attempt runs, and an attempt that is yet to be
made is unused, so that a start after a stop has nothing of an earlier one.
`NewsIsOnItsWay` follows the newest version of an object from the informer to the
reader, one place after the other; it needs that an attempt lists once and while
it runs (`NewsInv`), and that a list has everything that is there (`ListFinds`).
A version that is nowhere on that way is in `unread`.
Once queue, handler and drain are empty, the reader has that version.
`StopGoesOn` turns the counter round: a funnel that has noticed the end of the
context and is open has an input, and an open input has a drain that can go on or
an owner that has yet to close it (`OwnersInv`).

**Polling.** `AugmentAgrees` holds of every object with the fields the rules read
(`IsObject`), whatever its list of conditions (`ComputeOfAugment`): what Augment
adds is found by the generic rules before those of the kind are asked. The rule of
each kind is turned round: an object that is current has counts that agree, and
its observed generation is its own (`CurrentByRule`, `CurrentStatusIsComplete`).
`RolloutInv` has what that means in the cluster: whenever the workload as it is
now would be found current, its generation was rolled out. The controller counts
the pods as they are when it writes, a new generation is not the observed one,
and a later crash does not take back what was rolled out once. `SeenInv` carries this along the way of a status: from the list
in the cache, over what the poller sends, to what the collector has, each is
either not current or of a generation that was rolled out. No relation between the
lists of one pass is needed, because the rules of a workload that lead to
current read its own object only; the pods of its list can make it fail, but not
make it current. `ErrInv`: an error of the poller that it did not drop is on its way to the
collector before its channel is closed. `FollowInv`: what is in `prev` is being sent or is what the
collector has, and for every identifier before the position of a pass that is
what the readers make of the cache. The types need that a pass is a
sequence, so that its position is in it: `FlattenSeq` is recursive, and
`FlattenIsLong` is about it by `FromOne`, induction over the numbers up to a bound.
The attempt to prove `ExitMeansRolledOut` found the case of the daemon set
above, which the bounds of the run do not reach.

*Only model-checked.* Liveness is out of the prover's reach: `AbortReturns`,
`TimeoutReturns`, `SortEnds`, `PresentIsReported`, `CommandEnds`, `RunEnds`, and
the part of `KeepsPromise` that is fairness. Of all but `CommandEnds` the half
that is safety is proved, for any number of objects, informers and plans, where
TLC has the bounds of its run: that nobody is stuck (`OnlyObjectsHoldUp` and
`AbortWindsDown` for TaskRunner, `StopGoesOn` for StatusReporter, `StreamGoesOn`
for EventStream), that nothing is lost on the way (`NewsIsOnItsWay`), and that
rounds are bounded (`SortBounded`). What TLC adds is that the steps that can be
taken are taken, in the end, under the fairness above, and lead where they
should. These formulas stand in the proof modules, since no run has to check
them once they are proved; TLC has checked them on the instances of the runs.

## Not modelled

Field values, and so what mutation substitutes; the REST mapper of the pruner;
which objects validation refuses; propagation policies; the order inside a
layer; the wording of printed output; the errors that end the status command
before it polls; the flags of the other commands; everything "components" lists
as not modelled, with its reason. Mutation has one more step that the applier
never reaches: a source without a namespace would be looked up in that of its
target (`apply_time_mutator.go:79-82`), but the graph builder has refused it as an
external dependency before (`depends.go:168-190`).

## Plan

* *Mutation* and *Validation* as operators on references and fields.
