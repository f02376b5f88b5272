----------------------------- MODULE TaskRunner -----------------------------
(***************************************************************************)
(* TaskStatusRunner.Run (pkg/apply/taskrunner/runner.go) with the tasks it *)
(* executes: the WaitTask (task.go, condition.go), and the apply, prune    *)
(* and inventory tasks as goroutines that actuate one object at a time.    *)
(* The goroutine of the current task, the runner's select loop, the status *)
(* watcher, the timers and the caller's context take steps in any order.   *)
(***************************************************************************)
EXTENDS Solver

CONSTANTS Edges,    \* the graph of the task context
          Plans,    \* the plans a run may be started with
          Reports,  \* the resource statuses the watcher may report
          Answers   \* <<uid, generation>> the API server may answer an apply

Statuses == {"InProgress", "Current", "Failed", "Terminating", "NotFound", "Unknown"}

\* A cached resource: uid and gen are NoUID and 0 when the resource is nil.
ResourceStatus == [status : Statuses, uid : UIDs \cup {NoUID}, gen : Nat]

\* What ResourceCacheMap.Get returns for an object that is not cached.
NotCached == [status |-> "Unknown", uid |-> NoUID, gen |-> 0]

ASSUME RunnerAssumption ==
    /\ Edges \subseteq Objects \X Objects
    /\ Plans \subseteq PlanType
    /\ Reports \subseteq ResourceStatus
    /\ Answers \subseteq UIDs \X Nat

ASSUME PlanAssumption == \A p \in Plans : OneSetEach(p)

VARIABLES
    plan,       \* the plan of the run (never changes)
    queue,      \* taskQueue: the tasks that were not started
    current,    \* currentTask, or NoTask
    worker,     \* goroutine of the current task: none, working, sending
    remaining,  \* objects the goroutine of an actuation task has yet to handle
    taskErr,    \* TaskResult.Err is set
    waitCtx,    \* context of the wait task: active, canceled, deadline
    pending,    \* WaitTask.pending
    failed,     \* WaitTask.failed
    cache,      \* TaskContext.resourceCache
    im,         \* TaskContext.inventoryManager
    abort,      \* abort
    doneSeen,   \* doneCh was set to nil
    phase,      \* of Run: running, completing (draining statusChannel), returned
    result,     \* what Run returns: none yet, ok, taskFailed, aborted
    ctxDone,    \* the caller cancelled the context of the run
    synced,     \* the watcher sent its SyncEvent
    watchErr,   \* the watcher sent an ErrorEvent
    statusCh    \* statusChannel: open, closed

taskVars    == <<queue, current, worker, remaining, taskErr>>
waitVars    == <<waitCtx, pending, failed>>
runVars     == <<abort, doneSeen, phase, result>>
watchVars   == <<synced, watchErr, statusCh>>
vars == <<plan, taskVars, waitVars, cache, im, runVars, ctxDone, watchVars>>

NoTask == [action |-> "None", ids |-> {}, cond |-> "None", timeout |-> FALSE]

TypeOK ==
    /\ plan \in PlanType
    /\ queue \in Seq(Task)
    /\ current \in Task \cup {NoTask}
    /\ worker \in {"none", "working", "sending"}
    /\ remaining \subseteq Objects
    /\ taskErr \in BOOLEAN
    /\ waitCtx \in {"none", "active", "canceled", "deadline"}
    /\ pending \subseteq Objects
    /\ failed \subseteq Objects
    /\ cache \in [Objects -> ResourceStatus]
    /\ im \in Managers
    /\ abort \in BOOLEAN
    /\ doneSeen \in BOOLEAN
    /\ phase \in {"running", "completing", "returned"}
    /\ result \in {"none", "ok", "taskFailed", "aborted"}
    /\ ctxDone \in BOOLEAN
    /\ synced \in BOOLEAN
    /\ watchErr \in BOOLEAN
    /\ statusCh \in {"open", "closed"}

\* The objects the watcher is asked to watch.
Identifiers == Members(plan.applySets) \cup Members(plan.pruneSets)

Init ==
    /\ plan \in Plans
    /\ queue = Build(plan)
    /\ im = PlannedManager(plan)
    /\ cache = [id \in Objects |-> NotCached]
    /\ current = NoTask /\ worker = "none" /\ remaining = {} /\ taskErr = FALSE
    /\ waitCtx = "none" /\ pending = {} /\ failed = {}
    /\ abort = FALSE /\ doneSeen = FALSE /\ phase = "running" /\ result = "none"
    /\ ctxDone = FALSE
    /\ synced = FALSE /\ watchErr = FALSE /\ statusCh = "open"

----------------------------------------------------------------------------
(* What a wait task reads from the cache `c' and the manager `m'.          *)

Target(cond) == IF cond = "AllCurrent" THEN "Current" ELSE "NotFound"

\* conditionMet for one object: a cached resource older than the applied
\* generation does not count.
Reconciled(c, m, cond, id) ==
    /\ c[id].status = Target(cond)
    /\ c[id].gen >= m[id].gen

\* The object was deleted and created again since it was applied or deleted.
ChangedUID(c, m, id) ==
    /\ m[id].uid # NoUID
    /\ c[id].uid # NoUID
    /\ m[id].uid # c[id].uid

\* WaitTask.skipped; && binds tighter than || in the code, so the second
\* alternative of each pair does not look at the condition.
SkippedByActuation(m, cond, id) ==
    \/ cond = "AllCurrent" /\ id \in WithActuation(m, "Apply", "Failed")
    \/ id \in WithActuation(m, "Apply", "Skipped")
    \/ cond = "AllNotFound" /\ id \in WithActuation(m, "Delete", "Failed")
    \/ id \in WithActuation(m, "Delete", "Skipped")

\* handleChangedUID: after a delete a recreated object counts as deleted,
\* after an apply it cannot be verified.
ReplacedOutcome(cond) == IF cond = "AllNotFound" THEN "Succeeded" ELSE "Failed"

----------------------------------------------------------------------------
(* Starting a task: nextTask and Task.Start.                               *)

StartActuation(t) ==
    /\ t.action # "Wait"
    /\ remaining' = t.ids
    /\ waitCtx' = "none" /\ pending' = {} /\ failed' = {}
    /\ UNCHANGED im

\* startInner: the reconcile status each object of the wait starts with.
StartOutcome(t, id) ==
    CASE SkippedByActuation(im, t.cond, id) -> "Skipped"
      [] ~SkippedByActuation(im, t.cond, id) /\ ChangedUID(cache, im, id)
           -> ReplacedOutcome(t.cond)
      [] ~SkippedByActuation(im, t.cond, id) /\ ~ChangedUID(cache, im, id)
           -> IF Reconciled(cache, im, t.cond, id) THEN "Succeeded" ELSE "Pending"

\* Mutant: a wait with nothing to wait for is not told to end.
StartWaitUnchecked(t) ==
    /\ t.action = "Wait"
    /\ remaining' = {}
    /\ im' = [id \in Objects |->
                IF id \in t.ids /\ Found(im, id)
                  THEN [im[id] EXCEPT !.reconcile = StartOutcome(t, id)]
                  ELSE im[id]]
    /\ pending' = {id \in t.ids : StartOutcome(t, id) = "Pending"}
    /\ failed' = {}
    /\ waitCtx' = "active"

StartWait(t) ==
    /\ t.action = "Wait"
    /\ remaining' = {}
    /\ im' = [id \in Objects |->
                IF id \in t.ids /\ Found(im, id)
                  THEN [im[id] EXCEPT !.reconcile = StartOutcome(t, id)]
                  ELSE im[id]]
    /\ pending' = {id \in t.ids : StartOutcome(t, id) = "Pending"}
    /\ failed' = {}
    /\ waitCtx' = IF pending' = {} THEN "canceled" ELSE "active"

\* complete: cancel the watcher, then drain statusChannel (see Return).
Complete(r) == phase' = "completing" /\ result' = r

NextTask ==
    \/ /\ queue # <<>>
       /\ queue' = Tail(queue)
       /\ current' = Head(queue)
       /\ worker' = "working" /\ taskErr' = FALSE
       /\ StartActuation(Head(queue)) \/ StartWait(Head(queue))
       /\ UNCHANGED <<phase, result>>
    \/ /\ queue = <<>>
       /\ Complete("ok")
       /\ current' = NoTask /\ worker' = "none"
       /\ UNCHANGED <<queue, remaining, taskErr, waitVars, im>>

----------------------------------------------------------------------------
(* WaitTask.StatusUpdate, called with the cache already updated to `c'.    *)
(* Each operator is the reconcile status one branch of the switch gives    *)
(* the object, or "keep".                                                  *)

PendingOutcome(c, id) ==
    CASE ChangedUID(c, im, id) -> ReplacedOutcome(current.cond)
      [] ~ChangedUID(c, im, id) /\ Reconciled(c, im, current.cond, id)
           -> "Succeeded"
      [] ~ChangedUID(c, im, id) /\ ~Reconciled(c, im, current.cond, id)
           -> IF c[id].status = "Failed" THEN "Failed" ELSE "keep"

\* A failed object that becomes reconciled before the wait ends counts as
\* reconciled; one that is merely no longer failed is waited for again.
FailedOutcome(c, id) ==
    CASE Reconciled(c, im, current.cond, id) -> "Succeeded"
      [] ~Reconciled(c, im, current.cond, id)
           -> IF c[id].status = "Failed" THEN "keep" ELSE "Pending"

\* Mutant: a settled object stays settled.
SettledForGood(c, id) == "keep"

\* A settled object that is not reconciled any more is waited for again.
SettledOutcome(c, id) ==
    IF Reconciled(c, im, current.cond, id) THEN "keep" ELSE "Pending"

UpdateOutcome(c, id) ==
    CASE id \in pending -> PendingOutcome(c, id)
      [] id \notin pending /\ SkippedByActuation(im, current.cond, id) -> "keep"
      [] id \notin pending /\ ~SkippedByActuation(im, current.cond, id)
           -> IF id \in failed THEN FailedOutcome(c, id) ELSE SettledOutcome(c, id)

\* A replaced object leaves the pending set without joining the failed one.
\* An empty pending set cancels the context; one that is done keeps its error.
StatusUpdate(c, id) ==
    LET outcome == UpdateOutcome(c, id)
        joinsFailed == outcome = "Failed" /\ ~ChangedUID(c, im, id)
    IN  \/ /\ outcome = "keep"
           /\ UNCHANGED <<im, waitVars>>
        \/ /\ outcome # "keep"
           /\ im' = SetReconcile(im, id, outcome)
           /\ pending' = IF outcome = "Pending" THEN pending \cup {id}
                                                ELSE pending \ {id}
           /\ failed' = IF joinsFailed THEN failed \cup {id} ELSE failed \ {id}
           /\ waitCtx' = IF pending' = {} /\ waitCtx = "active" THEN "canceled"
                                                                ELSE waitCtx

\* Mutant: the wait is not interrupted.
CancelNothing == UNCHANGED waitCtx

\* Cancel: only a wait task can be interrupted.
CancelCurrent ==
    waitCtx' = IF waitCtx = "active" THEN "canceled" ELSE waitCtx

----------------------------------------------------------------------------
(* The select loop of Run.                                                 *)

\* case statusEvent: a resource update.  Once abort is set, or the channel is
\* closed, the loop ignores what it receives and stutters.
RecvStatus(id, r) ==
    /\ phase = "running" /\ statusCh = "open" /\ ~abort
    /\ id \in Identifiers
    /\ cache' = [cache EXCEPT ![id] = r]
    /\ \/ /\ current.action = "Wait" /\ id \in current.ids
          /\ StatusUpdate(cache', id)
       \/ /\ current.action # "Wait" \/ id \notin current.ids
          /\ UNCHANGED <<im, waitVars>>
    /\ UNCHANGED <<plan, taskVars, runVars, ctxDone, watchVars>>

\* case statusEvent: the watcher is synchronized, the first task starts.
RecvSync ==
    /\ phase = "running" /\ statusCh = "open" /\ ~synced
    /\ synced' = TRUE
    /\ \/ ~abort /\ NextTask
       \/ abort /\ UNCHANGED <<taskVars, waitVars, im, phase, result>>
    /\ UNCHANGED <<plan, cache, abort, doneSeen, ctxDone, watchErr, statusCh>>

\* case statusEvent: the watcher failed.  Its channel will be closed soon.
RecvWatchError ==
    /\ phase = "running" /\ statusCh = "open" /\ ~abort
    /\ watchErr' = TRUE
    /\ abort' = TRUE
    /\ \/ current # NoTask /\ CancelCurrent /\ UNCHANGED <<phase, result>>
       \/ current = NoTask /\ Complete("aborted") /\ UNCHANGED waitCtx
    /\ UNCHANGED <<plan, taskVars, pending, failed, cache, im, doneSeen,
                   ctxDone, synced, statusCh>>

\* case msg := <-TaskChannel(): the goroutine of the current task is done.
RecvTaskResult ==
    /\ phase = "running" /\ worker = "sending"
    /\ \/ /\ taskErr
          /\ Complete("taskFailed")
          /\ worker' = "none"
          /\ UNCHANGED <<queue, current, remaining, taskErr, waitVars, im>>
       \/ /\ ~taskErr /\ abort
          /\ Complete("aborted")
          /\ worker' = "none"
          /\ UNCHANGED <<queue, current, remaining, taskErr, waitVars, im>>
       \/ ~taskErr /\ ~abort /\ NextTask
    /\ UNCHANGED <<plan, cache, abort, doneSeen, ctxDone, watchVars>>

\* Mutant: completes without waiting for the result of the current task.
RecvDoneAtOnce ==
    /\ phase = "running" /\ ctxDone /\ ~doneSeen
    /\ doneSeen' = TRUE
    /\ abort' = TRUE
    /\ Complete("aborted") /\ CancelCurrent
    /\ UNCHANGED <<plan, taskVars, pending, failed, cache, im, ctxDone, watchVars>>

\* case <-doneCh: the caller cancelled the context.
RecvDone ==
    /\ phase = "running" /\ ctxDone /\ ~doneSeen
    /\ doneSeen' = TRUE
    /\ abort' = TRUE
    /\ \/ current # NoTask /\ CancelCurrent /\ UNCHANGED <<phase, result>>
       \/ current = NoTask /\ Complete("aborted") /\ UNCHANGED waitCtx
    /\ UNCHANGED <<plan, taskVars, pending, failed, cache, im, ctxDone, watchVars>>

\* The end of complete: statusChannel is closed, Run returns.
Return ==
    /\ phase = "completing" /\ statusCh = "closed"
    /\ phase' = "returned"
    /\ UNCHANGED <<plan, taskVars, waitVars, cache, im, abort, doneSeen, result,
                   ctxDone, watchVars>>

Runner ==
    \/ \E id \in Objects, r \in Reports : RecvStatus(id, r)
    \/ RecvSync
    \/ RecvWatchError
    \/ RecvTaskResult
    \/ RecvDone
    \/ Return

----------------------------------------------------------------------------
(* The goroutine of the current task.                                      *)

Strategy(t) == IF t.action = "Apply" THEN "Apply" ELSE "Delete"

Actuating == worker = "working" /\ current.action \in {"Apply", "Prune"}

OneObjectDone(id) ==
    /\ remaining' = remaining \ {id}
    /\ UNCHANGED <<plan, queue, current, worker, taskErr, waitVars, cache,
                   runVars, ctxDone, watchVars>>

\* The object is not actuated: a filter skipped it (Skipped), or a fatal
\* filter error, a mutation error or the API server failed it (Failed).
\* The dependency filter is the last of the filters, so the others may
\* stop an object whose dependencies pass.
NotActuated(id, actuation) ==
    /\ Actuating /\ id \in remaining
    /\ im' = AddUnsuccessful(im, Strategy(current), actuation, id)
    /\ OneObjectDone(id)

ApplyObject(id, answer) ==
    /\ Actuating /\ current.action = "Apply" /\ id \in remaining
    /\ DependenciesPass(Edges, im, plan.invalid, plan.dryRun, "Apply", id)
    /\ im' = AddSuccessfulApply(im, id, answer[1], answer[2])
    /\ OneObjectDone(id)

\* Prune: uid is the UID the object had when the run was planned.
DeleteObject(id, uid) ==
    /\ Actuating /\ current.action = "Prune" /\ id \in remaining
    /\ DependenciesPass(Edges, im, plan.invalid, plan.dryRun, "Delete", id)
    /\ uid \notin AppliedResourceUIDs(im)
    /\ im' = AddSuccessfulDelete(im, id, uid)
    /\ OneObjectDone(id)

\* An apply or prune task sends its result after the last object; an
\* inventory task after its write, which may fail.
ActuationDone ==
    /\ worker = "working" /\ current.action # "Wait" /\ remaining = {}
    /\ worker' = "sending"
    /\ taskErr' \in IF current.action = "Inventory" THEN BOOLEAN ELSE {FALSE}
    /\ UNCHANGED <<plan, queue, current, remaining, waitVars, cache, im, runVars,
                   ctxDone, watchVars>>

\* The timer of a wait task that has a timeout fires.
WaitDeadline ==
    /\ current.action = "Wait" /\ current.timeout /\ waitCtx = "active"
    /\ waitCtx' = "deadline"
    /\ UNCHANGED <<plan, taskVars, pending, failed, cache, im, runVars, ctxDone,
                   watchVars>>

\* Mutant: only a cancelled wait ends.
WaitDoneCanceled ==
    /\ worker = "working" /\ current.action = "Wait" /\ waitCtx = "canceled"
    /\ worker' = "sending"
    /\ UNCHANGED <<plan, queue, current, remaining, taskErr, waitVars, cache, im,
                   runVars, ctxDone, watchVars>>

\* <-ctx.Done(); after a deadline sendTimeoutEvents marks what is pending.
WaitDone ==
    /\ worker = "working" /\ current.action = "Wait"
    /\ waitCtx \in {"canceled", "deadline"}
    /\ im' = IF waitCtx = "deadline"
               THEN [id \in Objects |->
                       IF id \in pending /\ Found(im, id)
                         THEN [im[id] EXCEPT !.reconcile = "Timeout"]
                         ELSE im[id]]
               ELSE im
    /\ worker' = "sending"
    /\ UNCHANGED <<plan, queue, current, remaining, taskErr, waitVars, cache,
                   runVars, ctxDone, watchVars>>

Goroutine ==
    \/ \E id \in Objects :
          \/ \E a \in {"Failed", "Skipped"} : NotActuated(id, a)
          \/ \E answer \in Answers : ApplyObject(id, answer)
          \/ \E uid \in UIDs : DeleteObject(id, uid)
    \/ ActuationDone
    \/ WaitDone

----------------------------------------------------------------------------
(* The caller and the watcher.                                             *)

CancelContext ==
    /\ ~ctxDone /\ phase # "returned"
    /\ ctxDone' = TRUE
    /\ UNCHANGED <<plan, taskVars, waitVars, cache, im, runVars, watchVars>>

\* The watcher closes its channel after an error or once it is cancelled.
CloseStatus ==
    /\ statusCh = "open"
    /\ watchErr \/ phase # "running"
    /\ statusCh' = "closed"
    /\ UNCHANGED <<plan, taskVars, waitVars, cache, im, runVars, ctxDone, synced,
                   watchErr>>

Next == Runner \/ Goroutine \/ WaitDeadline \/ CancelContext \/ CloseStatus

Spec == Init /\ [][Next]_vars

(***************************************************************************)
(* select picks among the ready cases at random, so a case that stays      *)
(* ready is taken; the Go scheduler runs every goroutine that can run;     *)
(* timers fire; a cancelled watcher closes its channel.  Nothing is        *)
(* assumed of the reports, of the sync event or of the caller.             *)
(***************************************************************************)
Fairness ==
    /\ WF_vars(RecvTaskResult)
    /\ WF_vars(RecvDone)
    /\ WF_vars(Return)
    /\ WF_vars(Goroutine)
    /\ WF_vars(WaitDeadline)
    /\ WF_vars(CloseStatus)

FairSpec == Spec /\ Fairness

----------------------------------------------------------------------------
(* Properties.                                                             *)

\* Run never returns, and never starts draining the watcher, while the
\* goroutine of a task is alive: the applier closes the event channel the
\* goroutine sends on as soon as Run returns (runner.go:66-79, applier.go).
NoTaskOutlivesRun == phase # "running" => worker = "none"

\* The pending and failed sets of the current wait task and the reconcile
\* statuses of the inventory manager always say the same of each object of
\* the wait, whatever order the updates and the deadline come in; and a wait
\* that has nothing pending has been told to end (task.go:148-209, 317-411).
WaitBookkeeping ==
    current.action = "Wait" =>
        /\ pending = {id \in current.ids : im[id].reconcile \in {"Pending", "Timeout"}}
        /\ failed \subseteq {id \in current.ids : im[id].reconcile = "Failed"}
        /\ pending = {} => waitCtx # "active"

\* While a wait task is current, an object it counts as reconciled is
\* reconciled in the latest status the runner received, at a generation not
\* older than the applied one: "has reached (and remains in)"
\* (condition.go:17-25).  After a delete, an object that was recreated under
\* another UID counts too (task.go:282-294).
SuccessTracksCache ==
    current.action = "Wait" =>
        \A id \in current.ids :
            im[id].reconcile = "Succeeded" =>
                \/ Reconciled(cache, im, current.cond, id)
                \/ current.cond = "AllNotFound" /\ ChangedUID(cache, im, id)

\* An object is only ever applied on top of dependencies that were applied
\* and reconciled in this run, and no later status update takes that back:
\* the wait of a lower layer is over before the next layer is applied
\* (dependency-filter.go:54-160, solver.go:150-190).
AppliedAfterDependencies ==
    \A a \in WithActuation(im, "Apply", "Succeeded") : \A b \in Dependencies(Edges, a) :
        /\ im[b].strategy = "Apply" /\ im[b].actuation = "Succeeded"
        /\ plan.dryRun \/ im[b].reconcile = "Succeeded"

\* The mirror image: an object is only deleted once everything that depends
\* on it was deleted and is gone.
DeletedAfterDependents ==
    \A a \in WithActuation(im, "Delete", "Succeeded") : \A b \in Dependents(Edges, a) :
        /\ im[b].strategy = "Delete" /\ im[b].actuation = "Succeeded"
        /\ plan.dryRun \/ im[b].reconcile = "Succeeded"

\* A run that returns without an error has an outcome for every object of
\* its plan: no set of the plan was lost on the way from the sorted layers
\* through the queue to the goroutines (solver.go:116-226, runner.go:229-252).
OkMeansActuated ==
    result = "ok" => \A id \in Objects : im[id].actuation # "Pending"

\* Once the caller cancels the context, or the watcher fails, the run
\* returns, whatever task is current, also one that waits without a timeout,
\* and also when the watcher never synchronizes (runner.go:114-135, 211-221).
AbortReturns == ctxDone \/ abort ~> phase = "returned"

\* A run whose waits have a timeout returns once its tasks have started,
\* whatever the watcher reports or stops reporting (task.go:93-132).
TimeoutReturns == plan.timeout /\ synced ~> phase = "returned"
=============================================================================
