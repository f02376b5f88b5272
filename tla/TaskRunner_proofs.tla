-------------------------- MODULE TaskRunner_proofs --------------------------
(***************************************************************************)
(* Theorems of TaskRunner, for every set of objects, plans, reports and    *)
(* answers.                                                                *)
(***************************************************************************)
EXTENDS TaskRunner, Solver_proofs

----------------------------------------------------------------------------
(* Type correctness.                                                       *)

\* A run starts well typed: what Build makes of a plan is a queue of tasks.
LEMMA InitType == Init => TypeOK
<1> SUFFICES ASSUME Init PROVE TypeOK
  OBVIOUS
<1>1. plan \in PlanType
  BY RunnerAssumption DEF Init
<1>2. queue \in Seq(Task)
  <2>1. Build(plan) \in Seq(TaskOn(Registered(plan)))
    BY <1>1, BuildType
  <2>2. TaskOn(Registered(plan)) \subseteq Task
    BY DEF TaskOn
  <2> HIDE DEF TaskOn
  <2> QED
    BY <2>1, <2>2 DEF Init
<1>3. im \in Managers
  BY PlannedManagerType DEF Init
<1>4. cache \in [Objects -> ResourceStatus]
  BY DEF Init, ResourceStatus, NotCached, Statuses
<1> QED
  BY <1>1, <1>2, <1>3, <1>4 DEF Init, TypeOK

\* nextTask and Task.Start keep the variables they write well typed.
LEMMA NextTaskType ==
    ASSUME TypeOK, NextTask
    PROVE  /\ queue' \in Seq(Task)
           /\ current' \in Task \cup {NoTask}
           /\ worker' \in {"none", "working"}
           /\ remaining' \subseteq Objects
           /\ taskErr' \in BOOLEAN
           /\ waitCtx' \in {"none", "active", "canceled", "deadline"}
           /\ pending' \subseteq Objects /\ failed' \subseteq Objects
           /\ im' \in Managers
           /\ phase' \in {"running", "completing", "returned"}
           /\ result' \in {"none", "ok", "taskFailed", "aborted"}
<1>1. CASE queue = <<>>
  BY <1>1 DEF NextTask, TypeOK, Complete, waitVars, NoTask
<1>2. CASE queue # <<>>
  <2> DEFINE t == Head(queue)
  <2>1. /\ t \in Task /\ Tail(queue) \in Seq(Task)
        /\ queue' = Tail(queue) /\ current' = t /\ worker' = "working"
        /\ taskErr' = FALSE /\ UNCHANGED <<phase, result>>
        /\ StartActuation(t) \/ StartWait(t)
    BY <1>2 DEF NextTask, TypeOK
  <2>2. t.ids \subseteq Objects
    BY <2>1 DEF Task
  <2> HIDE DEF t
  <2>3. CASE StartActuation(t)
    BY <2>1, <2>2, <2>3 DEF StartActuation, TypeOK
  <2>4. CASE StartWait(t)
    <3>1. ASSUME NEW id \in Objects
          PROVE  StartOutcome(t, id) \in Reconciles
      BY DEF StartOutcome, ReplacedOutcome, Reconciles
    <3>2. im' \in Managers
      BY <2>4, <3>1 DEF StartWait, TypeOK, Managers, ObjectStatus, Found
    <3> QED
      BY <2>1, <2>2, <2>4, <3>2 DEF StartWait, TypeOK
  <2> QED
    BY <2>1, <2>3, <2>4
<1> QED
  BY <1>1, <1>2

\* So does a status update of the current wait task.
LEMMA StatusUpdateType ==
    ASSUME TypeOK, NEW id \in Objects, NEW c, StatusUpdate(c, id)
    PROVE  /\ im' \in Managers
           /\ waitCtx' \in {"none", "active", "canceled", "deadline"}
           /\ pending' \subseteq Objects /\ failed' \subseteq Objects
<1>1. CASE UpdateOutcome(c, id) = "keep"
  BY <1>1 DEF StatusUpdate, TypeOK, waitVars
<1>2. CASE UpdateOutcome(c, id) # "keep"
  <2>1. UpdateOutcome(c, id) \in Reconciles
    BY <1>2 DEF UpdateOutcome, PendingOutcome, FailedOutcome, SettledOutcome,
                ReplacedOutcome, Reconciles
  <2>2. im' \in Managers
    BY <1>2, <2>1, SetReconcileType DEF StatusUpdate, TypeOK
  <2> QED
    BY <1>2, <2>2 DEF StatusUpdate, TypeOK
<1> QED
  BY <1>1, <1>2

\* Every case of the select loop keeps the types.
LEMMA RunnerType == TypeOK /\ Runner => TypeOK'
<1> SUFFICES ASSUME TypeOK, Runner PROVE TypeOK'
  OBVIOUS
<1>1. ASSUME NEW id \in Objects, NEW r \in Reports, RecvStatus(id, r)
      PROVE  TypeOK'
  <2>1. cache' \in [Objects -> ResourceStatus]
    BY <1>1, RunnerAssumption DEF RecvStatus, TypeOK
  <2>2. CASE StatusUpdate(cache', id)
    BY <1>1, <2>1, <2>2, StatusUpdateType
    DEF RecvStatus, TypeOK, taskVars, runVars, watchVars
  <2>3. CASE UNCHANGED <<im, waitVars>>
    BY <1>1, <2>1, <2>3
    DEF RecvStatus, TypeOK, taskVars, waitVars, runVars, watchVars
  <2> QED
    BY <1>1, <2>2, <2>3 DEF RecvStatus
<1>2. CASE RecvSync
  <2>1. CASE NextTask
    BY <1>2, <2>1, NextTaskType DEF RecvSync, TypeOK
  <2>2. CASE UNCHANGED <<taskVars, waitVars, im, phase, result>>
    BY <1>2, <2>2 DEF RecvSync, TypeOK, taskVars, waitVars
  <2> QED
    BY <1>2, <2>1, <2>2 DEF RecvSync
<1>3. CASE RecvWatchError
  BY <1>3 DEF RecvWatchError, TypeOK, taskVars, CancelCurrent, Complete
<1>4. CASE RecvTaskResult
  <2>1. CASE NextTask
    BY <1>4, <2>1, NextTaskType DEF RecvTaskResult, TypeOK, watchVars
  <2>2. CASE ~NextTask
    BY <1>4, <2>2 DEF RecvTaskResult, TypeOK, waitVars, watchVars, Complete
  <2> QED
    BY <2>1, <2>2
<1>5. CASE RecvDone
  BY <1>5 DEF RecvDone, TypeOK, taskVars, watchVars, CancelCurrent, Complete
<1>6. CASE Return
  BY <1>6 DEF Return, TypeOK, taskVars, waitVars, watchVars
<1> QED
  BY <1>1, <1>2, <1>3, <1>4, <1>5, <1>6 DEF Runner

\* So does every step of the goroutine of a task.
LEMMA GoroutineType == TypeOK /\ Goroutine => TypeOK'
<1> SUFFICES ASSUME TypeOK, Goroutine PROVE TypeOK'
  OBVIOUS
<1> USE DEF waitVars, runVars, watchVars
<1>0. Strategy(current) \in Strategies
  BY DEF Strategy, Strategies
<1>1. ASSUME NEW id \in Objects, NEW a \in {"Failed", "Skipped"},
             NotActuated(id, a)
      PROVE  TypeOK'
  <2>1. im' \in Managers
    BY <1>0, <1>1, SetObjectStatusType
    DEF NotActuated, AddUnsuccessful, Actuations, TypeOK
  <2> QED
    BY <1>1, <2>1 DEF NotActuated, OneObjectDone, TypeOK
<1>2. ASSUME NEW id \in Objects, NEW answer \in Answers, ApplyObject(id, answer)
      PROVE  TypeOK'
  <2>1. answer[1] \in UIDs /\ answer[2] \in Nat
    BY RunnerAssumption
  <2>2. im' \in Managers
    BY <1>2, <2>1, SetObjectStatusType
    DEF ApplyObject, AddSuccessfulApply, Actuations, Strategies, TypeOK
  <2> QED
    BY <1>2, <2>2 DEF ApplyObject, OneObjectDone, TypeOK
<1>3. ASSUME NEW id \in Objects, NEW uid \in UIDs, DeleteObject(id, uid)
      PROVE  TypeOK'
  <2>1. im' \in Managers
    BY <1>3, SetObjectStatusType
    DEF DeleteObject, AddSuccessfulDelete, Actuations, Strategies, TypeOK
  <2> QED
    BY <1>3, <2>1 DEF DeleteObject, OneObjectDone, TypeOK
<1>4. CASE ActuationDone
  <2>1. taskErr' \in BOOLEAN /\ worker' \in {"none", "working", "sending"}
    BY <1>4 DEF ActuationDone
  <2>2. UNCHANGED <<plan, queue, current, remaining, waitCtx, pending, failed, cache,
                    im, abort, doneSeen, phase, result, ctxDone, synced, watchErr,
                    statusCh>>
    BY <1>4 DEF ActuationDone
  <2> QED
    BY <2>1, <2>2 DEF TypeOK
<1>5. CASE WaitDone
  <2>1. im' \in Managers
    BY <1>5 DEF WaitDone, TypeOK, Managers, ObjectStatus, Reconciles, Found
  <2> QED
    BY <1>5, <2>1 DEF WaitDone, TypeOK
<1> QED
  BY <1>1, <1>2, <1>3, <1>4, <1>5 DEF Goroutine

\* Every variable keeps its type: the queue holds tasks, the manager and the
\* cache hold well-formed statuses of the objects of the run, in every
\* behaviour of the runner (runner.go:53-224).
THEOREM TypeCorrect == Spec => []TypeOK
<1>1. TypeOK /\ [Next]_vars => TypeOK'
  <2> SUFFICES ASSUME TypeOK, [Next]_vars PROVE TypeOK'
    OBVIOUS
  <2> USE DEF taskVars, waitVars, runVars, watchVars
  <2>1. CASE Runner
    BY <2>1, RunnerType
  <2>2. CASE Goroutine
    BY <2>2, GoroutineType
  <2>3. CASE WaitDeadline
    BY <2>3 DEF WaitDeadline, TypeOK
  <2>4. CASE CancelContext
    BY <2>4 DEF CancelContext, TypeOK
  <2>5. CASE CloseStatus
    BY <2>5 DEF CloseStatus, TypeOK
  <2>6. CASE UNCHANGED vars
    BY <2>6 DEF vars, TypeOK
  <2> QED
    BY <2>1, <2>2, <2>3, <2>4, <2>5, <2>6 DEF Next
<1> QED
  BY <1>1, InitType, PTL DEF Spec

----------------------------------------------------------------------------
(* No task outlives the run.                                               *)

\* Before the sync event no task is current, and a goroutine only lives while
\* its task is current and the loop is running.
RunnerInv ==
    /\ ~synced => current = NoTask
    /\ worker # "none" => current # NoTask /\ phase = "running"

\* The select loop, the goroutines and the environment keep it.
LEMMA RunnerInvariant == Spec => []RunnerInv
<1>1. Init => RunnerInv
  BY DEF Init, RunnerInv
<1>2. TypeOK /\ RunnerInv /\ [Next]_vars => RunnerInv'
  <2> SUFFICES ASSUME TypeOK, RunnerInv, [Next]_vars PROVE RunnerInv'
    OBVIOUS
  <2> USE DEF taskVars, waitVars, runVars, watchVars, RunnerInv
  <2>1. ASSUME queue # <<>>, NextTask
        PROVE  current' # NoTask /\ UNCHANGED phase
    BY <2>1 DEF NextTask, TypeOK, Task, NoTask
  <2>2. ASSUME queue = <<>>, NextTask
        PROVE  current' = NoTask /\ worker' = "none"
    BY <2>2 DEF NextTask, TypeOK
  <2>3. CASE Runner
    <3>1. ASSUME NEW id \in Objects, NEW r \in Reports, RecvStatus(id, r)
          PROVE  RunnerInv'
      BY <3>1 DEF RecvStatus
    <3>2. CASE RecvSync
      BY <2>1, <2>2, <3>2 DEF RecvSync
    <3>3. CASE RecvWatchError
      BY <3>3 DEF RecvWatchError, Complete
    <3>4. CASE RecvTaskResult
      BY <2>1, <2>2, <3>4 DEF RecvTaskResult, Complete
    <3>5. CASE RecvDone
      BY <3>5 DEF RecvDone, Complete
    <3>6. CASE Return
      BY <3>6 DEF Return
    <3> QED
      BY <2>3, <3>1, <3>2, <3>3, <3>4, <3>5, <3>6 DEF Runner
  <2>4. CASE Goroutine
    BY <2>4 DEF Goroutine, NotActuated, ApplyObject, DeleteObject, Actuating,
                OneObjectDone, ActuationDone, WaitDone
  <2>5. CASE WaitDeadline
    BY <2>5 DEF WaitDeadline
  <2>6. CASE CancelContext
    BY <2>6 DEF CancelContext
  <2>7. CASE CloseStatus
    BY <2>7 DEF CloseStatus
  <2>8. CASE UNCHANGED vars
    BY <2>8 DEF vars
  <2> QED
    BY <2>3, <2>4, <2>5, <2>6, <2>7, <2>8 DEF Next
<1> QED
  BY <1>1, <1>2, TypeCorrect, PTL DEF Spec

\* The event channel is only closed after the goroutine of the last task
\* ended: from the moment Run starts to drain the watcher there is none
\* (runner.go:66-79, 185-221).
THEOREM NoTaskOutlives == Spec => []NoTaskOutlivesRun
<1>1. RunnerInv => NoTaskOutlivesRun
  BY DEF RunnerInv, NoTaskOutlivesRun
<1> QED
  BY <1>1, RunnerInvariant, PTL

----------------------------------------------------------------------------
(* The wait task.                                                          *)

\* Every object a task is about has an entry in the manager.
TasksFound ==
    /\ \A i \in 1 .. Len(queue) : \A id \in queue[i].ids : Found(im, id)
    /\ \A id \in current.ids : Found(im, id)

\* An object the wait started with as skipped stays skipped: no branch of
\* StatusUpdate touches it.
SkippedStaysSkipped ==
    current.action = "Wait" =>
        \A id \in current.ids :
            SkippedByActuation(im, current.cond, id) => im[id].reconcile = "Skipped"

WaitInv ==
    TasksFound /\ SkippedStaysSkipped /\ WaitBookkeeping /\ SuccessTracksCache

\* Only the reconcile statuses differ between the managers m and n.
SameActuation(m, n) ==
    \A id \in Objects :
        /\ Found(m, id) <=> Found(n, id)
        /\ n[id].strategy = m[id].strategy /\ n[id].actuation = m[id].actuation
        /\ n[id].uid = m[id].uid /\ n[id].gen = m[id].gen

\* What a wait reads of an object does not depend on the reconcile status.
LEMMA SameReads ==
    ASSUME NEW m, NEW n, SameActuation(m, n), NEW id \in Objects,
           NEW c, NEW cond
    PROVE  /\ Reconciled(c, n, cond, id) <=> Reconciled(c, m, cond, id)
           /\ ChangedUID(c, n, id) <=> ChangedUID(c, m, id)
           /\ SkippedByActuation(n, cond, id) <=> SkippedByActuation(m, cond, id)
BY DEF SameActuation, Reconciled, ChangedUID, SkippedByActuation, WithActuation

\* Setting the reconcile status of an object with an entry.
LEMMA SetReconcileEffect ==
    ASSUME NEW m \in Managers, NEW id \in Objects, Found(m, id),
           NEW r \in Reconciles
    PROVE  /\ SameActuation(m, SetReconcile(m, id, r))
           /\ SetReconcile(m, id, r)[id].reconcile = r
           /\ \A other \in Objects \ {id} : SetReconcile(m, id, r)[other] = m[other]
<1> DEFINE n == SetReconcile(m, id, r)
<1>1. /\ n[id] = [m[id] EXCEPT !.reconcile = r]
      /\ \A other \in Objects \ {id} : n[other] = m[other]
  BY DEF SetReconcile, Managers
<1>2. m[id] \in ObjectStatus
  BY DEF Managers, Found
<1>3. /\ n[id].strategy = m[id].strategy /\ n[id].actuation = m[id].actuation
      /\ n[id].uid = m[id].uid /\ n[id].gen = m[id].gen
      /\ n[id].reconcile = r
  BY <1>1, <1>2 DEF ObjectStatus
<1>4. Found(n, id)
  BY <1>2, <1>3 DEF Found, Untracked, ObjectStatus, Strategies
<1> QED
  BY <1>1, <1>3, <1>4 DEF SameActuation, Found

\* The tasks of a run are about its objects.
LEMMA TaskIds ==
    ASSUME TypeOK
    PROVE  /\ \A i \in 1 .. Len(queue) : queue[i].ids \subseteq Objects
           /\ current.ids \subseteq Objects
<1>1. \A i \in 1 .. Len(queue) : queue[i] \in Task
  BY DEF TypeOK
<1>2. current \in Task \cup {NoTask}
  BY DEF TypeOK
<1> QED
  BY <1>1, <1>2 DEF Task, NoTask

\* nextTask starts a wait with its books in order, or starts or ends
\* something else.
LEMMA NextTaskWait ==
    ASSUME TypeOK, TasksFound, NextTask, cache' = cache
    PROVE  WaitInv'
<1>1. CASE queue = <<>>
  <2>1. current' = NoTask /\ queue' = queue /\ im' = im
    BY <1>1 DEF NextTask, TypeOK
  <2> QED
    BY <1>1, <2>1 DEF WaitInv, TasksFound, SkippedStaysSkipped, WaitBookkeeping,
                      SuccessTracksCache, NoTask
<1>2. CASE queue # <<>>
  <2> DEFINE t == Head(queue)
  <2>1. /\ t \in Task /\ queue' = Tail(queue) /\ current' = t
        /\ StartActuation(t) \/ StartWait(t)
    BY <1>2 DEF NextTask, TypeOK
  <2>2. /\ \A id \in t.ids : Found(im, id)
        /\ \A i \in 1 .. Len(Tail(queue)) : \A id \in Tail(queue)[i].ids : Found(im, id)
    <3>1. Len(queue) \in Nat \ {0} /\ t = queue[1]
      BY <1>2 DEF TypeOK
    <3>2. /\ Len(Tail(queue)) = Len(queue) - 1
          /\ \A i \in 1 .. Len(Tail(queue)) : Tail(queue)[i] = queue[i + 1]
      BY <1>2 DEF TypeOK
    <3> HIDE DEF t
    <3> QED
      BY <3>1, <3>2 DEF TasksFound
  <2>3. t.ids \subseteq Objects /\ t.cond \in {"AllCurrent", "AllNotFound", "None"}
    BY <2>1 DEF Task
  <2> HIDE DEF t
  <2>4. CASE StartActuation(t)
    BY <2>1, <2>2, <2>4 DEF StartActuation, WaitInv, TasksFound,
       SkippedStaysSkipped, WaitBookkeeping, SuccessTracksCache
  <2>5. CASE StartWait(t)
    <3>1. ASSUME NEW id \in t.ids
          PROVE  /\ im'[id] = [im[id] EXCEPT !.reconcile = StartOutcome(t, id)]
                 /\ im[id] \in ObjectStatus
      BY <2>2, <2>3, <2>5 DEF StartWait, TypeOK, Managers, Found
    <3>2. ASSUME NEW id \in t.ids
          PROVE  im'[id].reconcile = StartOutcome(t, id)
      BY <3>1 DEF ObjectStatus
    <3>3. SameActuation(im, im')
      <4> SUFFICES ASSUME NEW id \in Objects
                   PROVE  /\ Found(im, id) <=> Found(im', id)
                          /\ im'[id].strategy = im[id].strategy
                          /\ im'[id].actuation = im[id].actuation
                          /\ im'[id].uid = im[id].uid /\ im'[id].gen = im[id].gen
        BY DEF SameActuation
      <4>1. CASE id \in t.ids
        <5>1. /\ im'[id].strategy = im[id].strategy
              /\ im'[id].actuation = im[id].actuation
              /\ im'[id].uid = im[id].uid /\ im'[id].gen = im[id].gen
              /\ im[id].strategy \in Strategies
          BY <3>1, <4>1 DEF ObjectStatus
        <5>2. Found(im, id) /\ Found(im', id)
          BY <5>1, <2>2, <4>1 DEF Found, Untracked, Strategies
        <5> QED
          BY <5>1, <5>2
      <4>2. CASE id \notin t.ids
        BY <2>5, <4>2 DEF StartWait, Found
      <4> QED
        BY <4>1, <4>2
    <3>4. TasksFound'
      <4>1. \A i \in 1 .. Len(Tail(queue)) : Tail(queue)[i].ids \subseteq Objects
        <5>1. Tail(queue) \in Seq(Task)
          BY <1>2 DEF TypeOK
        <5>2. \A i \in 1 .. Len(Tail(queue)) : Tail(queue)[i] \in Task
          BY <5>1
        <5> QED
          BY <5>2 DEF Task
      <4> QED
        BY <2>1, <2>2, <2>3, <3>3, <4>1 DEF TasksFound, SameActuation
    <3>5. SkippedStaysSkipped'
      BY <2>1, <2>3, <3>2, <3>3, SameReads
      DEF SkippedStaysSkipped, StartOutcome
    <3>6. WaitBookkeeping'
      <4>1. \A id \in t.ids : StartOutcome(t, id) # "Timeout"
        BY DEF StartOutcome, ReplacedOutcome
      <4> QED
        BY <2>1, <2>3, <2>5, <3>2, <4>1 DEF WaitBookkeeping, StartWait
    <3>7. SuccessTracksCache'
      BY <2>1, <2>3, <3>2, <3>3, SameReads
      DEF SuccessTracksCache, StartOutcome, ReplacedOutcome
    <3> QED
      BY <3>4, <3>5, <3>6, <3>7 DEF WaitInv
  <2> QED
    BY <2>1, <2>4, <2>5
<1> QED
  BY <1>1, <1>2

\* A status update leaves the books of the current wait in order.
LEMMA RecvStatusWait ==
    ASSUME TypeOK, WaitInv, NEW id \in Objects, NEW r \in Reports, RecvStatus(id, r)
    PROVE  WaitInv'
<1>1. /\ UNCHANGED <<queue, current>>
      /\ \A other \in Objects \ {id} : cache'[other] = cache[other]
  BY DEF RecvStatus, TypeOK, taskVars
<1>2. current.ids \subseteq Objects
  BY DEF TypeOK, Task, NoTask
<1>3. CASE UNCHANGED <<im, waitVars>>
           /\ (current.action # "Wait" \/ id \notin current.ids)
  BY <1>1, <1>2, <1>3 DEF WaitInv, TasksFound, SkippedStaysSkipped, WaitBookkeeping,
     SuccessTracksCache, waitVars, Reconciled, ChangedUID
<1>4. CASE /\ StatusUpdate(cache', id)
           /\ current.action = "Wait" /\ id \in current.ids
  <2> DEFINE o == UpdateOutcome(cache', id)
             cond == current.cond
  <2>1. CASE o = "keep"
    <3>1. UNCHANGED <<im, pending, failed, waitCtx>>
      BY <1>4, <2>1 DEF StatusUpdate, waitVars
    <3>2. im[id].reconcile = "Succeeded" => Reconciled(cache', im, cond, id)
      <4>1. CASE id \in pending
        BY <1>4, <4>1 DEF WaitInv, WaitBookkeeping
      <4>2. CASE id \notin pending /\ SkippedByActuation(im, cond, id)
        BY <1>4, <4>2 DEF WaitInv, SkippedStaysSkipped
      <4>3. CASE id \notin pending /\ id \in failed
        BY <1>4, <4>3 DEF WaitInv, WaitBookkeeping
      <4>4. CASE id \notin pending /\ id \notin failed
                 /\ ~SkippedByActuation(im, cond, id)
        BY <2>1, <4>4 DEF UpdateOutcome, SettledOutcome
      <4> QED
        BY <4>1, <4>2, <4>3, <4>4
    <3>3. \A other \in current.ids \ {id} :
             /\ Reconciled(cache', im, cond, other) <=> Reconciled(cache, im, cond, other)
             /\ ChangedUID(cache', im, other) <=> ChangedUID(cache, im, other)
      BY <1>1, <1>2 DEF Reconciled, ChangedUID
    <3>4. SuccessTracksCache'
      BY <1>1, <3>1, <3>2, <3>3 DEF WaitInv, SuccessTracksCache
    <3> QED
      BY <1>1, <3>1, <3>4 DEF WaitInv, TasksFound, SkippedStaysSkipped, WaitBookkeeping
  <2>2. CASE o # "keep"
    <3>1. /\ im' = SetReconcile(im, id, o)
          /\ pending' = IF o = "Pending" THEN pending \cup {id} ELSE pending \ {id}
          /\ o # "Failed" => failed' = failed \ {id}
          /\ failed' \subseteq failed \cup {id}
          /\ pending' = {} => waitCtx' # "active"
      BY <1>4, <2>2 DEF StatusUpdate
    <3>2. o \in {"Succeeded", "Failed", "Pending"}
      BY <2>2 DEF UpdateOutcome, PendingOutcome, FailedOutcome, SettledOutcome,
                  ReplacedOutcome
    <3>3. o = "Succeeded" =>
             \/ Reconciled(cache', im, cond, id)
             \/ cond = "AllNotFound" /\ ChangedUID(cache', im, id)
      BY DEF UpdateOutcome, PendingOutcome, FailedOutcome, SettledOutcome,
             ReplacedOutcome
    <3>4. ~SkippedByActuation(im, cond, id)
      <4>1. id \notin pending /\ SkippedByActuation(im, cond, id) => o = "keep"
        BY DEF UpdateOutcome
      <4>2. id \in pending => im[id].reconcile # "Skipped"
        BY <1>4 DEF WaitInv, WaitBookkeeping
      <4> QED
        BY <1>4, <2>2, <4>1, <4>2 DEF WaitInv, SkippedStaysSkipped
    <3> HIDE DEF o
    <3>5. o \in Reconciles /\ Found(im, id) /\ im \in Managers
      BY <1>4, <3>2 DEF Reconciles, WaitInv, TasksFound, TypeOK
    <3>6. /\ SameActuation(im, im')
          /\ im'[id].reconcile = o
          /\ \A other \in Objects \ {id} : im'[other] = im[other]
      BY <3>1, <3>5, SetReconcileEffect
    <3>7. TasksFound'
      <4>1. \A i \in 1 .. Len(queue) : queue[i].ids \subseteq Objects
        BY TaskIds
      <4> QED
        BY <1>1, <1>2, <3>6, <4>1 DEF WaitInv, TasksFound, SameActuation
    <3>8. SkippedStaysSkipped'
      <4>1. \A other \in current.ids :
               SkippedByActuation(im', cond, other) <=> SkippedByActuation(im, cond, other)
        BY <1>2, <3>6, SameReads
      <4> QED
        BY <1>1, <1>2, <3>4, <3>6, <4>1 DEF WaitInv, SkippedStaysSkipped
    <3>9. WaitBookkeeping'
      BY <1>1, <1>2, <1>4, <3>1, <3>2, <3>6 DEF WaitInv, WaitBookkeeping
    <3>10. SuccessTracksCache'
      <4>1. \A other \in current.ids :
               /\ Reconciled(cache', im', cond, other) <=> Reconciled(cache', im, cond, other)
               /\ ChangedUID(cache', im', other) <=> ChangedUID(cache', im, other)
        BY <1>2, <3>6, SameReads
      <4>2. \A other \in current.ids \ {id} :
               /\ Reconciled(cache', im, cond, other) <=> Reconciled(cache, im, cond, other)
               /\ ChangedUID(cache', im, other) <=> ChangedUID(cache, im, other)
        BY <1>1, <1>2 DEF Reconciled, ChangedUID
      <4> QED
        BY <1>1, <1>2, <3>3, <3>6, <4>1, <4>2 DEF WaitInv, SuccessTracksCache
    <3> QED
      BY <3>7, <3>8, <3>9, <3>10 DEF WaitInv
  <2> QED
    BY <2>1, <2>2
<1> QED
  BY <1>3, <1>4 DEF RecvStatus

\* The actuation of an object gives it an entry, and leaves the others.
LEMMA ActuationWait ==
    ASSUME TypeOK, WaitInv, NEW id \in Objects, NEW s, NEW act, NEW uid, NEW gen,
           s \in Strategies,
           im' = SetObjectStatus(im, id, s, act, uid, gen),
           current.action # "Wait", UNCHANGED <<queue, current>>
    PROVE  WaitInv'
<1>1. \A other \in Objects : Found(im, other) => Found(im', other)
  <2>1. im'[id].strategy = s /\ \A other \in Objects \ {id} : im'[other] = im[other]
    BY DEF SetObjectStatus, TypeOK, Managers
  <2> QED
    BY <2>1 DEF Found, Untracked, Strategies
<1>2. /\ \A i \in 1 .. Len(queue) : queue[i].ids \subseteq Objects
      /\ current.ids \subseteq Objects
  BY TaskIds
<1> QED
  BY <1>1, <1>2 DEF WaitInv, TasksFound, SkippedStaysSkipped, WaitBookkeeping,
                    SuccessTracksCache

\* The end of a wait times out what is pending and nothing else.
LEMMA WaitDoneWait ==
    ASSUME TypeOK, WaitInv, WaitDone
    PROVE  WaitInv'
<1>1. /\ UNCHANGED <<queue, current, cache, pending, failed, waitCtx>>
      /\ current.action = "Wait" /\ waitCtx # "active"
  BY DEF WaitDone, waitVars
<1>2. /\ \A i \in 1 .. Len(queue) : queue[i].ids \subseteq Objects
      /\ current.ids \subseteq Objects
  BY TaskIds
<1>3. CASE waitCtx # "deadline"
  BY <1>1, <1>3 DEF WaitDone, WaitInv, TasksFound, SkippedStaysSkipped,
                    WaitBookkeeping, SuccessTracksCache
<1>4. CASE waitCtx = "deadline"
  <2>1. \A id \in pending : Found(im, id) /\ id \in Objects /\ id \in current.ids
    BY <1>1, <1>2 DEF WaitInv, WaitBookkeeping, TasksFound
  <2>2. /\ \A id \in pending : im'[id] = [im[id] EXCEPT !.reconcile = "Timeout"]
        /\ \A id \in Objects \ pending : im'[id] = im[id]
    BY <1>4, <2>1 DEF WaitDone
  <2>3. ASSUME NEW id \in pending
        PROVE  /\ im'[id].reconcile = "Timeout"
               /\ im'[id].strategy = im[id].strategy
               /\ im'[id].actuation = im[id].actuation
               /\ im'[id].uid = im[id].uid /\ im'[id].gen = im[id].gen
               /\ im[id].strategy \in Strategies
    BY <2>1, <2>2 DEF TypeOK, Managers, Found, ObjectStatus
  <2>4. SameActuation(im, im')
    BY <2>1, <2>2, <2>3 DEF SameActuation, Found, Untracked, Strategies
  <2>5. TasksFound'
    BY <1>1, <1>2, <2>4 DEF WaitInv, TasksFound, SameActuation
  <2>6. \A id \in pending : im[id].reconcile # "Skipped"
    BY <1>1 DEF WaitInv, WaitBookkeeping
  <2>7. SkippedStaysSkipped'
    <3>1. \A id \in current.ids :
             SkippedByActuation(im', current.cond, id)
               <=> SkippedByActuation(im, current.cond, id)
      BY <1>2, <2>4, SameReads
    <3> QED
      BY <1>1, <1>2, <2>2, <2>6, <3>1 DEF WaitInv, SkippedStaysSkipped
  <2>8. WaitBookkeeping'
    BY <1>1, <1>2, <2>1, <2>2, <2>3 DEF WaitInv, WaitBookkeeping
  <2>9. SuccessTracksCache'
    <3>1. \A id \in current.ids :
             /\ Reconciled(cache, im', current.cond, id)
                  <=> Reconciled(cache, im, current.cond, id)
             /\ ChangedUID(cache, im', id) <=> ChangedUID(cache, im, id)
      BY <1>2, <2>4, SameReads
    <3> QED
      BY <1>1, <1>2, <2>2, <2>3, <3>1 DEF WaitInv, SuccessTracksCache
  <2> QED
    BY <2>5, <2>7, <2>8, <2>9 DEF WaitInv
<1> QED
  BY <1>3, <1>4

\* The invariant of the wait task, for every interleaving of status updates,
\* deadline, cancellation and task results.
LEMMA WaitInvariant == Spec => []WaitInv
<1>1. Init => WaitInv
  <2> SUFFICES ASSUME Init PROVE WaitInv
    OBVIOUS
  <2>1. plan \in PlanType /\ queue = Build(plan) /\ im = PlannedManager(plan)
    BY RunnerAssumption DEF Init
  <2>2. queue \in Seq(TaskOn(Registered(plan)))
    BY <2>1, BuildType
  <2>3. \A i \in 1 .. Len(queue) : queue[i] \in TaskOn(Registered(plan))
    BY <2>2
  <2>4. \A i \in 1 .. Len(queue) :
           queue[i].ids \subseteq Objects /\ queue[i].ids \subseteq Registered(plan)
    BY <2>3 DEF TaskOn, Task
  <2>5. \A id \in Objects : id \in Registered(plan) => Found(im, id)
    BY <2>1, RegisteredFound
  <2> QED
    BY <2>4, <2>5 DEF Init, NoTask, WaitInv, TasksFound, SkippedStaysSkipped,
                      WaitBookkeeping, SuccessTracksCache
<1>2. TypeOK /\ WaitInv /\ [Next]_vars => WaitInv'
  <2> SUFFICES ASSUME TypeOK, WaitInv, [Next]_vars PROVE WaitInv'
    OBVIOUS
  <2> USE DEF taskVars, waitVars, runVars, watchVars
  <2>1. ASSUME UNCHANGED <<queue, current, im, cache, pending, failed>>,
               waitCtx' = waitCtx \/ waitCtx' # "active"
        PROVE  WaitInv'
    BY <2>1 DEF WaitInv, TasksFound, SkippedStaysSkipped, WaitBookkeeping,
                SuccessTracksCache
  <2>2. CASE Runner
    <3>1. ASSUME NEW id \in Objects, NEW r \in Reports, RecvStatus(id, r)
          PROVE  WaitInv'
      BY <3>1, RecvStatusWait
    <3>2. CASE RecvSync
      <4>1. CASE NextTask
        BY <3>2, <4>1, NextTaskWait DEF RecvSync, WaitInv
      <4>2. CASE ~NextTask
        BY <2>1, <3>2, <4>2 DEF RecvSync
      <4> QED
        BY <4>1, <4>2
    <3>3. CASE RecvWatchError
      BY <2>1, <3>3 DEF RecvWatchError, CancelCurrent
    <3>4. CASE RecvTaskResult
      <4>1. CASE NextTask
        BY <3>4, <4>1, NextTaskWait DEF RecvTaskResult, WaitInv
      <4>2. CASE ~NextTask
        BY <2>1, <3>4, <4>2 DEF RecvTaskResult
      <4> QED
        BY <4>1, <4>2
    <3>5. CASE RecvDone
      BY <2>1, <3>5 DEF RecvDone, CancelCurrent
    <3>6. CASE Return
      BY <2>1, <3>6 DEF Return
    <3> QED
      BY <2>2, <3>1, <3>2, <3>3, <3>4, <3>5, <3>6 DEF Runner
  <2>3. CASE Goroutine
    <3>1. ASSUME NEW id \in Objects, NEW a \in {"Failed", "Skipped"},
                 NotActuated(id, a)
          PROVE  WaitInv'
      BY <3>1, ActuationWait DEF NotActuated, OneObjectDone, Actuating,
         AddUnsuccessful, Strategy, Strategies
    <3>2. ASSUME NEW id \in Objects, NEW answer \in Answers, ApplyObject(id, answer)
          PROVE  WaitInv'
      BY <3>2, ActuationWait DEF ApplyObject, OneObjectDone, AddSuccessfulApply,
         Strategies
    <3>3. ASSUME NEW id \in Objects, NEW uid \in UIDs, DeleteObject(id, uid)
          PROVE  WaitInv'
      BY <3>3, ActuationWait DEF DeleteObject, OneObjectDone, AddSuccessfulDelete,
         Strategies
    <3>4. CASE ActuationDone
      BY <2>1, <3>4 DEF ActuationDone
    <3>5. CASE WaitDone
      BY <3>5, WaitDoneWait
    <3> QED
      BY <2>3, <3>1, <3>2, <3>3, <3>4, <3>5 DEF Goroutine
  <2>4. CASE WaitDeadline
    BY <2>1, <2>4 DEF WaitDeadline
  <2>5. CASE CancelContext
    BY <2>1, <2>5 DEF CancelContext
  <2>6. CASE CloseStatus
    BY <2>1, <2>6 DEF CloseStatus
  <2>7. CASE UNCHANGED vars
    BY <2>1, <2>7 DEF vars
  <2> QED
    BY <2>2, <2>3, <2>4, <2>5, <2>6, <2>7 DEF Next
<1> QED
  BY <1>1, <1>2, TypeCorrect, PTL DEF Spec

\* The pending and failed sets of a wait and the reconcile statuses of the
\* manager agree, whatever arrives in whatever order (task.go:148-411).
THEOREM WaitBookkeepingHolds == Spec => []WaitBookkeeping
<1>1. WaitInv => WaitBookkeeping
  BY DEF WaitInv
<1> QED
  BY <1>1, WaitInvariant, PTL

\* A wait never counts an object as reconciled that the latest report does
\* not show reconciled (condition.go:42-73, task.go:317-411).
THEOREM SuccessTracksCacheHolds == Spec => []SuccessTracksCache
<1>1. WaitInv => SuccessTracksCache
  BY DEF WaitInv
<1> QED
  BY <1>1, WaitInvariant, PTL

----------------------------------------------------------------------------
(* What the order of the queue means for the objects of a run: every       *)
(* object is actuated on top of settled ones, and a run without an error   *)
(* has come to all of them.                                                *)

\* No object is left for two tasks of a kind.
OneTaskEach ==
    /\ \A i, j \in 1 .. Len(queue) :
         i # j /\ SameKind(queue[i], queue[j]) => queue[i].ids \cap queue[j].ids = {}
    /\ \A i \in 1 .. Len(queue) :
         SameKind(current, queue[i]) => current.ids \cap queue[i].ids = {}

\* The goroutine has handled what it was given once it sends its result.
GoroutineLeft ==
    /\ worker # "working" => remaining = {}
    /\ remaining \subseteq current.ids
    /\ remaining # {} => current.action # "Wait"

\* The objects without an outcome are those the run has yet to come to.
PendingIsAhead ==
    \A id \in Objects :
        im[id].actuation = "Pending" <=> id \in remaining \/ QueuedToActuate(queue, id)

\* Nothing is reconciled before its wait.
WaitIsAhead ==
    \A id \in Objects : QueuedToWait(queue, id) => im[id].reconcile = "Pending"

\* b is actuated, and its wait is over.
Settled(strategy, b) ==
    /\ im[b].strategy = strategy /\ im[b].actuation = "Succeeded"
    /\ \/ plan.dryRun
       \/ im[b].reconcile = "Succeeded" /\ ~(current.action = "Wait" /\ b \in current.ids)

\* What an object was actuated on top of is settled.
RelatedSettled ==
    \A strategy \in Strategies :
        \A a \in WithActuation(im, strategy, "Succeeded") :
            \A b \in Related(Edges, strategy, a) : Settled(strategy, b)

\* The run ends without an error only once nothing is left.
OkIsLast ==
    /\ phase = "running" => result = "none"
    /\ result = "ok" => queue = <<>> /\ remaining = {}

\* What a run has done and what it still has to do fit together.
OrderInv ==
    /\ OneTaskEach /\ GoroutineLeft /\ PendingIsAhead
    /\ WaitIsAhead /\ RelatedSettled /\ OkIsLast

----------------------------------------------------------------------------
(* One lemma per kind of step.                                             *)

\* The head of a queue, and what is left of it.
LEMMA QueuedSplit ==
    ASSUME NEW q \in Seq(Task), q # <<>>, NEW id
    PROVE  /\ QueuedToActuate(q, id) <=>
                (Head(q).action # "Wait" /\ id \in Head(q).ids) \/ QueuedToActuate(Tail(q), id)
           /\ QueuedToWait(q, id) <=>
                (Head(q).action = "Wait" /\ id \in Head(q).ids) \/ QueuedToWait(Tail(q), id)
<1>1. /\ Len(q) \in Nat \ {0} /\ Len(Tail(q)) = Len(q) - 1 /\ Head(q) = q[1]
      /\ \A i \in 1 .. Len(Tail(q)) : Tail(q)[i] = q[i + 1]
  OBVIOUS
<1>2. \A i \in 1 .. Len(q) : i = 1 \/ (i - 1 \in 1 .. Len(Tail(q)) /\ q[i] = Tail(q)[i - 1])
  BY <1>1
<1>3. \A i \in 1 .. Len(Tail(q)) : i + 1 \in 1 .. Len(q) /\ q[i + 1] = Tail(q)[i]
  BY <1>1
<1>4. 1 \in 1 .. Len(q)
  BY <1>1
<1> HIDE <1>1
<1>5. Head(q) = q[1]
  BY <1>1
<1> QED
  BY <1>2, <1>3, <1>4, <1>5 DEF QueuedToActuate, QueuedToWait

\* An object that passes the dependency filter is as the filter says.
LEMMA PassMeansSettled ==
    ASSUME NEW m \in Managers, NEW invalid, NEW dryRun \in BOOLEAN, NEW strategy,
           NEW b \in Objects, FilterByRelationship(m, invalid, dryRun, strategy, b) = "pass"
    PROVE  /\ m[b].strategy = strategy /\ m[b].actuation = "Succeeded"
           /\ dryRun \/ m[b].reconcile = "Succeeded"
<1>1. b \notin invalid /\ Found(m, b) /\ m[b].strategy = strategy
  BY DEF FilterByRelationship
<1>2. m[b] \in ObjectStatus
  BY <1>1 DEF Managers, Found
<1>3. m[b].actuation \in Actuations /\ m[b].reconcile \in Reconciles
  BY <1>2 DEF ObjectStatus
<1>4. m[b].actuation = "Succeeded"
  BY <1>1, <1>3 DEF FilterByRelationship, Actuations
<1> QED
  BY <1>1, <1>3, <1>4 DEF FilterByRelationship, Reconciles

\* A step that neither starts a task nor touches an object of the run.
LEMMA QuietOrder ==
    ASSUME OrderInv, UNCHANGED <<plan, queue, current, remaining, im>>,
           worker' # "working" => remaining = {}, OkIsLast'
    PROVE  OrderInv'
<1>1. OneTaskEach' /\ GoroutineLeft'
  BY DEF OrderInv, OneTaskEach, GoroutineLeft
<1>2. PendingIsAhead' /\ WaitIsAhead'
  BY DEF OrderInv, PendingIsAhead, WaitIsAhead
<1>3. RelatedSettled'
  BY DEF OrderInv, RelatedSettled, Settled, WithActuation
<1> QED
  BY <1>1, <1>2, <1>3 DEF OrderInv

\* The current wait changes reconcile statuses of its objects.
LEMMA ReconcileOrder ==
    ASSUME OrderInv, UNCHANGED <<plan, queue, current, remaining>>,
           current.action = "Wait", SameActuation(im, im'),
           \A id \in Objects \ current.ids : im'[id] = im[id], OkIsLast'
    PROVE  OrderInv'
<1>1. OneTaskEach' /\ GoroutineLeft'
  BY DEF OrderInv, OneTaskEach, GoroutineLeft
<1>2. PendingIsAhead'
  BY DEF OrderInv, PendingIsAhead, SameActuation
<1>3. WaitIsAhead'
  <2> SUFFICES ASSUME NEW id \in Objects, QueuedToWait(queue, id)
               PROVE  im'[id].reconcile = "Pending"
    BY DEF WaitIsAhead
  <2>1. id \notin current.ids
    BY DEF QueuedToWait, OrderInv, OneTaskEach, SameKind
  <2> QED
    BY <2>1 DEF OrderInv, WaitIsAhead
<1>4. RelatedSettled'
  <2> SUFFICES ASSUME NEW strategy \in Strategies, NEW a \in WithActuation(im', strategy, "Succeeded"),
                      NEW b \in Related(Edges, strategy, a)
               PROVE  Settled(strategy, b)'
    BY DEF RelatedSettled
  <2>1. a \in WithActuation(im, strategy, "Succeeded") /\ b \in Objects
    BY DEF SameActuation, WithActuation, Related, Dependencies, Dependents
  <2>2. Settled(strategy, b)
    BY <2>1 DEF OrderInv, RelatedSettled
  <2> QED
    BY <2>1, <2>2 DEF Settled, SameActuation
<1> QED
  BY <1>1, <1>2, <1>3, <1>4 DEF OrderInv

\* The goroutine handles one object; when it actuates it, what the object is
\* related to has passed the filter.
LEMMA ActuationOrder ==
    ASSUME TypeOK, OrderInv, NEW id \in remaining, NEW s \in Strategies,
           NEW act \in Actuations \ {"Pending"}, NEW uid, NEW gen,
           im' = SetObjectStatus(im, id, s, act, uid, gen), remaining' = remaining \ {id},
           UNCHANGED <<plan, queue, current, worker, phase, result>>,
           act = "Succeeded" => DependenciesPass(Edges, im, plan.invalid, plan.dryRun, s, id)
    PROVE  OrderInv'
<1>1. /\ id \in Objects /\ id \in current.ids /\ current.action # "Wait"
      /\ im[id].actuation = "Pending"
  BY DEF TypeOK, OrderInv, GoroutineLeft, PendingIsAhead
<1>2. /\ im'[id].strategy = s /\ im'[id].actuation = act /\ im'[id].reconcile = "Pending"
      /\ \A other \in Objects \ {id} : im'[other] = im[other]
  BY <1>1 DEF SetObjectStatus, TypeOK, Managers
<1>3. OneTaskEach' /\ GoroutineLeft' /\ OkIsLast'
  BY DEF OrderInv, OneTaskEach, GoroutineLeft, OkIsLast
<1>4. PendingIsAhead'
  <2>1. ~QueuedToActuate(queue, id)
    BY <1>1 DEF QueuedToActuate, OrderInv, OneTaskEach, SameKind
  <2>2. act # "Pending" /\ id \notin remaining'
    OBVIOUS
  <2> QED
    BY <1>2, <2>1, <2>2 DEF OrderInv, PendingIsAhead
<1>5. WaitIsAhead'
  BY <1>2 DEF OrderInv, WaitIsAhead
<1>6. RelatedSettled'
  <2> SUFFICES ASSUME NEW strategy \in Strategies, NEW a \in WithActuation(im', strategy, "Succeeded"),
                      NEW b \in Related(Edges, strategy, a)
               PROVE  Settled(strategy, b)'
    BY DEF RelatedSettled
  <2>1. a \in Objects /\ b \in Objects
    BY DEF WithActuation, Related, Dependencies, Dependents
  <2>2. /\ im[b].strategy = strategy /\ im[b].actuation = "Succeeded"
        /\ plan.dryRun \/ im[b].reconcile = "Succeeded"
    <3>1. CASE a = id
      <4>1. s = strategy /\ act = "Succeeded"
        BY <1>2, <3>1 DEF WithActuation
      <4>2. FilterByRelationship(im, plan.invalid, plan.dryRun, strategy, b) = "pass"
        BY <3>1, <4>1 DEF DependenciesPass, DependencyAnswers
      <4>3. im \in Managers /\ plan.dryRun \in BOOLEAN
        BY DEF TypeOK, PlanType
      <4> QED
        BY <2>1, <4>2, <4>3, PassMeansSettled
    <3>2. CASE a # id
      <4>1. a \in WithActuation(im, strategy, "Succeeded")
        BY <1>2, <2>1, <3>2 DEF WithActuation
      <4> QED
        BY <4>1 DEF OrderInv, RelatedSettled, Settled
    <3> QED
      BY <3>1, <3>2
  <2>3. im'[b] = im[b]
    BY <1>1, <1>2, <2>1, <2>2
  <2> QED
    BY <1>1, <2>2, <2>3 DEF Settled
<1> QED
  BY <1>3, <1>4, <1>5, <1>6 DEF OrderInv

\* The start of a wait changes the reconcile statuses of its objects.
LEMMA StartWaitReconciles ==
    ASSUME TypeOK, NEW t \in Task, StartWait(t)
    PROVE  SameActuation(im, im') /\ \A id \in Objects \ t.ids : im'[id] = im[id]
<1>1. ASSUME NEW id \in Objects
      PROVE  /\ im'[id] = IF id \in t.ids /\ Found(im, id)
                            THEN [im[id] EXCEPT !.reconcile = StartOutcome(t, id)] ELSE im[id]
  BY DEF StartWait
<1>2. ASSUME NEW id \in Objects, id \in t.ids, Found(im, id)
      PROVE  /\ im'[id].strategy = im[id].strategy /\ im'[id].actuation = im[id].actuation
             /\ im'[id].uid = im[id].uid /\ im'[id].gen = im[id].gen
             /\ im[id].strategy \in Strategies
  BY <1>1, <1>2 DEF TypeOK, Managers, Found, ObjectStatus
<1>3. ASSUME NEW id \in Objects, id \in t.ids, Found(im, id) PROVE Found(im', id)
  BY <1>2, <1>3 DEF Found, Untracked, Strategies
<1>4. ASSUME NEW id \in Objects, ~(id \in t.ids /\ Found(im, id))
      PROVE  im'[id] = im[id]
  BY <1>1, <1>4
<1>5. SameActuation(im, im')
  BY <1>2, <1>3, <1>4 DEF SameActuation, Found
<1> QED
  BY <1>4, <1>5

\* The next task starts, or the run ends.
LEMMA NextTaskOrder ==
    ASSUME TypeOK, OrderInv, remaining = {}, plan' = plan, phase = "running", NextTask
    PROVE  OrderInv'
<1>1. CASE queue = <<>>
  <2>1. /\ current' = NoTask /\ worker' = "none" /\ phase' = "completing" /\ result' = "ok"
        /\ UNCHANGED <<queue, remaining, im>>
    BY <1>1 DEF NextTask, Complete
  <2>2. Len(queue) = 0
    BY <1>1
  <2>3. OneTaskEach' /\ GoroutineLeft' /\ OkIsLast'
    BY <1>1, <2>1, <2>2 DEF OneTaskEach, GoroutineLeft, OkIsLast
  <2>4. PendingIsAhead' /\ WaitIsAhead'
    BY <2>1 DEF OrderInv, PendingIsAhead, WaitIsAhead
  <2>5. RelatedSettled'
    BY <2>1 DEF OrderInv, RelatedSettled, Settled, WithActuation, NoTask
  <2> QED
    BY <2>3, <2>4, <2>5 DEF OrderInv
<1>2. CASE queue # <<>>
  <2> DEFINE t == Head(queue)
             rest == Tail(queue)
  <2>1. /\ t \in Task /\ queue' = rest /\ current' = t /\ worker' = "working"
        /\ UNCHANGED <<phase, result>>
        /\ StartActuation(t) \/ StartWait(t)
    BY <1>2 DEF NextTask, TypeOK
  <2>2. queue \in Seq(Task)
    BY DEF TypeOK
  <2>3. /\ Len(queue) \in Nat \ {0} /\ Len(rest) = Len(queue) - 1 /\ t = queue[1]
        /\ \A i \in 1 .. Len(rest) : rest[i] = queue[i + 1]
    BY <1>2, <2>2
  <2>4. \A id : /\ QueuedToActuate(queue, id) <=>
                     (t.action # "Wait" /\ id \in t.ids) \/ QueuedToActuate(rest, id)
                /\ QueuedToWait(queue, id) <=>
                     (t.action = "Wait" /\ id \in t.ids) \/ QueuedToWait(rest, id)
    BY <1>2, <2>2, QueuedSplit
  <2> HIDE DEF t, rest
  <2>5. OneTaskEach'
    <3>1. \A i \in 1 .. Len(rest) :
            i + 1 \in 1 .. Len(queue) /\ rest[i] = queue[i + 1] /\ 1 # i + 1 /\ 1 \in 1 .. Len(queue)
      BY <2>3
    <3>2. ASSUME NEW i \in 1 .. Len(rest), NEW j \in 1 .. Len(rest), i # j,
                 SameKind(rest[i], rest[j])
          PROVE  rest[i].ids \cap rest[j].ids = {}
      <4>1. i + 1 # j + 1
        BY <2>3, <3>2
      <4> QED
        BY <3>1, <3>2, <4>1 DEF OrderInv, OneTaskEach
    <3>3. ASSUME NEW i \in 1 .. Len(rest), SameKind(t, rest[i])
          PROVE  t.ids \cap rest[i].ids = {}
      BY <2>3, <3>1, <3>3 DEF OrderInv, OneTaskEach
    <3> QED
      BY <2>1, <3>2, <3>3 DEF OneTaskEach
  <2>6. OkIsLast'
    BY <2>1 DEF OrderInv, OkIsLast
  <2>7. CASE StartActuation(t)
    <3>1. t.action # "Wait" /\ remaining' = t.ids /\ im' = im
      BY <2>7 DEF StartActuation
    <3>2. GoroutineLeft'
      BY <2>1, <3>1 DEF GoroutineLeft
    <3>3. PendingIsAhead'
      BY <2>1, <2>4, <3>1 DEF OrderInv, PendingIsAhead
    <3>4. WaitIsAhead'
      BY <2>1, <2>4, <3>1 DEF OrderInv, WaitIsAhead
    <3>5. RelatedSettled'
      BY <2>1, <3>1 DEF OrderInv, RelatedSettled, Settled, WithActuation
    <3> QED
      BY <2>5, <2>6, <3>2, <3>3, <3>4, <3>5 DEF OrderInv
  <2>8. CASE StartWait(t)
    <3>1. /\ t.action = "Wait" /\ remaining' = {} /\ SameActuation(im, im')
          /\ \A id \in Objects \ t.ids : im'[id] = im[id]
      BY <2>1, <2>8, StartWaitReconciles DEF StartWait
    <3>2. GoroutineLeft'
      BY <2>1, <3>1 DEF GoroutineLeft
    <3>3. PendingIsAhead'
      BY <2>1, <2>4, <3>1 DEF OrderInv, PendingIsAhead, SameActuation
    <3>4. WaitIsAhead'
      <4> SUFFICES ASSUME NEW id \in Objects, QueuedToWait(rest, id)
                   PROVE  im'[id].reconcile = "Pending"
        BY <2>1 DEF WaitIsAhead
      <4>1. id \notin t.ids
        BY <2>1, <2>5, <3>1 DEF QueuedToWait, OneTaskEach, SameKind
      <4> QED
        BY <2>4, <3>1, <4>1 DEF OrderInv, WaitIsAhead
    <3>5. RelatedSettled'
      <4> SUFFICES ASSUME NEW strategy \in Strategies,
                          NEW a \in WithActuation(im', strategy, "Succeeded"),
                          NEW b \in Related(Edges, strategy, a)
                   PROVE  Settled(strategy, b)'
        BY DEF RelatedSettled
      <4>1. a \in WithActuation(im, strategy, "Succeeded") /\ b \in Objects
        BY <3>1 DEF SameActuation, WithActuation, Related, Dependencies, Dependents
      <4>2. Settled(strategy, b)
        BY <4>1 DEF OrderInv, RelatedSettled
      <4>3. b \in t.ids => im[b].reconcile = "Pending"
        BY <2>4, <3>1, <4>1 DEF OrderInv, WaitIsAhead
      <4> QED
        BY <2>1, <3>1, <4>1, <4>2, <4>3 DEF Settled, SameActuation
    <3> QED
      BY <2>5, <2>6, <3>2, <3>3, <3>4, <3>5 DEF OrderInv
  <2> QED
    BY <2>1, <2>7, <2>8
<1> QED
  BY <1>1, <1>2

----------------------------------------------------------------------------
(* The invariant and the theorems.                                         *)

\* A run starts with everything it registered in the queue.
LEMMA InitOrder == Init => OrderInv
<1> SUFFICES ASSUME Init PROVE OrderInv
  OBVIOUS
<1>1. /\ plan \in PlanType /\ OneSetEach(plan) /\ queue = Build(plan) /\ im = PlannedManager(plan)
      /\ remaining = {} /\ current = NoTask /\ phase = "running" /\ result = "none"
  BY RunnerAssumption, PlanAssumption DEF Init
<1>2. queue \in Seq(TaskOn(Registered(plan)))
  BY <1>1, BuildType
<1>3. \A i \in 1 .. Len(queue) : queue[i].ids \subseteq Registered(plan)
  <2>1. \A i \in 1 .. Len(queue) : queue[i] \in TaskOn(Registered(plan))
    BY <1>2
  <2> QED
    BY <2>1 DEF TaskOn
<1>4. \A id \in Objects :
        /\ im[id].actuation \in {"Pending", "None"}
        /\ im[id].actuation = "Pending" <=> id \in Registered(plan)
        /\ id \in Registered(plan) => im[id].reconcile = "Pending"
  BY <1>1 DEF PlannedManager, AddPending, NewManager, Untracked, Registered
<1>5. OneTaskEach /\ GoroutineLeft /\ OkIsLast
  BY <1>1, BuildOrder DEF Distinct, OneTaskEach, GoroutineLeft, OkIsLast, NoTask
<1>6. PendingIsAhead
  BY <1>1, <1>3, <1>4, BuildOrder DEF PendingIsAhead, QueuedToActuate
<1>7. WaitIsAhead
  BY <1>3, <1>4 DEF WaitIsAhead, QueuedToWait
<1>8. RelatedSettled
  BY <1>4 DEF RelatedSettled, WithActuation
<1> QED
  BY <1>5, <1>6, <1>7, <1>8 DEF OrderInv

\* A status update changes nothing but the current wait's statuses.
LEMMA RecvStatusOrder ==
    ASSUME TypeOK, WaitInv, OrderInv, NEW id \in Objects, NEW r \in Reports, RecvStatus(id, r)
    PROVE  OrderInv'
<1>1. UNCHANGED <<plan, queue, current, worker, remaining, phase, result>>
  BY DEF RecvStatus, taskVars, runVars
<1>2. OkIsLast' /\ (worker' # "working" => remaining = {})
  BY <1>1 DEF OrderInv, OkIsLast, GoroutineLeft
<1>3. CASE im' = im
  BY <1>1, <1>2, <1>3, QuietOrder
<1>4. CASE im' # im
  <2>1. current.action = "Wait" /\ id \in current.ids /\ StatusUpdate(cache', id)
    BY <1>4 DEF RecvStatus
  <2>2. /\ UpdateOutcome(cache', id) # "keep"
        /\ im' = SetReconcile(im, id, UpdateOutcome(cache', id))
    BY <1>4, <2>1 DEF StatusUpdate
  <2>3. UpdateOutcome(cache', id) \in Reconciles
    BY <2>2 DEF UpdateOutcome, PendingOutcome, FailedOutcome, SettledOutcome,
                ReplacedOutcome, Reconciles
  <2>4. im \in Managers /\ Found(im, id)
    BY <2>1 DEF TypeOK, WaitInv, TasksFound
  <2>5. SameActuation(im, im') /\ \A other \in Objects \ {id} : im'[other] = im[other]
    BY <2>2, <2>3, <2>4, SetReconcileEffect
  <2> QED
    BY <1>1, <1>2, <2>1, <2>5, ReconcileOrder
<1> QED
  BY <1>3, <1>4

\* So does the end of a wait.
LEMMA WaitDoneOrder ==
    ASSUME TypeOK, WaitInv, OrderInv, WaitDone
    PROVE  OrderInv'
<1>1. UNCHANGED <<plan, queue, current, remaining, phase, result>> /\ current.action = "Wait"
  BY DEF WaitDone, runVars
<1>2. OkIsLast'
  BY <1>1 DEF OrderInv, OkIsLast
<1>3. pending \subseteq current.ids
  BY <1>1 DEF WaitInv, WaitBookkeeping
<1>4. ASSUME NEW id \in Objects
      PROVE  im'[id] = im[id] \/ (id \in pending /\ Found(im, id)
                                   /\ im'[id] = [im[id] EXCEPT !.reconcile = "Timeout"])
  BY DEF WaitDone
<1>5. ASSUME NEW id \in Objects, id \in pending, Found(im, id),
             im'[id] = [im[id] EXCEPT !.reconcile = "Timeout"]
      PROVE  /\ im'[id].strategy = im[id].strategy /\ im'[id].actuation = im[id].actuation
             /\ im'[id].uid = im[id].uid /\ im'[id].gen = im[id].gen
             /\ im[id].strategy \in Strategies
  BY <1>5 DEF TypeOK, Managers, Found, ObjectStatus
<1>6. ASSUME NEW id \in Objects, id \in pending, Found(im, id),
             im'[id] = [im[id] EXCEPT !.reconcile = "Timeout"]
      PROVE  Found(im', id)
  BY <1>5, <1>6 DEF Found, Untracked, Strategies
<1>7. SameActuation(im, im')
  BY <1>4, <1>5, <1>6 DEF SameActuation, Found
<1>8. \A id \in Objects \ current.ids : im'[id] = im[id]
  BY <1>3, <1>4
<1> QED
  BY <1>1, <1>2, <1>7, <1>8, ReconcileOrder

\* The order is kept by every interleaving of tasks, statuses and aborts.
LEMMA OrderInvariant == Spec => []OrderInv
<1>1. TypeOK /\ RunnerInv /\ WaitInv /\ OrderInv /\ [Next]_vars => OrderInv'
  <2> SUFFICES ASSUME TypeOK, RunnerInv, WaitInv, OrderInv, [Next]_vars PROVE OrderInv'
    OBVIOUS
  <2>1. ASSUME UNCHANGED <<plan, queue, current, remaining, im>>,
               worker' = worker \/ remaining = {},
               phase' = phase \/ phase' # "running",
               result' = result \/ (result' # "ok" /\ phase' # "running")
        PROVE  OrderInv'
    <3>1. OkIsLast'
      BY <2>1 DEF OrderInv, OkIsLast
    <3>2. worker' # "working" => remaining = {}
      BY <2>1 DEF OrderInv, GoroutineLeft
    <3> QED
      BY <2>1, <3>1, <3>2, QuietOrder
  <2> USE DEF taskVars, waitVars, runVars, watchVars
  <2>2. CASE Runner
    <3>1. ASSUME NEW id \in Objects, NEW r \in Reports, RecvStatus(id, r)
          PROVE  OrderInv'
      BY <3>1, RecvStatusOrder
    <3>2. CASE RecvSync
      <4>1. CASE NextTask
        <5>1. remaining = {}
          BY <3>2 DEF RecvSync, RunnerInv, OrderInv, GoroutineLeft
        <5> QED
          BY <3>2, <4>1, <5>1, NextTaskOrder DEF RecvSync
      <4>2. CASE ~NextTask
        BY <2>1, <3>2, <4>2 DEF RecvSync
      <4> QED
        BY <4>1, <4>2
    <3>3. CASE RecvWatchError
      BY <2>1, <3>3 DEF RecvWatchError, Complete
    <3>4. CASE RecvTaskResult
      <4>1. remaining = {} /\ phase = "running" /\ plan' = plan
        BY <3>4 DEF RecvTaskResult, OrderInv, GoroutineLeft
      <4>2. CASE NextTask
        BY <4>1, <4>2, NextTaskOrder
      <4>3. CASE ~NextTask
        BY <2>1, <3>4, <4>1, <4>3 DEF RecvTaskResult, Complete
      <4> QED
        BY <4>2, <4>3
    <3>5. CASE RecvDone
      BY <2>1, <3>5 DEF RecvDone, Complete
    <3>6. CASE Return
      BY <2>1, <3>6 DEF Return
    <3> QED
      BY <2>2, <3>1, <3>2, <3>3, <3>4, <3>5, <3>6 DEF Runner
  <2>3. CASE Goroutine
    <3>1. ASSUME NEW id \in Objects, NEW act \in {"Failed", "Skipped"}, NotActuated(id, act)
          PROVE  OrderInv'
      BY <3>1, ActuationOrder DEF NotActuated, OneObjectDone, AddUnsuccessful, Strategy,
         Strategies, Actuations
    <3>2. ASSUME NEW id \in Objects, NEW answer \in Answers, ApplyObject(id, answer)
          PROVE  OrderInv'
      BY <3>2, ActuationOrder DEF ApplyObject, OneObjectDone, AddSuccessfulApply,
         Strategies, Actuations
    <3>3. ASSUME NEW id \in Objects, NEW uid \in UIDs, DeleteObject(id, uid)
          PROVE  OrderInv'
      BY <3>3, ActuationOrder DEF DeleteObject, OneObjectDone, AddSuccessfulDelete,
         Strategies, Actuations
    <3>4. CASE ActuationDone
      BY <2>1, <3>4 DEF ActuationDone
    <3>5. CASE WaitDone
      BY <3>5, WaitDoneOrder
    <3> QED
      BY <2>3, <3>1, <3>2, <3>3, <3>4, <3>5 DEF Goroutine
  <2>4. CASE WaitDeadline
    BY <2>1, <2>4 DEF WaitDeadline
  <2>5. CASE CancelContext
    BY <2>1, <2>5 DEF CancelContext
  <2>6. CASE CloseStatus
    BY <2>1, <2>6 DEF CloseStatus
  <2>7. CASE UNCHANGED vars
    BY <2>1, <2>7 DEF vars
  <2> QED
    BY <2>2, <2>3, <2>4, <2>5, <2>6, <2>7 DEF Next
<1> QED
  BY <1>1, InitOrder, TypeCorrect, RunnerInvariant, WaitInvariant, PTL DEF Spec

\* An object is only applied on top of dependencies that this run applied and
\* saw reconciled, and no later report takes that back, for every graph and
\* plan (dependency-filter.go:54-160, solver.go:150-190).
THEOREM AppliedAfterDependenciesHolds == Spec => []AppliedAfterDependencies
<1>1. OrderInv => AppliedAfterDependencies
  BY DEF OrderInv, RelatedSettled, Settled, AppliedAfterDependencies, Related, Strategies
<1> QED
  BY <1>1, OrderInvariant, PTL

\* An object is only deleted once what depends on it is deleted and gone.
THEOREM DeletedAfterDependentsHolds == Spec => []DeletedAfterDependents
<1>1. OrderInv => DeletedAfterDependents
  BY DEF OrderInv, RelatedSettled, Settled, DeletedAfterDependents, Related, Strategies
<1> QED
  BY <1>1, OrderInvariant, PTL

\* Run returns without an error only when every object of the plan has an
\* outcome (solver.go:116-226, runner.go:229-252).
THEOREM OkMeansActuatedHolds == Spec => []OkMeansActuated
<1>1. OrderInv => OkMeansActuated
  <2> SUFFICES ASSUME OrderInv, result = "ok", NEW id \in Objects
               PROVE  im[id].actuation # "Pending"
    BY DEF OkMeansActuated
  <2>1. Len(queue) = 0 /\ remaining = {}
    BY DEF OrderInv, OkIsLast
  <2> QED
    BY <2>1 DEF OrderInv, PendingIsAhead, QueuedToActuate
<1> QED
  BY <1>1, OrderInvariant, PTL

----------------------------------------------------------------------------
(* A run that goes on can take a step, and an abort winds it down.         *)

\* A wait overlooks nothing: what it still waits for is not reconciled in the
\* latest report (condition.go:42-73, task.go:148-209, 317-411).
WaitMissesNothing ==
    current.action = "Wait" => \A id \in pending : ~Reconciled(cache, im, current.cond, id)

\* The goroutine of the current task can go on, or end.
TaskGoesOn ==
    \/ worker = "sending"
    \/ worker = "working" /\ current.action # "Wait" /\ (remaining = {} \/ Actuating)
    \/ worker = "working" /\ current.action = "Wait" /\ waitCtx \in {"canceled", "deadline"}

\* A run that has started, or was aborted, and goes on has a goroutine that can
\* take a step, or is in a wait nobody aborted for objects that are not there
\* yet; and only a run without timeouts is in such a wait without a timer.
\* It is why a run can hang on its objects, and on nothing else
\* (runner.go:114-221, task.go:93-132).
OnlyObjectsHoldUp ==
    phase = "running" /\ (synced \/ abort) =>
        \/ TaskGoesOn
        \/ /\ ~abort /\ worker = "working" /\ current.action = "Wait" /\ waitCtx = "active"
           /\ current.timeout = plan.timeout
           /\ pending # {} /\ \A id \in pending : ~Reconciled(cache, im, current.cond, id)

\* An aborted run starts nothing, never goes back to waiting, and ends with an
\* error: each of its steps handles an object of the current task, ends that
\* task, or completes the run (runner.go:88-96, 124-135, 199-221).
AbortWindsDown ==
    [][abort /\ phase = "running" =>
          /\ abort' /\ UNCHANGED <<queue, current, cache, waitVars>>
          /\ remaining' \subseteq remaining
          /\ phase' = "running" => worker' = worker \/ worker' = "sending"
          /\ phase' # "running" => result' \in {"aborted", "taskFailed"}]_vars

\* What the current task can wait for.
HoldInv ==
    /\ phase = "running" /\ (synced \/ abort) => worker # "none"
    /\ abort /\ phase = "running" => waitCtx # "active"
    /\ current.action = "Wait" => waitCtx # "none"
    /\ current.action = "Inventory" => remaining = {}
    /\ queue \in Seq(TimedTasks(plan.timeout))
    /\ current # NoTask => current \in TimedTasks(plan.timeout)
    /\ WaitMissesNothing

\* The next task can go on, or waits for what is not there.
LEMMA NextTaskHold ==
    ASSUME TypeOK, HoldInv, NextTask, ~abort, UNCHANGED <<plan, cache, abort>>
    PROVE  HoldInv'
<1> USE DEF taskVars, waitVars, runVars, watchVars
<1>1. CASE queue # <<>>
  <2> DEFINE t == Head(queue)
  <2>1. /\ current' = t /\ queue' = Tail(queue) /\ worker' = "working"
        /\ StartActuation(t) \/ StartWait(t)
    BY <1>1 DEF NextTask
  <2>2. /\ t \in TimedTasks(plan.timeout) /\ t \in Task
        /\ queue' \in Seq(TimedTasks(plan.timeout))
    BY <1>1, <2>1 DEF HoldInv, TimedTasks
  <2>3. CASE StartActuation(t)
    <3>1. t.action # "Wait" /\ remaining' = t.ids /\ waitCtx' = "none"
      BY <2>3 DEF StartActuation
    <3>2. t.action = "Inventory" => t.ids = {}
      BY <2>2 DEF TimedTasks
    <3> QED
      BY <2>1, <2>2, <3>1, <3>2 DEF HoldInv, WaitMissesNothing
  <2>4. CASE StartWait(t)
    <3> HIDE DEF t
    <3>1. /\ t.action = "Wait" /\ waitCtx' \in {"active", "canceled"}
          /\ pending' = {id \in t.ids : StartOutcome(t, id) = "Pending"}
      BY <2>4 DEF StartWait
    <3>2. ASSUME NEW id \in pending'
          PROVE  ~Reconciled(cache', im', t.cond, id)
      <4>1. id \in t.ids /\ StartOutcome(t, id) = "Pending" /\ id \in Objects
        BY <2>2, <3>1 DEF Task
      <4>2. ~Reconciled(cache, im, t.cond, id)
        BY <4>1 DEF StartOutcome, ReplacedOutcome
      <4>3. im'[id].gen = im[id].gen
        BY <2>4, <4>1 DEF StartWait, TypeOK, Managers, ObjectStatus
      <4> QED
        BY <4>2, <4>3 DEF Reconciled
    <3> QED
      BY <2>1, <2>2, <3>1, <3>2 DEF HoldInv, WaitMissesNothing
  <2> QED
    BY <2>1, <2>3, <2>4
<1>2. CASE queue = <<>>
  BY <1>2 DEF NextTask, Complete, HoldInv, WaitMissesNothing, NoTask
<1> QED
  BY <1>1, <1>2

\* A report that leaves an object pending does not show it reconciled.
LEMMA RecvStatusHold ==
    ASSUME TypeOK, WaitInv, HoldInv, NEW id \in Objects, NEW r \in Reports, RecvStatus(id, r)
    PROVE  HoldInv'
<1> USE DEF taskVars, waitVars, runVars, watchVars
<1>1. /\ UNCHANGED <<plan, queue, current, worker, remaining, phase, synced, abort>>
      /\ ~abort
      /\ \A other \in Objects \ {id} : cache'[other] = cache[other]
  BY DEF RecvStatus, TypeOK
<1>2. current.ids \subseteq Objects /\ pending \subseteq Objects
  BY DEF TypeOK, Task, NoTask
<1>3. ASSUME WaitMissesNothing', waitCtx' = waitCtx \/ waitCtx' = "canceled"
      PROVE  HoldInv'
  BY <1>1, <1>3 DEF HoldInv
<1>4. CASE UNCHANGED <<im, waitVars>> /\ (current.action # "Wait" \/ id \notin current.ids)
  <2>1. current.action = "Wait" => id \notin pending
    BY <1>4 DEF WaitInv, WaitBookkeeping
  <2>2. WaitMissesNothing'
    BY <1>1, <1>2, <1>4, <2>1 DEF HoldInv, WaitMissesNothing, Reconciled
  <2> QED
    BY <1>3, <1>4, <2>2
<1>5. CASE StatusUpdate(cache', id) /\ current.action = "Wait" /\ id \in current.ids
  <2> DEFINE o == UpdateOutcome(cache', id)
             cond == current.cond
  <2>1. \A other \in pending \ {id} : ~Reconciled(cache', im, cond, other)
    BY <1>1, <1>2, <1>5 DEF HoldInv, WaitMissesNothing, Reconciled
  <2>2. /\ o = "Pending" => ~Reconciled(cache', im, cond, id)
        /\ o = "keep" /\ id \in pending => ~Reconciled(cache', im, cond, id)
    BY DEF UpdateOutcome, PendingOutcome, FailedOutcome, SettledOutcome, ReplacedOutcome
  <2>3. CASE o = "keep"
    <3>1. UNCHANGED <<im, pending, failed, waitCtx>>
      BY <1>5, <2>3 DEF StatusUpdate
    <3>2. WaitMissesNothing'
      BY <1>1, <2>1, <2>2, <2>3, <3>1 DEF WaitMissesNothing
    <3> QED
      BY <1>3, <3>1, <3>2
  <2>4. CASE o # "keep"
    <3>1. /\ im' = SetReconcile(im, id, o)
          /\ pending' = IF o = "Pending" THEN pending \cup {id} ELSE pending \ {id}
          /\ waitCtx' = waitCtx \/ waitCtx' = "canceled"
      BY <1>5, <2>4 DEF StatusUpdate
    <3>2. o \in Reconciles
      BY <2>4 DEF UpdateOutcome, PendingOutcome, FailedOutcome, SettledOutcome,
                  ReplacedOutcome, Reconciles
    <3>3. Found(im, id) /\ im \in Managers
      BY <1>5 DEF WaitInv, TasksFound, TypeOK
    <3>4. SameActuation(im, im')
      BY <3>1, <3>2, <3>3, SetReconcileEffect
    <3>5. \A other \in Objects :
             Reconciled(cache', im', cond, other) <=> Reconciled(cache', im, cond, other)
      BY <3>4, SameReads
    <3>6. WaitMissesNothing'
      BY <1>1, <1>2, <2>1, <2>2, <3>1, <3>5 DEF WaitMissesNothing
    <3> QED
      BY <1>3, <3>1, <3>6
  <2> QED
    BY <2>3, <2>4
<1> QED
  BY <1>4, <1>5 DEF RecvStatus

\* A deadline changes reconcile statuses only.
LEMMA WaitDoneHold ==
    ASSUME TypeOK, HoldInv, WaitDone
    PROVE  HoldInv'
<1>1. \A id \in Objects : im'[id].gen = im[id].gen
  BY DEF WaitDone, TypeOK, Managers, ObjectStatus
<1>2. pending \subseteq Objects
  BY DEF TypeOK
<1> QED
  BY <1>1, <1>2 DEF WaitDone, HoldInv, WaitMissesNothing, Reconciled,
                    waitVars, runVars, watchVars

\* The tasks and the reports of a run keep it able to go on.
LEMMA HoldInvariant == Spec => []HoldInv
<1>1. Init => HoldInv
  <2> SUFFICES ASSUME Init PROVE HoldInv
    OBVIOUS
  <2>1. plan \in PlanType /\ queue = Build(plan)
    BY RunnerAssumption DEF Init
  <2>2. queue \in Seq(TimedTasks(plan.timeout))
    BY <2>1, BuildTimed
  <2> QED
    BY <2>2 DEF Init, NoTask, HoldInv, WaitMissesNothing
<1>2. TypeOK /\ RunnerInv /\ WaitInv /\ HoldInv /\ [Next]_vars => HoldInv'
  <2> SUFFICES ASSUME TypeOK, RunnerInv, WaitInv, HoldInv, [Next]_vars PROVE HoldInv'
    OBVIOUS
  <2> USE DEF taskVars, waitVars, runVars, watchVars
  <2>1. CASE Runner
    <3>1. ASSUME NEW id \in Objects, NEW r \in Reports, RecvStatus(id, r)
          PROVE  HoldInv'
      BY <3>1, RecvStatusHold
    <3>2. CASE RecvSync
      <4>1. CASE ~abort /\ NextTask
        BY <3>2, <4>1, NextTaskHold DEF RecvSync
      <4>2. CASE abort
        BY <3>2, <4>2 DEF RecvSync, HoldInv, WaitMissesNothing
      <4> QED
        BY <3>2, <4>1, <4>2 DEF RecvSync
    <3>3. CASE RecvWatchError
      BY <3>3 DEF RecvWatchError, CancelCurrent, Complete, RunnerInv, HoldInv, WaitMissesNothing
    <3>4. CASE RecvTaskResult
      <4>1. CASE ~taskErr /\ ~abort /\ NextTask
        BY <3>4, <4>1, NextTaskHold DEF RecvTaskResult
      <4>2. CASE taskErr \/ abort
        BY <3>4, <4>2 DEF RecvTaskResult, Complete, HoldInv, WaitMissesNothing
      <4> QED
        BY <3>4, <4>1, <4>2 DEF RecvTaskResult
    <3>5. CASE RecvDone
      BY <3>5 DEF RecvDone, CancelCurrent, Complete, RunnerInv, HoldInv, WaitMissesNothing
    <3>6. CASE Return
      BY <3>6 DEF Return, HoldInv, WaitMissesNothing
    <3> QED
      BY <2>1, <3>1, <3>2, <3>3, <3>4, <3>5, <3>6 DEF Runner
  <2>2. CASE Goroutine
    <3>1. ASSUME NEW id \in Objects, Actuating, OneObjectDone(id)
          PROVE  HoldInv'
      BY <3>1 DEF Actuating, OneObjectDone, HoldInv, WaitMissesNothing
    <3>2. CASE ActuationDone
      BY <3>2 DEF ActuationDone, HoldInv, WaitMissesNothing
    <3>3. CASE WaitDone
      BY <3>3, WaitDoneHold
    <3> QED
      BY <2>2, <3>1, <3>2, <3>3 DEF Goroutine, NotActuated, ApplyObject, DeleteObject
  <2>3. CASE WaitDeadline
    BY <2>3 DEF WaitDeadline, HoldInv, WaitMissesNothing
  <2>4. CASE CancelContext
    BY <2>4 DEF CancelContext, HoldInv, WaitMissesNothing
  <2>5. CASE CloseStatus
    BY <2>5 DEF CloseStatus, HoldInv, WaitMissesNothing
  <2>6. CASE UNCHANGED vars
    BY <2>6 DEF vars, HoldInv, WaitMissesNothing
  <2> QED
    BY <2>1, <2>2, <2>3, <2>4, <2>5, <2>6 DEF Next
<1> QED
  BY <1>1, <1>2, TypeCorrect, RunnerInvariant, WaitInvariant, PTL DEF Spec

\* Nothing a wait still waits for has been seen reconciled
\* (condition.go:42-73, task.go:317-411).
THEOREM WaitMissesNothingHolds == Spec => []WaitMissesNothing
<1>1. HoldInv => WaitMissesNothing
  BY DEF HoldInv
<1> QED
  BY <1>1, HoldInvariant, PTL

\* A run that does not go on by itself waits, not aborted, for objects that are
\* not there yet, without a timeout (runner.go:114-221, task.go:93-132).
THEOREM OnlyObjectsHoldUpHolds == Spec => []OnlyObjectsHoldUp
<1>1. TypeOK /\ RunnerInv /\ WaitInv /\ HoldInv => OnlyObjectsHoldUp
  <2> SUFFICES ASSUME TypeOK, RunnerInv, WaitInv, HoldInv,
                      phase = "running", synced \/ abort, ~TaskGoesOn
               PROVE  /\ ~abort /\ worker = "working" /\ current.action = "Wait"
                      /\ waitCtx = "active" /\ current.timeout = plan.timeout
                      /\ pending # {}
                      /\ \A id \in pending : ~Reconciled(cache, im, current.cond, id)
    BY DEF OnlyObjectsHoldUp
  <2>1. worker = "working" /\ current # NoTask
    BY DEF HoldInv, TypeOK, TaskGoesOn, RunnerInv
  <2>2. current \in Task
    BY <2>1 DEF TypeOK
  <2>3. current.action = "Wait"
    BY <2>1, <2>2 DEF HoldInv, TaskGoesOn, Actuating, Task
  <2>4. waitCtx = "active" /\ ~abort
    BY <2>1, <2>3 DEF HoldInv, TaskGoesOn, TypeOK
  <2>5. current.timeout = plan.timeout
    BY <2>1, <2>3 DEF HoldInv, TimedTasks
  <2> QED
    BY <2>1, <2>3, <2>4, <2>5 DEF HoldInv, WaitInv, WaitBookkeeping, WaitMissesNothing
<1> QED
  BY <1>1, TypeCorrect, RunnerInvariant, WaitInvariant, HoldInvariant, PTL

\* After an error of the watcher or a cancellation, the run is over as soon as
\* its current task is, and no step takes it back (runner.go:88-96, 124-135,
\* 199-221).
THEOREM AbortWindsDownHolds == Spec => AbortWindsDown
<1>1. TypeOK /\ RunnerInv /\ HoldInv /\ [Next]_vars
        => [abort /\ phase = "running" =>
              /\ abort' /\ UNCHANGED <<queue, current, cache, waitVars>>
              /\ remaining' \subseteq remaining
              /\ phase' = "running" => worker' = worker \/ worker' = "sending"
              /\ phase' # "running" => result' \in {"aborted", "taskFailed"}]_vars
  <2> SUFFICES ASSUME TypeOK, RunnerInv, HoldInv, Next, abort, phase = "running"
               PROVE  /\ abort' /\ UNCHANGED <<queue, current, cache, waitVars>>
                      /\ remaining' \subseteq remaining
                      /\ phase' = "running" => worker' = worker \/ worker' = "sending"
                      /\ phase' # "running" => result' \in {"aborted", "taskFailed"}
    OBVIOUS
  <2> USE DEF taskVars, waitVars, runVars, watchVars
  <2>1. waitCtx # "active"
    BY DEF HoldInv
  <2>2. CASE Runner
    BY <2>1, <2>2 DEF Runner, RecvStatus, RecvSync, RecvWatchError, RecvTaskResult, RecvDone,
                      Return, Complete, CancelCurrent
  <2>3. CASE Goroutine
    BY <2>3 DEF Goroutine, NotActuated, ApplyObject, DeleteObject, OneObjectDone,
                ActuationDone, WaitDone
  <2>4. CASE WaitDeadline
    BY <2>1, <2>4 DEF WaitDeadline
  <2>5. CASE CancelContext \/ CloseStatus
    BY <2>5 DEF CancelContext, CloseStatus
  <2> QED
    BY <2>2, <2>3, <2>4, <2>5 DEF Next
<1> QED
  BY <1>1, TypeCorrect, RunnerInvariant, HoldInvariant, PTL DEF Spec, AbortWindsDown
=============================================================================
