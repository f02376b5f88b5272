--------------------------- MODULE StatusReporter ---------------------------
(***************************************************************************)
(* ObjectStatusReporter (kstatus/watcher/object_status_reporter.go): one   *)
(* informer per target, started and stopped as CRDs and namespaces come    *)
(* and go. Goroutines: one per start of an informer (an attempt), the      *)
(* handler and the reflector of its informer, the scheduled status checks, *)
(* the one that waits for the caches, and those of the event funnel.       *)
(* The shared informer, the REST mapper and the cluster are external.      *)
(***************************************************************************)
EXTENDS EventFunnel, Sequences, SequencesExt

CONSTANTS
    Objects,      \* objects of the cluster
    GroupKind,    \* the group and kind of an object
    Namespace,    \* the namespace of an object, or NoName
    Ids,          \* objects Watch is called with
    Strategy,     \* the RESTScopeStrategy: automatic, root or namespace
    Defines,      \* the kind a CRD defines, NoKind for other objects
    NamespaceName,\* the name of a namespace, NoName for other objects
    NoKind, NoName,
    Unschedulable,\* objects that may be unschedulable pods
    Scenarios,    \* the cluster at the start, the changes and the faults to come
    MaxStarts,    \* bound: starts of one informer
    MaxChanges,   \* bound: changes of the cluster
    MaxTasks,     \* bound: status checks that wait or run at one time
    SyncChannel

----------------------------------------------------------------------------
(* DefaultStatusWatcher.Watch: what is watched, and at which scope.         *)

uniqueNamespaces == {Namespace[id] : id \in Ids}
autoSelectRESTScopeStrategy == IF Cardinality(uniqueNamespaces) > 1 THEN "root" ELSE "namespace"
Scope == IF Strategy = "automatic" THEN autoSelectRESTScopeStrategy ELSE Strategy

rootScopeGKNs      == {<<GroupKind[id], NoName>> : id \in Ids}
namespaceScopeGKNs == {<<GroupKind[id], Namespace[id]>> : id \in Ids}
Targets == IF Scope = "root" THEN rootScopeGKNs ELSE namespaceScopeGKNs

\* The informer of a target lists its kind in its namespace, or everywhere.
Sees(t, o) == t[1] = GroupKind[o] /\ t[2] \in {NoName, Namespace[o]}

----------------------------------------------------------------------------

Attempts == Targets \X (1 .. MaxStarts)
Tasks == 1 .. MaxTasks
States == {"absent", "ready", "unschedulable"}
Notes == [kind : {"add", "update", "delete"}, obj : Objects, st : States, ver : 0 .. MaxChanges + 1]
NoNote == [kind |-> "none"]

SyncEvent  == [type |-> "sync"]
ErrorEvent == [type |-> "error"]
Update(o, v) == [type |-> "update", obj |-> o, ver |-> v]
AllEvents == {SyncEvent, ErrorEvent} \cup {Update(o, v) : o \in Objects, v \in 0 .. MaxChanges + 1}

ASSUME ReporterAssumption ==
    /\ Channels = Attempts \cup {SyncChannel} /\ SyncChannel \notin Attempts
    /\ Events = AllEvents
    /\ IsFiniteSet(Objects)
    /\ MaxStarts \in Nat \ {0} /\ MaxChanges \in Nat /\ MaxTasks \in Nat
    /\ Ids \subseteq Objects /\ Strategy \in {"automatic", "root", "namespace"}
    /\ Scenarios \subseteq [cluster : [Objects -> States], changes : 0 .. MaxChanges,
                            faults : SUBSET {"lookup", "list", "read", "deadline"}]

VARIABLES
    objs,     \* the cluster: state and version of each object
    left,     \* bound: changes the cluster may still make, calls that may fail
    mapped,   \* kinds in the cache of the REST mapper
    refs,     \* informerRefs
    phase,    \* where startInformerWithRetry and the goroutine of the informer are
    canceled, \* attempts whose own context was cancelled
    listed,   \* attempts whose informer has synced
    queue,    \* notifications the informer has yet to hand to its handler
    handler,  \* the goroutine that runs the event handler
    unread,   \* history: versions a handler left out for an ignored error
    watchErr, \* the reflector in watchErrorHandler: idle, sending, stopping
    task,     \* goroutines of the task manager
    scheduled,\* cancelFuncs: the task of an object, or 0
    syncer,   \* Start after its start requests, and the goroutine it leaves
    got,      \* the newest version of each object the reader received
    syncSeen, errSeen,  \* the reader received a SyncEvent, an ErrorEvent
    panicked  \* a send on a closed channel ended the process

clusterVars == <<objs, left>>
refVars     == <<mapped, refs, canceled>>
readerVars  == <<got, syncSeen, errSeen>>
taskVars    == <<task, scheduled>>
allButFunnel == <<clusterVars, unread, refVars, phase, listed, queue, handler, watchErr,
                  taskVars, syncer, readerVars, panicked>>
vars == <<ctxDone, funnelVars, allButFunnel>>

IdleTask == [pc |-> "none"]
Idle == [pc |-> "idle", note |-> NoNote]

ReporterTypeOK ==
    /\ FunnelTypeOK
    /\ objs \in [Objects -> [st : States, ver : 0 .. MaxChanges + 1]]
    /\ left \in [changes : 0 .. MaxChanges, faults : SUBSET {"lookup", "list", "read", "deadline"}]
    /\ refs \in [Targets -> [started : BOOLEAN, starts : 0 .. MaxStarts, informer : 0 .. MaxStarts]]
    /\ phase \in [Attempts -> {"unused", "lookup", "nomatch", "failed", "refused", "reporting",
                               "stopping", "found", "adding", "running", "closing", "ended"}]
    /\ canceled \subseteq Attempts /\ listed \subseteq Attempts
    /\ \A i \in Attempts :
          /\ queue[i] \in Seq(Notes)
          /\ handler[i].pc \in {"idle", "read", "hook", "send", "failing", "stopping"}
          /\ watchErr[i] \in {"idle", "sending", "stopping"}
    /\ unread \subseteq Attempts \X Objects \X (0 .. MaxChanges + 1)
    /\ \A k \in Tasks : task[k].pc \in {"none", "waiting", "reading", "sending", "failing", "stopping"}
    /\ scheduled \in [Objects -> 0 .. MaxTasks]
    /\ syncer \in {"unstarted", "waiting", "sending", "closing", "done",
                   "refused", "refusedSent", "refusedClosed"}
    /\ got \in [Objects -> 0 .. MaxChanges + 1]
    /\ {syncSeen, errSeen, panicked} \subseteq BOOLEAN

Init ==
    /\ FunnelInit
    /\ \E s \in Scenarios :
          /\ objs = [o \in Objects |->
                        [st |-> s.cluster[o], ver |-> IF s.cluster[o] = "absent" THEN 0 ELSE 1]]
          /\ left = [changes |-> s.changes, faults |-> s.faults]
    /\ mapped = {}
    /\ refs = [t \in Targets |-> [started |-> TRUE, starts |-> 1, informer |-> 0]]
    /\ phase = [i \in Attempts |-> IF i[2] = 1 THEN "lookup" ELSE "unused"]
    /\ canceled = {} /\ listed = {}
    /\ queue = [i \in Attempts |-> << >>]
    /\ handler = [i \in Attempts |-> Idle] /\ unread = {}
    /\ watchErr = [i \in Attempts |-> "idle"]
    /\ task = [k \in Tasks |-> IdleTask]
    /\ scheduled = [o \in Objects |-> 0]
    /\ syncer = "unstarted"
    /\ got = [o \in Objects |-> 0]
    /\ syncSeen = FALSE /\ errSeen = FALSE /\ panicked = FALSE

Present(o) == objs[o].st # "absent"

\* A kind is served when it is built in or a CRD defines it (external).
Served(kind) ==
    \/ \A o \in Objects : Defines[o] # kind
    \/ \E o \in Objects : Defines[o] = kind /\ Present(o)

CtxDone(i) == ctxDone \/ i \in canceled

----------------------------------------------------------------------------
(* informerReference and the loops over it.                                *)

\* Mutant: a reference that is started is started again.
StartAllAgain(S) ==
    /\ refs' = [t \in Targets |->
                   IF t \in S THEN [refs[t] EXCEPT !.started = TRUE, !.starts = @ + 1] ELSE refs[t]]
    /\ phase' = [i \in Attempts |->
                   IF i[1] \in S /\ i[2] = refs[i[1]].starts + 1 THEN "lookup" ELSE phase[i]]
    /\ UNCHANGED canceled

\* Start of every reference in S that is not started, each in a goroutine.
StartAll(S) ==
    LET fresh == {t \in S : ~refs[t].started /\ refs[t].starts < MaxStarts}
    IN  /\ refs' = [t \in Targets |->
                       IF t \in fresh
                       THEN [refs[t] EXCEPT !.started = TRUE, !.starts = @ + 1]
                       ELSE refs[t]]
        /\ phase' = [i \in Attempts |->
                       IF i[1] \in fresh /\ i[2] = refs[i[1]].starts + 1
                       THEN "lookup" ELSE phase[i]]
        /\ UNCHANGED canceled

\* Stop cancels the context of the last start, whoever calls it.
Stopped(S) ==
    LET running == {t \in S : refs[t].started}
    IN  /\ refs' = [t \in Targets |->
                       IF t \in running THEN [refs[t] EXCEPT !.started = FALSE] ELSE refs[t]]
        /\ canceled' = canceled \cup {<<t, refs[t].starts>> : t \in running}

OfKind(kind) == {t \in Targets : t[1] = kind}

\* Targets an object starts or stops: those of the kind a CRD defines, those
\* of a namespace unless the watch is at root scope.
Affected(o) ==
    IF Defines[o] # NoKind THEN OfKind(Defines[o])
    ELSE IF NamespaceName[o] # NoName /\ Scope # "root"
         THEN {t \in Targets : t[2] = NamespaceName[o]} ELSE {}

----------------------------------------------------------------------------
(* startInformerWithRetry and startInformerNow.                            *)

\* BackoffUntil finds the context done before it calls.
Dropped(i) ==
    /\ phase[i] = "lookup" /\ CtxDone(i)
    /\ phase' = [phase EXCEPT ![i] = "ended"]
    /\ UNCHANGED <<ctxDone, funnelVars, clusterVars, unread, refVars, listed, queue, handler,
                   watchErr, taskVars, syncer, readerVars, panicked>>

\* RESTMapping answers from its cache or asks the cluster.
Lookup(i) ==
    LET kind == i[1][1] IN
    /\ phase[i] = "lookup"
    /\ \/ /\ kind \in mapped \/ Served(kind)
          /\ mapped' = mapped \cup {kind}
          /\ phase' = [phase EXCEPT ![i] = "found"]
       \/ /\ kind \notin mapped /\ ~Served(kind)
          /\ phase' = [phase EXCEPT ![i] = "nomatch"]
          /\ UNCHANGED mapped
       \/ /\ kind \notin mapped /\ "lookup" \in left.faults
          /\ phase' = [phase EXCEPT ![i] = "failed"]
          /\ UNCHANGED mapped
    /\ UNCHANGED <<ctxDone, funnelVars, clusterVars, unread, refs, canceled, listed, queue, handler,
                   watchErr, taskVars, syncer, readerVars, panicked>>

\* IsNoMatchError: wait for the CRD. The stop hits the reference, which may
\* belong to a later start by now.
StopOnNoMatch(i) ==
    /\ phase[i] = "nomatch"
    /\ Stopped({i[1]})
    /\ phase' = [phase EXCEPT ![i] = "ended"]
    /\ UNCHANGED <<ctxDone, funnelVars, clusterVars, unread, mapped, listed, queue, handler,
                   watchErr, taskVars, syncer, readerVars, panicked>>

SetInformer(i) ==
    /\ phase[i] = "found"
    /\ refs' = [refs EXCEPT ![i[1]].informer = i[2]]
    /\ phase' = [phase EXCEPT ![i] = "adding"]
    /\ UNCHANGED <<ctxDone, funnelVars, clusterVars, unread, mapped, canceled, listed, queue, handler,
                   watchErr, taskVars, syncer, readerVars, panicked>>

\* The channel joins the funnel and the informer runs; or the temporary
\* channel of a failed start joins it. handleFatalError is given the nil of
\* this call, which shadows the error of the start: any failure is reported.
JoinFunnel(i) ==
    /\ phase[i] \in {"adding", "failed", "refused"}
    /\ AddInputChannel(i)
    /\ phase' = [phase EXCEPT ![i] = IF @ = "adding" THEN "running" ELSE "reporting"]
    /\ UNCHANGED <<clusterVars, unread, refVars, listed, queue, handler, watchErr, taskVars,
                   syncer, readerVars, panicked>>

RefusedByFunnel(i) ==
    /\ phase[i] \in {"adding", "failed", "refused"}
    /\ AddRefused
    /\ phase' = [phase EXCEPT ![i] = IF @ = "adding" THEN "refused" ELSE "ended"]
    /\ UNCHANGED <<ctxDone, funnelVars, clusterVars, unread, refVars, listed, queue, handler, watchErr,
                   taskVars, syncer, readerVars, panicked>>

\* Mutant: the channel is closed once the context is done, while the informer
\* still runs.
RunReturnsEarly(i) ==
    /\ phase[i] = "running" /\ CtxDone(i)
    /\ phase' = [phase EXCEPT ![i] = "closing"]
    /\ queue' = [queue EXCEPT ![i] = << >>]
    /\ UNCHANGED <<ctxDone, funnelVars, clusterVars, unread, refVars, listed, handler, watchErr,
                   taskVars, syncer, readerVars, panicked>>

\* RunWithContext returns after its handler and its reflector did.
RunReturns(i) ==
    /\ phase[i] = "running" /\ CtxDone(i)
    /\ handler[i].pc = "idle" /\ watchErr[i] = "idle"
    /\ phase' = [phase EXCEPT ![i] = "closing"]
    /\ queue' = [queue EXCEPT ![i] = << >>]
    /\ UNCHANGED <<ctxDone, funnelVars, clusterVars, unread, refVars, listed, handler, watchErr,
                   taskVars, syncer, readerVars, panicked>>

CloseChannel(i) ==
    /\ phase[i] = "closing"
    /\ CloseInput(i)
    /\ phase' = [phase EXCEPT ![i] = "ended"]
    /\ UNCHANGED <<clusterVars, unread, refVars, listed, queue, handler, watchErr, taskVars,
                   syncer, readerVars, panicked>>

----------------------------------------------------------------------------
(* The informer: list, watch and their errors (external), watchErrorHandler.*)

Seen(i) == {o \in Objects : Sees(i[1], o)}

List(i) ==
    /\ phase[i] = "running" /\ ~CtxDone(i) /\ i \notin listed
    /\ Served(i[1][1])
    /\ listed' = listed \cup {i}
    /\ queue' = [queue EXCEPT ![i] =
                    SetToSeq({[kind |-> "add", obj |-> o, st |-> objs[o].st, ver |-> objs[o].ver]
                                 : o \in {x \in Seen(i) : Present(x)}})]
    /\ UNCHANGED <<ctxDone, funnelVars, clusterVars, unread, refVars, phase, handler, watchErr,
                   taskVars, syncer, readerVars, panicked>>

\* A change of the cluster, which the informers that watch it are told of.
\* A CRD goes only after the objects of its kind.
Change(o) ==
    /\ left.changes > 0
    /\ left' = [left EXCEPT !.changes = @ - 1]
    /\ Served(GroupKind[o])
    /\ \E s \in IF o \in Unschedulable THEN States ELSE States \ {"unschedulable"} :
        /\ s = "absent" =>
              Present(o) /\ \A x \in Objects : GroupKind[x] = Defines[o] => ~Present(x)
        /\ objs' = [objs EXCEPT ![o] = [st |-> s, ver |-> @.ver + 1]]
        /\ LET kind == IF s = "absent" THEN "delete" ELSE IF Present(o) THEN "update" ELSE "add"
               note == [kind |-> kind, obj |-> o, st |-> s, ver |-> objs[o].ver + 1]
           IN  queue' = [i \in Attempts |->
                            IF Sees(i[1], o) /\ phase[i] = "running" /\ i \in listed /\ ~CtxDone(i)
                            THEN Append(queue[i], note) ELSE queue[i]]
    /\ UNCHANGED <<ctxDone, funnelVars, refVars, phase, listed, handler, unread, watchErr, taskVars,
                   syncer, readerVars, panicked>>

\* IsNotFound: the CRD is gone, all informers of the kind stop.
WatchNotFound(i) ==
    /\ phase[i] = "running" /\ ~CtxDone(i)
    /\ ~Served(i[1][1])
    /\ Stopped(OfKind(i[1][1]))
    /\ UNCHANGED <<ctxDone, funnelVars, clusterVars, unread, mapped, phase, listed, queue, handler,
                   watchErr, taskVars, syncer, readerVars, panicked>>

\* IsForbidden is fatal. The other errors of a watch are retried.
WatchForbidden(i) ==
    /\ phase[i] = "running" /\ ~CtxDone(i) /\ watchErr[i] = "idle"
    /\ "list" \in left.faults
    /\ watchErr' = [watchErr EXCEPT ![i] = "sending"]
    /\ UNCHANGED <<ctxDone, funnelVars, clusterVars, unread, refVars, phase, listed, queue, handler,
                   taskVars, syncer, readerVars, panicked>>

----------------------------------------------------------------------------
(* eventHandler: AddFunc, UpdateFunc and DeleteFunc.                       *)

\* taskManager.Cancel
Cancelled(o) ==
    /\ task' = [k \in Tasks |-> IF scheduled[o] = k THEN [task[k] EXCEPT !.dead = TRUE] ELSE task[k]]
    /\ scheduled' = [scheduled EXCEPT ![o] = 0]

HandlerTakes(i) ==
    /\ handler[i].pc = "idle" /\ queue[i] # << >>
    /\ queue' = [queue EXCEPT ![i] = Tail(@)]
    /\ LET note == Head(queue[i]) IN
       IF CtxDone(i) \/ note.obj \notin Ids
       THEN UNCHANGED <<handler, taskVars>>
       ELSE /\ Cancelled(note.obj)
            /\ handler' = [handler EXCEPT ![i] =
                  [pc |-> IF note.kind = "delete" THEN "hook" ELSE "read", note |-> note]]
    /\ UNCHANGED <<ctxDone, funnelVars, clusterVars, unread, refVars, phase, listed, watchErr,
                   syncer, readerVars, panicked>>

\* Mutant: any error of the status reader is ignored.
HandlerReadsQuietly(i) ==
    /\ handler[i].pc = "read"
    /\ \/ handler' = [handler EXCEPT ![i].pc = "hook"]
       \/ "read" \in left.faults /\ handler' = [handler EXCEPT ![i] = Idle]
    /\ UNCHANGED <<ctxDone, funnelVars, clusterVars, unread, refVars, phase, listed, queue, watchErr,
                   taskVars, syncer, readerVars, panicked>>

\* readStatusFromObject, which may call the cluster for generated objects.
HandlerReads(i) ==
    /\ handler[i].pc = "read"
    /\ \/ handler' = [handler EXCEPT ![i].pc = "hook"]
       \/ "read" \in left.faults /\ handler' = [handler EXCEPT ![i].pc = "failing"]
    /\ UNCHANGED <<ctxDone, funnelVars, clusterVars, unread, refVars, phase, listed, queue, watchErr,
                   taskVars, syncer, readerVars, panicked>>

\* An error that is Canceled or DeadlineExceeded by type, of the context of the
\* informer or of one call: handleFatalError ignores both, and the event is left out.
Ignorable(i) == CtxDone(i) \/ "deadline" \in left.faults
HandlerIgnores(i) ==
    LET note == handler[i].note IN
    /\ handler[i].pc = "read" /\ Ignorable(i)
    /\ handler' = [handler EXCEPT ![i] = Idle]
    /\ unread' = IF CtxDone(i) THEN unread ELSE unread \cup {<<i, note.obj, note.ver>>}
    /\ UNCHANGED <<ctxDone, funnelVars, clusterVars, refVars, phase, listed, queue, watchErr,
                   taskVars, syncer, readerVars, panicked>>

\* taskManager.Schedule, after which the handler sends its event.
Scheduled(i, o) ==
    \E k \in Tasks :
        /\ task[k].pc = "none"
        /\ task' = [j \in Tasks |->
              IF j = k THEN [pc |-> "waiting", att |-> i, obj |-> o, ver |-> 0, dead |-> FALSE]
              ELSE IF scheduled[o] = j THEN [task[j] EXCEPT !.dead = TRUE] ELSE task[j]]
        /\ scheduled' = [scheduled EXCEPT ![o] = k]

\* onCRDAdd, onCRDUpdate, onNamespaceAdd, onNamespaceUpdate, and the
\* scheduling of a status check. CRDs reset the mapper.
HandlerStarts(i) ==
    LET note == handler[i].note IN
    /\ handler[i].pc = "hook" /\ note.kind # "delete"
    /\ mapped' = IF Defines[note.obj] # NoKind THEN {} ELSE mapped
    /\ StartAll(Affected(note.obj))
    /\ IF note.st = "unschedulable" /\ \E k \in Tasks : task[k].pc = "none"
       THEN Scheduled(i, note.obj) ELSE UNCHANGED taskVars
    /\ handler' = [handler EXCEPT ![i].pc = "send"]
    /\ UNCHANGED <<ctxDone, funnelVars, clusterVars, unread, listed, queue, watchErr,
                   syncer, readerVars, panicked>>

\* onCRDDelete, onNamespaceDelete
HandlerEnds(i) ==
    LET note == handler[i].note IN
    /\ handler[i].pc = "hook" /\ note.kind = "delete"
    /\ Stopped(Affected(note.obj))
    /\ mapped' = IF Defines[note.obj] # NoKind THEN {} ELSE mapped
    /\ handler' = [handler EXCEPT ![i].pc = "send"]
    /\ UNCHANGED <<ctxDone, funnelVars, clusterVars, unread, phase, listed, queue, watchErr, taskVars,
                   syncer, readerVars, panicked>>

HandlerSends(i) ==
    /\ handler[i].pc = "send"
    /\ Send(i, Update(handler[i].note.obj, handler[i].note.ver))
    /\ handler' = [handler EXCEPT ![i] = Idle]
    /\ UNCHANGED <<clusterVars, unread, refVars, phase, listed, queue, watchErr, taskVars,
                   syncer, readerVars, panicked>>

----------------------------------------------------------------------------
(* newStatusCheckTaskFunc in the goroutine of taskManager.Schedule.        *)

TaskOver(k) ==
    /\ task' = [task EXCEPT ![k] = IdleTask]
    /\ scheduled' = [o \in Objects |-> IF scheduled[o] = k THEN 0 ELSE scheduled[o]]

\* It was cancelled, or the context of its informer is done.
TaskStops(k) ==
    /\ task[k].pc = "waiting" /\ (task[k].dead \/ CtxDone(task[k].att))
    /\ TaskOver(k)
    /\ UNCHANGED <<ctxDone, funnelVars, clusterVars, unread, refVars, phase, listed, queue, handler,
                   watchErr, syncer, readerVars, panicked>>

\* The deadline; a cancellation from now on has no effect.
TaskFires(k) ==
    /\ task[k].pc = "waiting" /\ ~task[k].dead
    /\ task' = [task EXCEPT ![k].pc = "reading"]
    /\ UNCHANGED <<ctxDone, funnelVars, clusterVars, unread, refVars, phase, listed, queue, handler,
                   watchErr, scheduled, syncer, readerVars, panicked>>

\* readStatusFromCluster, with the context of the informer.
TaskReads(k) ==
    /\ task[k].pc = "reading"
    /\ \/ /\ task' = [task EXCEPT ![k].pc = "sending", ![k].ver = objs[task[k].obj].ver]
          /\ UNCHANGED scheduled
       \/ /\ "read" \in left.faults
          /\ task' = [task EXCEPT ![k].pc = "failing"]
          /\ UNCHANGED scheduled
       \/ Ignorable(task[k].att) /\ TaskOver(k)
    /\ UNCHANGED <<ctxDone, funnelVars, clusterVars, unread, refVars, phase, listed, queue, handler,
                   watchErr, syncer, readerVars, panicked>>

TaskSends(k) ==
    /\ task[k].pc = "sending"
    /\ Send(task[k].att, Update(task[k].obj, task[k].ver))
    /\ TaskOver(k)
    /\ UNCHANGED <<clusterVars, unread, refVars, phase, listed, queue, handler, watchErr,
                   syncer, readerVars, panicked>>

\* The goroutine of the informer closed the channel: send on closed channel.
TaskPanics(k) ==
    /\ task[k].pc \in {"sending", "failing"} /\ inClosed[task[k].att]
    /\ panicked' = TRUE
    /\ UNCHANGED <<ctxDone, funnelVars, clusterVars, unread, refVars, phase, listed, queue, handler,
                   watchErr, taskVars, syncer, readerVars>>

----------------------------------------------------------------------------
(* handleFatalError: send the error, then cancel the reporter.             *)

StartSendsError(i) ==
    /\ phase[i] = "reporting" /\ Send(i, ErrorEvent)
    /\ phase' = [phase EXCEPT ![i] = "stopping"]
    /\ UNCHANGED <<clusterVars, unread, refVars, listed, queue, handler, watchErr, taskVars,
                   syncer, readerVars, panicked>>
HandlerSendsError(i) ==
    /\ handler[i].pc = "failing" /\ Send(i, ErrorEvent)
    /\ handler' = [handler EXCEPT ![i].pc = "stopping"]
    /\ UNCHANGED <<clusterVars, unread, refVars, phase, listed, queue, watchErr, taskVars,
                   syncer, readerVars, panicked>>
WatchSendsError(i) ==
    /\ watchErr[i] = "sending" /\ Send(i, ErrorEvent)
    /\ watchErr' = [watchErr EXCEPT ![i] = "stopping"]
    /\ UNCHANGED <<clusterVars, unread, refVars, phase, listed, queue, handler, taskVars,
                   syncer, readerVars, panicked>>
TaskSendsError(k) ==
    /\ task[k].pc = "failing" /\ Send(task[k].att, ErrorEvent)
    /\ task' = [task EXCEPT ![k].pc = "stopping"]
    /\ UNCHANGED <<clusterVars, unread, refVars, phase, listed, queue, handler, watchErr, scheduled,
                   syncer, readerVars, panicked>>

\* Stop, by whichever goroutine sent the error.
StopReporter ==
    /\ ctxDone' = TRUE
    /\ \/ \E i \in Attempts :
             \/ /\ phase[i] = "stopping"
                /\ phase' = [phase EXCEPT ![i] = "closing"]
                /\ UNCHANGED <<handler, watchErr, taskVars>>
             \/ /\ handler[i].pc = "stopping"
                /\ handler' = [handler EXCEPT ![i] = Idle]
                /\ UNCHANGED <<phase, watchErr, taskVars>>
             \/ /\ watchErr[i] = "stopping"
                /\ watchErr' = [watchErr EXCEPT ![i] = "idle"]
                /\ UNCHANGED <<phase, handler, taskVars>>
       \/ \E k \in Tasks :
             /\ task[k].pc = "stopping"
             /\ TaskOver(k)
             /\ UNCHANGED <<phase, handler, watchErr>>
    /\ UNCHANGED <<funnelVars, clusterVars, unread, refVars, listed, queue, syncer, readerVars, panicked>>

----------------------------------------------------------------------------
(* The end of Start and the goroutine that sends the SyncEvent.            *)

\* All started informers are synced. That of a reference is the one that was
\* set last, which need not be the one that was started last.
HasSynced ==
    /\ ~outClosed
    /\ \A t \in Targets : refs[t].started => <<t, refs[t].informer>> \in listed

SyncerStep(from, to) ==
    /\ syncer = from /\ syncer' = to
    /\ UNCHANGED <<clusterVars, unread, refVars, phase, listed, queue, handler, watchErr, taskVars, panicked>>

SyncerJoins == SyncerStep("unstarted", "waiting") /\ AddInputChannel(SyncChannel) /\ UNCHANGED readerVars

\* Start returns another channel, with one error on it, and nobody reads
\* the output of the funnel.
SyncerRefused ==
    /\ SyncerStep("unstarted", "refused") /\ AddRefused
    /\ UNCHANGED <<ctxDone, funnelVars, readerVars>>
RefusalRead ==
    /\ SyncerStep("refused", "refusedSent") /\ errSeen' = TRUE
    /\ UNCHANGED <<ctxDone, funnelVars, got, syncSeen>>
RefusalClosed ==
    /\ SyncerStep("refusedSent", "refusedClosed") /\ UNCHANGED <<ctxDone, funnelVars, readerVars>>

\* Mutant: WaitForCacheSync without the context.
SyncerNeverGivesUp == FALSE /\ UNCHANGED vars

SyncerSees == SyncerStep("waiting", "sending") /\ HasSynced /\ UNCHANGED <<ctxDone, funnelVars, readerVars>>
SyncerSends == SyncerStep("sending", "closing") /\ Send(SyncChannel, SyncEvent) /\ UNCHANGED readerVars
SyncerGivesUp == SyncerStep("waiting", "closing") /\ ctxDone /\ UNCHANGED <<ctxDone, funnelVars, readerVars>>
SyncerCloses == SyncerStep("closing", "done") /\ CloseInput(SyncChannel) /\ UNCHANGED readerVars

----------------------------------------------------------------------------
(* The caller of Watch (external) and the funnel.                          *)

CallerCancels == ~ctxDone /\ ctxDone' = TRUE /\ UNCHANGED <<funnelVars, allButFunnel>>

\* Start returned the output of the funnel.
Returned == syncer \in {"waiting", "sending", "closing", "done"}

\* The caller reads, once Start has returned the output of the funnel.
Delivered(c) ==
    /\ Returned
    /\ Forward(c)
    /\ LET e == held[c] IN
       /\ got' = IF e.type = "update" /\ e.ver > got[e.obj]
                 THEN [got EXCEPT ![e.obj] = e.ver] ELSE got
       /\ syncSeen' = (syncSeen \/ e.type = "sync")
       /\ errSeen' = (errSeen \/ e.type = "error")
    /\ UNCHANGED <<clusterVars, unread, refVars, phase, listed, queue, handler, watchErr, taskVars,
                   syncer, panicked>>

FunnelNotices == NoticeContext /\ UNCHANGED allButFunnel
FunnelDrainEnds(c) == DrainEnds(c) /\ UNCHANGED allButFunnel

----------------------------------------------------------------------------

Attempt(i) ==
    \/ Dropped(i) \/ Lookup(i) \/ StopOnNoMatch(i) \/ SetInformer(i) \/ JoinFunnel(i)
    \/ RefusedByFunnel(i) \/ StartSendsError(i) \/ RunReturns(i) \/ CloseChannel(i)
Reflector(i) == List(i) \/ WatchNotFound(i) \/ WatchSendsError(i)
Handler(i) ==
    \/ HandlerTakes(i) \/ HandlerReads(i) \/ HandlerIgnores(i) \/ HandlerStarts(i) \/ HandlerEnds(i)
    \/ HandlerSends(i) \/ HandlerSendsError(i)
Task(k) ==
    \/ TaskStops(k) \/ TaskFires(k) \/ TaskReads(k) \/ TaskSends(k) \/ TaskPanics(k)
    \/ TaskSendsError(k)
Syncer ==
    \/ SyncerJoins \/ SyncerRefused \/ RefusalRead \/ RefusalClosed
    \/ SyncerSees \/ SyncerSends \/ SyncerGivesUp \/ SyncerCloses

Next ==
    /\ ~panicked
    /\ \/ \E i \in Attempts : Attempt(i) \/ Reflector(i) \/ WatchForbidden(i) \/ Handler(i)
       \/ \E k \in Tasks : Task(k)
       \/ Syncer \/ StopReporter \/ FunnelNotices \/ CallerCancels
       \/ \E c \in Channels : Delivered(c) \/ FunnelDrainEnds(c)
       \/ \E o \in Objects : Change(o)

\* Every goroutine runs, and the caller reads until the channel is closed, as
\* TaskStatusRunner.complete does. Nothing makes the cluster change, a call
\* fail or the caller cancel.
Fairness ==
    /\ \A i \in Attempts :
          /\ WF_vars(~panicked /\ Attempt(i))
          /\ WF_vars(~panicked /\ Reflector(i))
          /\ WF_vars(~panicked /\ Handler(i))
    /\ \A k \in Tasks : WF_vars(~panicked /\ Task(k))
    /\ WF_vars(~panicked /\ Syncer)
    /\ WF_vars(~panicked /\ StopReporter)
    /\ WF_vars(~panicked /\ FunnelNotices)
    /\ \A c \in Channels : WF_vars(~panicked /\ (Delivered(c) \/ FunnelDrainEnds(c)))

Spec == Init /\ [][Next]_vars /\ Fairness

----------------------------------------------------------------------------
\* The reporter keeps the promise of a status watcher, so that the task
\* runner, which reads until the channel is closed, is never left waiting: an
\* error stops the reporter, and a stopped reporter closes the channel
\* whatever its informers, handlers and scheduled checks were doing.
Promise == INSTANCE StatusPromise WITH
    stopped <- ctxDone,
    synced  <- syncSeen,
    erred   <- errSeen,
    closed  <- syncer = "refusedClosed" \/ (Returned /\ outClosed),
    crashed <- panicked
KeepsPromise == Promise!Spec

\* The last start of the informer that sees o got as far as its first list.
Watching(o) ==
    \E t \in Targets :
        LET i == <<t, refs[t].starts>>
        IN  Sees(t, o) /\ phase[i] = "running" /\ i \in listed /\ ~CtxDone(i)

\* The handler of that informer ignored an error when it read the newest version.
LeftOut(o) == \E t \in Targets : <<<<t, refs[t].starts>>, o, objs[o].ver>> \in unread

\* While an object is there and watched, its newest state is reported in the
\* end, however often its informer was stopped and started again: only an
\* error that handleFatalError takes for the end of a context keeps it back.
PresentIsReported ==
    \A o \in Ids :
        <>[](Present(o) /\ Watching(o) /\ ~panicked)
            => <>[](got[o] = objs[o].ver \/ LeftOut(o) \/ panicked)

\* A channel is closed once, and after everything that sends on it but the
\* scheduled checks is done with it: the start that failed, the handler and the
\* reflector of the attempt, and the sender of the SyncEvent.
SendersHaveChannel ==
    /\ \A i \in Attempts :
          \/ phase[i] \in {"reporting", "closing"}
          \/ handler[i].pc \in {"send", "failing"}
          \/ watchErr[i] = "sending"
          => ~inClosed[i]
    /\ syncer \in {"sending", "closing"} => ~inClosed[SyncChannel]

\* "Signal to the caller there will be no more events for this GroupKind":
\* when an informer closes its channel nothing is about to send on it.
ClosedWithoutSenders ==
    \A k \in Tasks : task[k].pc \in {"sending", "failing"} => ~inClosed[task[k].att]
=============================================================================
