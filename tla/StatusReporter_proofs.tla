------------------------ MODULE StatusReporter_proofs -----------------------
(***************************************************************************)
(* Proofs about the event funnel, for any producers and any caller, and    *)
(* about the status reporter, which is one case of those.                  *)
(***************************************************************************)
EXTENDS StatusReporter, FiniteSetTheorems, FunctionTheorems, SequenceTheorems, TLAPS

(* The event funnel.                                                       *)

\* What the loop knows: its count, and why it closed the output.
CountInv ==
    /\ FunnelTypeOK
    /\ inputs = Cardinality(Open)
    /\ ctxNoticed => ctxDone
    /\ outClosed => ctxNoticed /\ inputs <= 0

\* The set of open drains is finite, and its size is zero only if it is empty.
LEMMA OpenFinite ==
    ASSUME FunnelTypeOK
    PROVE  /\ IsFiniteSet(Open)
           /\ Cardinality(Open) \in Nat
           /\ Cardinality(Open) <= 0 => Open = {}
<1>1. IsFiniteSet(Open)
  BY FS_Subset, FunnelAssumption DEF Open
<1>2. Cardinality(Open) \in Nat
  BY <1>1, FS_CardinalityType
<1>3. Cardinality(Open) = 0 <=> Open = {}
  BY <1>1, FS_EmptySet
<1> QED
  BY <1>1, <1>2, <1>3

\* Adding an input opens one more drain.
LEMMA OpenGrows ==
    ASSUME CountInv, NEW c \in Channels, AddInputChannel(c)
    PROVE  Cardinality(Open') = Cardinality(Open) + 1
<1>1. Open' = Open \cup {c} /\ c \notin Open
  BY DEF CountInv, FunnelTypeOK, AddInputChannel, Open
<1>2. IsFiniteSet(Open) /\ Cardinality(Open) \in Nat
  BY OpenFinite DEF CountInv
<1> QED
  BY <1>1, <1>2, FS_AddElement

\* A drain that ends leaves one less open.
LEMMA OpenShrinks ==
    ASSUME CountInv, NEW c \in Channels, DrainEnds(c)
    PROVE  Cardinality(Open') = Cardinality(Open) - 1
<1>1. Open' = Open \ {c} /\ c \in Open
  BY DEF CountInv, FunnelTypeOK, DrainEnds, Open
<1>2. IsFiniteSet(Open) /\ Cardinality(Open) \in Nat
  BY OpenFinite DEF CountInv
<1> QED
  BY <1>1, <1>2, FS_RemoveElement

\* Every step keeps the count right.
LEMMA CountStep ==
    ASSUME CountInv, [FunnelNext]_<<ctxDone, funnelVars>>
    PROVE  CountInv'
<1> USE DEF CountInv
<1>0. Cardinality(Open) \in Nat
  BY OpenFinite
<1>1. CASE NoticeContext
  <2>1. FunnelTypeOK'
    BY <1>1 DEF NoticeContext, Turn, FunnelTypeOK
  <2>2. Open' = Open
    BY <1>1 DEF NoticeContext, Open
  <2> QED
    BY <1>1, <2>1, <2>2 DEF NoticeContext, Turn, FunnelTypeOK
<1>2. CASE CancelContext
  <2>1. FunnelTypeOK' /\ Open' = Open
    BY <1>2 DEF CancelContext, funnelVars, FunnelTypeOK, Open
  <2> QED
    BY <1>2, <2>1 DEF CancelContext, funnelVars
<1>3. ASSUME NEW c \in Channels, AddInputChannel(c) PROVE CountInv'
  <2>1. FunnelTypeOK'
    BY <1>3 DEF AddInputChannel, Turn, FunnelTypeOK
  <2>2. Cardinality(Open') = Cardinality(Open) + 1
    BY <1>3, OpenGrows
  <2> QED
    BY <1>3, <2>1, <2>2 DEF AddInputChannel, Turn, FunnelTypeOK
<1>4. ASSUME NEW c \in Channels, NEW e \in Events, Send(c, e) PROVE CountInv'
  <2>1. FunnelTypeOK'
    BY <1>4 DEF Send, FunnelTypeOK
  <2>2. Open' = Open
    BY <1>4 DEF Send, Open, FunnelTypeOK
  <2> QED
    BY <1>4, <2>1, <2>2 DEF Send
<1>5. ASSUME NEW c \in Channels, Forward(c) PROVE CountInv'
  <2>1. FunnelTypeOK'
    BY <1>5 DEF Forward, FunnelTypeOK
  <2>2. Open' = Open
    BY <1>5 DEF Forward, Open, FunnelTypeOK
  <2> QED
    BY <1>5, <2>1, <2>2 DEF Forward
<1>6. ASSUME NEW c \in Channels, DrainEnds(c) PROVE CountInv'
  <2>1. FunnelTypeOK'
    BY <1>6 DEF DrainEnds, Turn, FunnelTypeOK
  <2>2. Cardinality(Open') = Cardinality(Open) - 1
    BY <1>6, OpenShrinks
  <2> QED
    BY <1>6, <2>1, <2>2 DEF DrainEnds, Turn, FunnelTypeOK
<1>7. ASSUME NEW c \in Channels, CloseInput(c) PROVE CountInv'
  <2>1. FunnelTypeOK' /\ Open' = Open
    BY <1>7 DEF CloseInput, FunnelTypeOK, Open
  <2> QED
    BY <1>7, <2>1 DEF CloseInput
<1>8. CASE UNCHANGED <<ctxDone, funnelVars>>
  <2>1. FunnelTypeOK' /\ Open' = Open
    BY <1>8 DEF funnelVars, FunnelTypeOK, Open
  <2> QED
    BY <1>8, <2>1 DEF funnelVars
<1> QED
  BY <1>1, <1>2, <1>3, <1>4, <1>5, <1>6, <1>7, <1>8 DEF FunnelNext

\* The count starts right.
LEMMA CountInit ==
    ASSUME FunnelInit
    PROVE  CountInv
<1>1. Open = {}
  BY DEF FunnelInit, Open
<1>2. Cardinality(Open) = 0
  BY <1>1, FS_EmptySet
<1>3. /\ drain \in [Channels -> {"none", "receiving", "holding", "gone"}]
      /\ inClosed \in [Channels -> BOOLEAN]
  BY DEF FunnelInit
<1>4. held \in [Channels -> Events \cup {NoEvent}]
  BY DEF FunnelInit
<1>5. ctxDone = FALSE /\ ctxNoticed = FALSE /\ inputs = 0 /\ outClosed = FALSE
  BY DEF FunnelInit
<1>6. FunnelTypeOK
  <2>1. ctxDone \in BOOLEAN /\ ctxNoticed \in BOOLEAN /\ outClosed \in BOOLEAN
    BY <1>5
  <2>2. inputs \in Int
    BY <1>5
  <2> QED
    BY <1>3, <1>4, <2>1, <2>2 DEF FunnelTypeOK
<1> QED
  BY <1>2, <1>5, <1>6 DEF CountInv

\* In every reachable state the count of the loop is the number of drains
\* that have not ended.
THEOREM CountIsRight == FunnelSpec => []CountInv
<1>1. FunnelInit => CountInv
  BY CountInit
<1>2. CountInv /\ [FunnelNext]_<<ctxDone, funnelVars>> => CountInv'
  BY CountStep
<1> QED
  BY <1>1, <1>2, PTL DEF FunnelSpec

\* The output channel is closed only when the context is done and every
\* drain has ended: no event is sent on it after, and none is stranded.
THEOREM FunnelClosesLast == FunnelSpec => []ClosesAfterLastInput
<1>1. CountInv => ClosesAfterLastInput
  BY OpenFinite DEF CountInv, ClosesAfterLastInput
<1> QED
  BY <1>1, CountIsRight, PTL

\* The end of the funnel is final: the loop is gone, no drain is open, and
\* an AddInputChannel can only be refused.
THEOREM FunnelClosedIsFinal == FunnelSpec => ClosedIsFinal
<1>1. CountInv /\ [FunnelNext]_<<ctxDone, funnelVars>>
        => [outClosed => UNCHANGED <<outClosed, drain, held, inputs>>]_<<ctxDone, funnelVars>>
  <2> SUFFICES ASSUME CountInv, [FunnelNext]_<<ctxDone, funnelVars>>, outClosed
               PROVE  UNCHANGED <<outClosed, drain, held, inputs>>
    OBVIOUS
  <2>1. Open = {}
    BY OpenFinite DEF CountInv
  <2>2. \A c \in Channels : drain[c] \notin {"receiving", "holding"}
    BY <2>1 DEF Open
  <2> QED
    BY <2>2 DEF FunnelNext, NoticeContext, CancelContext, AddInputChannel,
                Turn, Send, Forward, DrainEnds, CloseInput, funnelVars
<1> QED
  BY <1>1, CountIsRight, PTL DEF FunnelSpec, ClosedIsFinal

----------------------------------------------------------------------------
(* The status reporter: what its variables hold.                           *)

TaskRecords == [pc : {"waiting", "reading", "sending", "failing", "stopping"},
                att : Attempts, obj : Objects, ver : 0 .. MaxChanges + 1, dead : BOOLEAN]

\* An object has a version for every change left to be made of it.
ClusterTypes ==
    /\ objs \in [Objects -> [st : States, ver : 0 .. MaxChanges + 1]]
    /\ left \in [changes : 0 .. MaxChanges, faults : SUBSET {"lookup", "list", "read", "deadline"}]
    /\ \A o \in Objects : objs[o].ver + left.changes <= MaxChanges + 1

\* A reference that is started has been started once at least.
RefTypes ==
    /\ refs \in [Targets -> [started : BOOLEAN, starts : 0 .. MaxStarts, informer : 0 .. MaxStarts]]
    /\ \A t \in Targets : refs[t].started => refs[t].starts >= 1
    /\ phase \in [Attempts -> {"unused", "lookup", "nomatch", "failed", "refused", "reporting",
                               "stopping", "found", "adding", "running", "closing", "ended"}]
    /\ canceled \subseteq Attempts /\ listed \subseteq Attempts

\* A handler that is not idle is about a notification.
HandlerTypes ==
    /\ queue \in [Attempts -> Seq(Notes)]
    /\ handler \in [Attempts -> [pc : {"idle", "read", "hook", "send", "failing", "stopping"},
                                 note : Notes \cup {NoNote}]]
    /\ \A i \in Attempts : handler[i].pc # "idle" => handler[i].note \in Notes
    /\ watchErr \in [Attempts -> {"idle", "sending", "stopping"}]

\* What a handler left out is a version of an object.
UnreadTypes == unread \subseteq Attempts \X Objects \X (0 .. MaxChanges + 1)

TaskTypes ==
    /\ task \in [Tasks -> TaskRecords \cup {IdleTask}]
    /\ scheduled \in [Objects -> 0 .. MaxTasks]

ReaderTypes ==
    /\ got \in [Objects -> 0 .. MaxChanges + 1]
    /\ syncSeen \in BOOLEAN /\ errSeen \in BOOLEAN /\ panicked \in BOOLEAN

\* Start gives its error instead of events only when the context is done.
SyncerTypes ==
    /\ syncer \in {"unstarted", "waiting", "sending", "closing", "done",
                   "refused", "refusedSent", "refusedClosed"}
    /\ syncer \in {"refused", "refusedSent", "refusedClosed"} => ctxDone

\* A drain that holds an event holds one.
HeldTypes == \A c \in Channels : drain[c] = "holding" => held[c] \in Events

ReporterInv ==
    /\ CountInv /\ HeldTypes
    /\ ClusterTypes /\ RefTypes /\ HandlerTypes /\ UnreadTypes /\ TaskTypes /\ ReaderTypes /\ SyncerTypes

----------------------------------------------------------------------------
(* What each kind of step leaves alone.                                    *)

\* The goroutine of an attempt.
LEMMA AttemptKeeps ==
    ASSUME NEW i \in Attempts, Attempt(i)
    PROVE  UNCHANGED <<clusterVars, unread, listed, handler, watchErr, taskVars, syncer, readerVars,
                       panicked>>
BY DEF Attempt, Dropped, Lookup, StopOnNoMatch, SetInformer, JoinFunnel, RefusedByFunnel,
       StartSendsError, RunReturns, CloseChannel, refVars

\* The reflector of its informer.
LEMMA ReflectorKeeps ==
    ASSUME NEW i \in Attempts, Reflector(i) \/ WatchForbidden(i)
    PROVE  UNCHANGED <<clusterVars, unread, phase, handler, taskVars, syncer, readerVars, panicked>>
BY DEF Reflector, List, WatchNotFound, WatchSendsError, WatchForbidden, refVars

\* Its handler.
LEMMA HandlerKeeps ==
    ASSUME NEW i \in Attempts, Handler(i)
    PROVE  UNCHANGED <<clusterVars, listed, watchErr, syncer, readerVars, panicked>>
BY DEF Handler, HandlerTakes, HandlerReads, HandlerIgnores, HandlerStarts, HandlerEnds, HandlerSends,
       HandlerSendsError, refVars

\* Only an ignored error makes it leave something out.
LEMMA HandlerLeavesOut ==
    ASSUME NEW i \in Attempts, Handler(i), ~HandlerIgnores(i)
    PROVE  unread' = unread
BY DEF Handler, HandlerTakes, HandlerReads, HandlerStarts, HandlerEnds, HandlerSends, HandlerSendsError

\* A scheduled status check.
LEMMA TaskKeeps ==
    ASSUME NEW k \in Tasks, Task(k)
    PROVE  UNCHANGED <<clusterVars, unread, refVars, phase, listed, queue, handler, watchErr, syncer,
                       readerVars>>
BY DEF Task, TaskStops, TaskFires, TaskReads, TaskSends, TaskPanics, TaskSendsError

\* The end of Start.
LEMMA SyncerKeeps ==
    ASSUME Syncer
    PROVE  UNCHANGED <<clusterVars, unread, refVars, phase, listed, queue, handler, watchErr, taskVars,
                       panicked, got, syncSeen>>
BY DEF Syncer, SyncerJoins, SyncerRefused, RefusalRead, RefusalClosed, SyncerSees, SyncerSends,
       SyncerGivesUp, SyncerCloses, SyncerStep, readerVars

\* Stop, the funnel and the reader.
LEMMA OthersKeep ==
    /\ StopReporter => UNCHANGED <<clusterVars, unread, refVars, listed, queue, syncer, readerVars,
                                   panicked>>
    /\ FunnelNotices \/ CallerCancels => UNCHANGED allButFunnel
    /\ \A c \in Channels :
          /\ FunnelDrainEnds(c) => UNCHANGED allButFunnel
          /\ Delivered(c) => UNCHANGED <<clusterVars, unread, refVars, phase, listed, queue, handler,
                                         watchErr,
                                        taskVars, syncer, panicked>>
    /\ \A o \in Objects :
          Change(o) => UNCHANGED <<refVars, phase, listed, handler, unread, watchErr, taskVars,
                                   syncer, readerVars, panicked>>
BY DEF StopReporter, FunnelNotices, CallerCancels, FunnelDrainEnds, Delivered, Change

----------------------------------------------------------------------------
(* Every step is one of the funnel, with these producers and this caller.  *)

\* What goroutines send are events of the funnel.
LEMMA SentAreEvents ==
    ASSUME ReporterInv
    PROVE  /\ SyncEvent \in Events /\ ErrorEvent \in Events
           /\ Attempts \subseteq Channels /\ SyncChannel \in Channels
           /\ \A i \in Attempts :
                 handler[i].pc = "send" => Update(handler[i].note.obj, handler[i].note.ver) \in Events
           /\ \A k \in Tasks :
                 task[k].pc \in {"sending", "failing"} =>
                    task[k].att \in Attempts /\ Update(task[k].obj, task[k].ver) \in Events
<1>1. Attempts \subseteq Channels /\ SyncChannel \in Channels /\ Events = AllEvents
  BY ReporterAssumption
<1>2. \A o \in Objects, v \in 0 .. MaxChanges + 1 : Update(o, v) \in AllEvents
  BY DEF AllEvents
<1>3. SyncEvent \in AllEvents /\ ErrorEvent \in AllEvents
  BY DEF AllEvents
<1>4. ASSUME NEW i \in Attempts, handler[i].pc = "send"
      PROVE  Update(handler[i].note.obj, handler[i].note.ver) \in AllEvents
  <2>1. handler[i].note \in Notes
    BY <1>4 DEF ReporterInv, HandlerTypes
  <2> QED
    BY <2>1, <1>2 DEF Notes
<1>5. ASSUME NEW k \in Tasks, task[k].pc \in {"sending", "failing"}
      PROVE  task[k].att \in Attempts /\ Update(task[k].obj, task[k].ver) \in AllEvents
  <2>1. task[k] \in TaskRecords
    BY <1>5 DEF ReporterInv, TaskTypes, IdleTask
  <2> QED
    BY <2>1, <1>2 DEF TaskRecords
<1> QED
  BY <1>1, <1>3, <1>4, <1>5

\* Every step of the reporter is one of the funnel or leaves the funnel alone.
LEMMA StepOfFunnel ==
    ASSUME ReporterInv, Next
    PROVE  [FunnelNext]_<<ctxDone, funnelVars>>
<1> USE SentAreEvents
<1>1. ASSUME NEW i \in Attempts, Attempt(i)
      PROVE  [FunnelNext]_<<ctxDone, funnelVars>>
  BY <1>1 DEF Attempt, Dropped, Lookup, StopOnNoMatch, SetInformer, JoinFunnel, RefusedByFunnel,
              StartSendsError, RunReturns, CloseChannel, FunnelNext
<1>2. ASSUME NEW i \in Attempts, Reflector(i) \/ WatchForbidden(i)
      PROVE  [FunnelNext]_<<ctxDone, funnelVars>>
  BY <1>2 DEF Reflector, List, WatchNotFound, WatchSendsError, WatchForbidden, FunnelNext
<1>3. ASSUME NEW i \in Attempts, Handler(i)
      PROVE  [FunnelNext]_<<ctxDone, funnelVars>>
  BY <1>3 DEF Handler, HandlerTakes, HandlerReads, HandlerIgnores, HandlerStarts, HandlerEnds,
              HandlerSends,
              HandlerSendsError, FunnelNext
<1>4. ASSUME NEW k \in Tasks, Task(k)
      PROVE  [FunnelNext]_<<ctxDone, funnelVars>>
  BY <1>4 DEF Task, TaskStops, TaskFires, TaskReads, TaskSends, TaskPanics, TaskSendsError, FunnelNext
<1>5. CASE Syncer
  BY <1>5 DEF Syncer, SyncerJoins, SyncerRefused, RefusalRead, RefusalClosed, SyncerSees,
              SyncerSends, SyncerGivesUp, SyncerCloses, FunnelNext
<1>6. CASE StopReporter
  <2>1. ctxDone' = TRUE /\ UNCHANGED funnelVars /\ ctxDone \in BOOLEAN
    BY <1>6 DEF StopReporter, ReporterInv, CountInv, FunnelTypeOK
  <2> QED
    BY <2>1 DEF FunnelNext, CancelContext
<1>7. CASE CallerCancels
  BY <1>7 DEF CallerCancels, CancelContext, FunnelNext
<1>8. CASE FunnelNotices
  BY <1>8 DEF FunnelNotices, FunnelNext
<1>9. ASSUME NEW c \in Channels, Delivered(c) \/ FunnelDrainEnds(c)
      PROVE  [FunnelNext]_<<ctxDone, funnelVars>>
  BY <1>9 DEF Delivered, FunnelDrainEnds, FunnelNext
<1>10. ASSUME NEW o \in Objects, Change(o)
       PROVE  [FunnelNext]_<<ctxDone, funnelVars>>
  BY <1>10 DEF Change
<1> QED
  BY <1>1, <1>2, <1>3, <1>4, <1>5, <1>6, <1>7, <1>8, <1>9, <1>10 DEF Next

\* A drain is given an event, and gives it up when it passes it on.
LEMMA HeldStep ==
    ASSUME CountInv, HeldTypes, [FunnelNext]_<<ctxDone, funnelVars>>
    PROVE  HeldTypes'
BY DEF CountInv, FunnelTypeOK, HeldTypes, FunnelNext, NoticeContext, CancelContext, AddInputChannel,
       Send, Forward, DrainEnds, CloseInput, funnelVars

----------------------------------------------------------------------------
(* The types of the reporter, one group of variables after the other.      *)

\* Only a change of the cluster touches it, and it uses up one of those left.
LEMMA ClusterStep ==
    ASSUME ReporterInv, NEW o \in Objects, Change(o)
    PROVE  ClusterTypes'
<1>1. PICK s \in States : objs' = [objs EXCEPT ![o] = [st |-> s, ver |-> @.ver + 1]]
  BY DEF Change
<1>2. left' = [left EXCEPT !.changes = @ - 1] /\ left.changes > 0
  BY DEF Change
<1>3. MaxChanges \in Nat
  BY ReporterAssumption
<1>4. left.changes \in 0 .. MaxChanges /\ left.faults \in SUBSET {"lookup", "list", "read", "deadline"}
  BY DEF ReporterInv, ClusterTypes
<1>5. left'.changes = left.changes - 1 /\ left'.faults = left.faults
      /\ left' \in [changes : 0 .. MaxChanges, faults : SUBSET {"lookup", "list", "read", "deadline"}]
  BY <1>2, <1>3, <1>4 DEF ReporterInv, ClusterTypes
<1>6. objs[o].ver \in 0 .. MaxChanges + 1 /\ objs[o].ver + left.changes <= MaxChanges + 1
  BY DEF ReporterInv, ClusterTypes
<1>7. objs[o].ver + 1 \in 0 .. MaxChanges + 1
  BY <1>2, <1>3, <1>4, <1>6
<1>8. objs' \in [Objects -> [st : States, ver : 0 .. MaxChanges + 1]]
  BY <1>1, <1>7 DEF ReporterInv, ClusterTypes
<1>9. ASSUME NEW x \in Objects PROVE objs'[x].ver + left'.changes <= MaxChanges + 1
  <2>1. objs[x].ver \in 0 .. MaxChanges + 1 /\ objs[x].ver + left.changes <= MaxChanges + 1
    BY DEF ReporterInv, ClusterTypes
  <2>2. CASE x = o
    <3>1. objs'[x].ver = objs[x].ver + 1
      BY <1>1, <2>2 DEF ReporterInv, ClusterTypes
    <3> QED
      BY <3>1, <2>1, <1>3, <1>4, <1>5
  <2>3. CASE x # o
    <3>1. objs'[x] = objs[x]
      BY <1>1, <2>3 DEF ReporterInv, ClusterTypes
    <3> QED
      BY <3>1, <2>1, <1>3, <1>4, <1>5
  <2> QED
    BY <2>2, <2>3
<1> QED
  BY <1>5, <1>8, <1>9 DEF ClusterTypes

\* Starting references that are not started.
LEMMA StartAllTypes ==
    ASSUME ReporterInv, NEW S, StartAll(S), listed' = listed
    PROVE  RefTypes'
<1> DEFINE fresh == {t \in S : ~refs[t].started /\ refs[t].starts < MaxStarts}
<1>1. MaxStarts \in Nat
  BY ReporterAssumption
<1>2. refs' = [t \in Targets |-> IF t \in fresh
                                 THEN [refs[t] EXCEPT !.started = TRUE, !.starts = @ + 1]
                                 ELSE refs[t]]
  BY DEF StartAll
<1>3. ASSUME NEW t \in Targets
      PROVE  /\ refs'[t] \in [started : BOOLEAN, starts : 0 .. MaxStarts, informer : 0 .. MaxStarts]
             /\ refs'[t].started => refs'[t].starts >= 1
  <2>1. /\ refs[t] \in [started : BOOLEAN, starts : 0 .. MaxStarts, informer : 0 .. MaxStarts]
        /\ refs[t].started => refs[t].starts >= 1
    BY DEF ReporterInv, RefTypes
  <2>2. CASE t \in fresh
    <3>1. refs'[t] = [refs[t] EXCEPT !.started = TRUE, !.starts = @ + 1]
      BY <1>2, <2>2
    <3>2. refs[t].starts + 1 \in 0 .. MaxStarts /\ refs[t].starts + 1 >= 1
      BY <1>1, <2>1, <2>2
    <3> QED
      BY <2>1, <3>1, <3>2
  <2>3. CASE t \notin fresh
    BY <1>2, <2>1, <2>3
  <2> QED
    BY <2>2, <2>3
<1>4. phase' \in [Attempts -> {"unused", "lookup", "nomatch", "failed", "refused", "reporting",
                              "stopping", "found", "adding", "running", "closing", "ended"}]
  BY DEF StartAll, ReporterInv, RefTypes
<1> QED
  BY <1>2, <1>3, <1>4 DEF StartAll, ReporterInv, RefTypes

\* Stopping references cancels attempts that were made.
LEMMA StoppedTypes ==
    ASSUME ReporterInv, NEW S, S \subseteq Targets, Stopped(S)
    PROVE  /\ refs' \in [Targets -> [started : BOOLEAN, starts : 0 .. MaxStarts,
                                    informer : 0 .. MaxStarts]]
           /\ \A t \in Targets : refs'[t].started => refs'[t].starts >= 1
           /\ canceled' \subseteq Attempts
<1> DEFINE running == {t \in S : refs[t].started}
<1>1. refs' = [t \in Targets |->
                 IF t \in running THEN [refs[t] EXCEPT !.started = FALSE] ELSE refs[t]]
  BY DEF Stopped
<1>2. ASSUME NEW t \in Targets
      PROVE  /\ refs'[t] \in [started : BOOLEAN, starts : 0 .. MaxStarts, informer : 0 .. MaxStarts]
             /\ refs'[t].started => refs'[t].starts >= 1
  <2>1. /\ refs[t] \in [started : BOOLEAN, starts : 0 .. MaxStarts, informer : 0 .. MaxStarts]
        /\ refs[t].started => refs[t].starts >= 1
    BY DEF ReporterInv, RefTypes
  <2>2. refs'[t] = IF t \in running THEN [refs[t] EXCEPT !.started = FALSE] ELSE refs[t]
    BY <1>1
  <2> QED
    BY <2>1, <2>2
<1>3. MaxStarts \in Nat
  BY ReporterAssumption
<1>4. ASSUME NEW t \in running PROVE <<t, refs[t].starts>> \in Attempts
  <2>1. t \in Targets /\ refs[t].started
    OBVIOUS
  <2>2. refs[t].starts \in 0 .. MaxStarts /\ refs[t].starts >= 1
    BY <2>1 DEF ReporterInv, RefTypes
  <2>3. refs[t].starts \in 1 .. MaxStarts
    BY <2>2, <1>3
  <2> QED
    BY <2>1, <2>3 DEF Attempts
<1>5. canceled' = canceled \cup {<<t, refs[t].starts>> : t \in running}
  BY DEF Stopped
<1> QED
  BY <1>1, <1>2, <1>4, <1>5 DEF ReporterInv, RefTypes

\* Sets of references that are stopped together.
LEMMA TargetSets ==
    /\ \A kind : OfKind(kind) \subseteq Targets
    /\ \A o : Affected(o) \subseteq Targets
    /\ \A i \in Attempts : i[1] \in Targets /\ i[2] \in 1 .. MaxStarts /\ {i[1]} \subseteq Targets
BY DEF OfKind, Affected, Attempts

\* A step leaves the informer references what they are.
LEMMA RefStep ==
    ASSUME ReporterInv, Next
    PROVE  RefTypes'
<1> USE TargetSets
<1>1. ASSUME NEW i \in Attempts, Attempt(i)
      PROVE  RefTypes'
  <2>1. CASE StopOnNoMatch(i)
    BY <2>1, StoppedTypes DEF StopOnNoMatch, ReporterInv, RefTypes
  <2>2. CASE SetInformer(i)
    <3>1. MaxStarts \in Nat /\ i[2] \in 0 .. MaxStarts
      BY ReporterAssumption
    <3>2. refs' = [refs EXCEPT ![i[1]] = [refs[i[1]] EXCEPT !.informer = i[2]]]
      BY <2>2 DEF SetInformer
    <3> QED
      BY <2>2, <3>1, <3>2 DEF SetInformer, ReporterInv, RefTypes
  <2>3. CASE Dropped(i) \/ Lookup(i) \/ JoinFunnel(i) \/ RefusedByFunnel(i) \/ StartSendsError(i)
             \/ RunReturns(i) \/ CloseChannel(i)
    <3>1. UNCHANGED <<refs, canceled, listed>>
      BY <2>3 DEF Dropped, Lookup, JoinFunnel, RefusedByFunnel, StartSendsError, RunReturns,
                  CloseChannel, refVars
    <3>2. phase' \in [Attempts -> {"unused", "lookup", "nomatch", "failed", "refused", "reporting",
                                  "stopping", "found", "adding", "running", "closing", "ended"}]
      BY <2>3 DEF Dropped, Lookup, JoinFunnel, RefusedByFunnel, StartSendsError, RunReturns,
                  CloseChannel, ReporterInv, RefTypes
    <3> QED
      BY <3>1, <3>2 DEF ReporterInv, RefTypes
  <2> QED
    BY <1>1, <2>1, <2>2, <2>3 DEF Attempt
<1>2. ASSUME NEW i \in Attempts, Reflector(i) \/ WatchForbidden(i)
      PROVE  RefTypes'
  <2>1. CASE List(i)
    BY <2>1 DEF List, refVars, ReporterInv, RefTypes
  <2>2. CASE WatchNotFound(i)
    BY <2>2, StoppedTypes DEF WatchNotFound, ReporterInv, RefTypes
  <2>3. CASE WatchSendsError(i) \/ WatchForbidden(i)
    BY <2>3 DEF WatchSendsError, WatchForbidden, refVars, ReporterInv, RefTypes
  <2> QED
    BY <1>2, <2>1, <2>2, <2>3 DEF Reflector
<1>3. ASSUME NEW i \in Attempts, Handler(i)
      PROVE  RefTypes'
  <2>1. CASE HandlerStarts(i)
    BY <2>1, StartAllTypes DEF HandlerStarts
  <2>2. CASE HandlerEnds(i)
    BY <2>2, StoppedTypes DEF HandlerEnds, ReporterInv, RefTypes
  <2>3. CASE \/ HandlerTakes(i) \/ HandlerReads(i) \/ HandlerIgnores(i)
             \/ HandlerSends(i) \/ HandlerSendsError(i)
    BY <2>3 DEF HandlerTakes, HandlerReads, HandlerIgnores, HandlerSends, HandlerSendsError, refVars,
                ReporterInv, RefTypes
  <2> QED
    BY <1>3, <2>1, <2>2, <2>3 DEF Handler
<1>4. ASSUME NEW k \in Tasks, Task(k)
      PROVE  RefTypes'
  BY <1>4, TaskKeeps DEF refVars, ReporterInv, RefTypes
<1>5. CASE Syncer
  BY <1>5, SyncerKeeps DEF refVars, ReporterInv, RefTypes
<1>6. CASE StopReporter
  BY <1>6 DEF StopReporter, refVars, ReporterInv, RefTypes
<1>7. CASE CallerCancels \/ FunnelNotices
  BY <1>7, OthersKeep DEF allButFunnel, refVars, ReporterInv, RefTypes
<1>8. ASSUME NEW c \in Channels, Delivered(c) \/ FunnelDrainEnds(c)
      PROVE  RefTypes'
  BY <1>8, OthersKeep DEF allButFunnel, refVars, ReporterInv, RefTypes
<1>9. ASSUME NEW o \in Objects, Change(o)
      PROVE  RefTypes'
  BY <1>9, OthersKeep DEF refVars, ReporterInv, RefTypes
<1> QED
  BY <1>1, <1>2, <1>3, <1>4, <1>5, <1>6, <1>7, <1>8, <1>9 DEF Next

\* The list of a finite set has its members.
LEMMA SetToSeqType ==
    ASSUME NEW S, IsFiniteSet(S)
    PROVE  SetToSeq(S) \in Seq(S)
<1>1. Cardinality(S) \in Nat /\ ExistsBijection(1 .. Cardinality(S), S)
  BY FS_CardinalityType
<1>2. PICK f : f \in Bijection(1 .. Cardinality(S), S)
  BY <1>1 DEF ExistsBijection
<1>3. f \in [1 .. Cardinality(S) -> S] /\ IsInjective(f)
  BY <1>2 DEF Bijection, Injection
<1>4. SetToSeq(S) \in [1 .. Cardinality(S) -> S]
  BY <1>3 DEF SetToSeq
<1> QED
  BY <1>1, <1>4

\* What an informer lists are notifications.
LEMMA ListTypes ==
    ASSUME ReporterInv, NEW i \in Attempts
    PROVE  SetToSeq({[kind |-> "add", obj |-> o, st |-> objs[o].st, ver |-> objs[o].ver]
                        : o \in {x \in Seen(i) : Present(x)}}) \in Seq(Notes)
<1> DEFINE T == {x \in Seen(i) : Present(x)}
           note == [o \in T |-> [kind |-> "add", obj |-> o, st |-> objs[o].st, ver |-> objs[o].ver]]
           S == {note[o] : o \in T}
<1>1. T \subseteq Objects
  BY DEF Seen
<1>2. IsFiniteSet(T)
  BY <1>1, ReporterAssumption, FS_Subset
<1>3. note \in Surjection(T, S)
  BY DEF Surjection
<1>4. IsFiniteSet(S)
  <2> HIDE DEF T, note, S
  <2> QED
    BY <1>2, <1>3, FS_Surjection
<1>5. S \subseteq Notes
  <2> SUFFICES ASSUME NEW o \in T PROVE note[o] \in Notes
    OBVIOUS
  <2>1. objs[o] \in [st : States, ver : 0 .. MaxChanges + 1]
    BY <1>1 DEF ReporterInv, ClusterTypes
  <2> QED
    BY <1>1, <2>1 DEF Notes
<1>6. SetToSeq(S) \in Seq(S)
  <2> HIDE DEF S
  <2> QED
    BY <1>4, SetToSeqType
<1>7. Seq(S) \subseteq Seq(Notes)
  <2> HIDE DEF S
  <2> QED
    BY <1>5
<1>8. S = {[kind |-> "add", obj |-> o, st |-> objs[o].st, ver |-> objs[o].ver] : o \in T}
  OBVIOUS
<1> QED
  BY <1>6, <1>7, <1>8

\* A notification a handler takes, or is about.
LEMMA HandlerNotes ==
    ASSUME ReporterInv, NEW i \in Attempts
    PROVE  /\ queue[i] # << >> => Head(queue[i]) \in Notes /\ Tail(queue[i]) \in Seq(Notes)
           /\ handler[i].pc # "idle" => handler[i].note \in Notes /\ handler[i].note.obj \in Objects
<1>1. queue[i] \in Seq(Notes)
  BY DEF ReporterInv, HandlerTypes
<1>2. queue[i] # << >> => Head(queue[i]) \in Notes /\ Tail(queue[i]) \in Seq(Notes)
  BY <1>1
<1>3. handler[i].pc # "idle" => handler[i].note \in Notes
  BY DEF ReporterInv, HandlerTypes
<1> QED
  BY <1>2, <1>3 DEF Notes

HandlerPlaces == {"idle", "read", "hook", "send", "failing", "stopping"}

\* A handler that goes on with its notification, and one that is done.
LEMMA HandlerMoves ==
    ASSUME ReporterInv, NEW i \in Attempts, UNCHANGED <<queue, watchErr>>,
           \/ handler' = [handler EXCEPT ![i] = Idle]
           \/ /\ handler[i].pc # "idle"
              /\ \E p \in HandlerPlaces : handler' = [handler EXCEPT ![i] = [handler[i] EXCEPT !.pc = p]]
    PROVE  HandlerTypes'
<1>1. CASE handler' = [handler EXCEPT ![i] = Idle]
  BY <1>1 DEF Idle, ReporterInv, HandlerTypes
<1>2. CASE /\ handler[i].pc # "idle"
           /\ \E p \in HandlerPlaces : handler' = [handler EXCEPT ![i] = [handler[i] EXCEPT !.pc = p]]
  <2>1. PICK p \in HandlerPlaces : handler' = [handler EXCEPT ![i] = [handler[i] EXCEPT !.pc = p]]
    BY <1>2
  <2>2. /\ handler[i] \in [pc : HandlerPlaces, note : Notes \cup {NoNote}]
        /\ handler[i].note \in Notes
    BY <1>2 DEF ReporterInv, HandlerTypes, HandlerPlaces
  <2>3. /\ handler'[i] \in [pc : HandlerPlaces, note : Notes \cup {NoNote}]
        /\ handler'[i].note \in Notes
        /\ \A j \in Attempts \ {i} : handler'[j] = handler[j]
        /\ handler' = [j \in Attempts |-> handler'[j]]
    BY <2>1, <2>2 DEF ReporterInv, HandlerTypes
  <2> QED
    BY <2>3 DEF ReporterInv, HandlerTypes, HandlerPlaces
<1> QED
  BY <1>1, <1>2

\* A step leaves queues and handlers what they are.
LEMMA HandlerStep ==
    ASSUME ReporterInv, Next
    PROVE  HandlerTypes'
<1>1. ASSUME NEW i \in Attempts, Attempt(i)
      PROVE  HandlerTypes'
  <2>1. queue' = queue \/ queue' = [queue EXCEPT ![i] = << >>]
    BY <1>1 DEF Attempt, Dropped, Lookup, StopOnNoMatch, SetInformer, JoinFunnel, RefusedByFunnel,
                StartSendsError, RunReturns, CloseChannel
  <2>2. UNCHANGED <<handler, watchErr>>
    BY <1>1, AttemptKeeps
  <2>3. << >> \in Seq(Notes)
    OBVIOUS
  <2> QED
    BY <2>1, <2>2, <2>3 DEF ReporterInv, HandlerTypes
<1>2. ASSUME NEW i \in Attempts, Reflector(i) \/ WatchForbidden(i)
      PROVE  HandlerTypes'
  <2>1. CASE List(i)
    <3>1. UNCHANGED <<handler, watchErr>>
      BY <2>1 DEF List
    <3>2. queue' \in [Attempts -> Seq(Notes)]
      BY <2>1, ListTypes DEF List, ReporterInv, HandlerTypes
    <3> QED
      BY <3>1, <3>2 DEF ReporterInv, HandlerTypes
  <2>2. CASE WatchNotFound(i)
    BY <2>2 DEF WatchNotFound, ReporterInv, HandlerTypes
  <2>3. CASE WatchSendsError(i) \/ WatchForbidden(i)
    BY <2>3 DEF WatchSendsError, WatchForbidden, ReporterInv, HandlerTypes
  <2> QED
    BY <1>2, <2>1, <2>2, <2>3 DEF Reflector
<1>3. ASSUME NEW i \in Attempts, Handler(i)
      PROVE  HandlerTypes'
  <2>1. CASE HandlerTakes(i)
    <3> DEFINE note == Head(queue[i])
    <3>1. note \in Notes /\ Tail(queue[i]) \in Seq(Notes)
      BY <2>1, HandlerNotes DEF HandlerTakes
    <3>2. queue' \in [Attempts -> Seq(Notes)] /\ watchErr' = watchErr
      BY <2>1, <3>1 DEF HandlerTakes, ReporterInv, HandlerTypes
    <3>3. CASE handler' = handler
      BY <3>2, <3>3 DEF ReporterInv, HandlerTypes
    <3>4. CASE handler' = [handler EXCEPT ![i] =
                             [pc |-> IF note.kind = "delete" THEN "hook" ELSE "read", note |-> note]]
      <4> HIDE DEF note
      <4> QED
        BY <3>1, <3>2, <3>4 DEF ReporterInv, HandlerTypes
    <3> QED
      BY <2>1, <3>3, <3>4 DEF HandlerTakes
  <2>2. CASE \/ HandlerReads(i) \/ HandlerIgnores(i) \/ HandlerStarts(i) \/ HandlerEnds(i)
             \/ HandlerSends(i) \/ HandlerSendsError(i)
    <3>1. UNCHANGED <<queue, watchErr>>
      BY <2>2 DEF HandlerReads, HandlerIgnores, HandlerStarts, HandlerEnds, HandlerSends,
                  HandlerSendsError
    <3>2. \/ handler' = [handler EXCEPT ![i] = Idle]
          \/ /\ handler[i].pc # "idle"
             /\ \E p \in HandlerPlaces : handler' = [handler EXCEPT ![i] = [handler[i] EXCEPT !.pc = p]]
      BY <2>2 DEF HandlerReads, HandlerIgnores, HandlerStarts, HandlerEnds, HandlerSends,
                  HandlerSendsError, HandlerPlaces
    <3> QED
      BY <3>1, <3>2, HandlerMoves
  <2> QED
    BY <1>3, <2>1, <2>2 DEF Handler
<1>4. ASSUME NEW k \in Tasks, Task(k)
      PROVE  HandlerTypes'
  BY <1>4, TaskKeeps DEF ReporterInv, HandlerTypes
<1>5. CASE Syncer
  BY <1>5, SyncerKeeps DEF ReporterInv, HandlerTypes
<1>6. CASE StopReporter
  <2>1. queue' = queue
    BY <1>6 DEF StopReporter
  <2>2. \/ UNCHANGED <<handler, watchErr>>
        \/ \E i \in Attempts : handler' = [handler EXCEPT ![i] = Idle] /\ watchErr' = watchErr
        \/ \E i \in Attempts : watchErr' = [watchErr EXCEPT ![i] = "idle"] /\ handler' = handler
    BY <1>6 DEF StopReporter
  <2>3. CASE UNCHANGED <<handler, watchErr>>
    BY <2>1, <2>3 DEF ReporterInv, HandlerTypes
  <2>4. CASE \E i \in Attempts : handler' = [handler EXCEPT ![i] = Idle] /\ watchErr' = watchErr
    BY <2>1, <2>4, HandlerMoves
  <2>5. CASE \E i \in Attempts : watchErr' = [watchErr EXCEPT ![i] = "idle"] /\ handler' = handler
    BY <2>1, <2>5 DEF ReporterInv, HandlerTypes
  <2> QED
    BY <2>2, <2>3, <2>4, <2>5
<1>7. CASE CallerCancels \/ FunnelNotices
  BY <1>7, OthersKeep DEF allButFunnel, ReporterInv, HandlerTypes
<1>8. ASSUME NEW c \in Channels, Delivered(c) \/ FunnelDrainEnds(c)
      PROVE  HandlerTypes'
  BY <1>8, OthersKeep DEF allButFunnel, ReporterInv, HandlerTypes
<1>9. ASSUME NEW o \in Objects, Change(o)
      PROVE  HandlerTypes'
  <2>1. PICK s \in States :
           LET kind == IF s = "absent" THEN "delete" ELSE IF Present(o) THEN "update" ELSE "add"
               note == [kind |-> kind, obj |-> o, st |-> s, ver |-> objs[o].ver + 1]
           IN  queue' = [i \in Attempts |->
                            IF Sees(i[1], o) /\ phase[i] = "running" /\ i \in listed /\ ~CtxDone(i)
                            THEN Append(queue[i], note) ELSE queue[i]]
    BY <1>9 DEF Change
  <2> DEFINE kind == IF s = "absent" THEN "delete" ELSE IF Present(o) THEN "update" ELSE "add"
             note == [kind |-> kind, obj |-> o, st |-> s, ver |-> objs[o].ver + 1]
  <2>2. objs[o].ver + 1 \in 0 .. MaxChanges + 1
    <3>1. left.changes > 0
      BY <1>9 DEF Change
    <3>2. left.changes \in 0 .. MaxChanges /\ MaxChanges \in Nat
      BY ReporterAssumption DEF ReporterInv, ClusterTypes
    <3>3. objs[o].ver \in 0 .. MaxChanges + 1 /\ objs[o].ver + left.changes <= MaxChanges + 1
      BY DEF ReporterInv, ClusterTypes
    <3> QED
      BY <3>1, <3>2, <3>3
  <2>3. note \in Notes
    BY <2>2 DEF Notes
  <2>4. \A i \in Attempts : queue'[i] = Append(queue[i], note) \/ queue'[i] = queue[i]
    BY <2>1
  <2>5. queue' = [i \in Attempts |-> queue'[i]]
    BY <2>1
  <2>6. \A i \in Attempts : queue'[i] \in Seq(Notes)
    <3> HIDE DEF note
    <3>1. \A i \in Attempts : queue[i] \in Seq(Notes)
      BY DEF ReporterInv, HandlerTypes
    <3>2. \A i \in Attempts : Append(queue[i], note) \in Seq(Notes)
      BY <2>3, <3>1
    <3> QED
      BY <2>4, <3>1, <3>2
  <2> QED
    BY <1>9, <2>5, <2>6, OthersKeep DEF ReporterInv, HandlerTypes
<1> QED
  BY <1>1, <1>2, <1>3, <1>4, <1>5, <1>6, <1>7, <1>8, <1>9 DEF Next

\* Only a handler leaves something out, and it remembers all it left out before.
LEMMA UnreadStep ==
    ASSUME ReporterInv, Next
    PROVE  UnreadTypes' /\ unread \subseteq unread'
<1>1. ASSUME NEW i \in Attempts, HandlerIgnores(i)
      PROVE  UnreadTypes' /\ unread \subseteq unread'
  <2> DEFINE note == handler[i].note
  <2>1. note \in Notes
    BY <1>1, HandlerNotes DEF HandlerIgnores
  <2>2. note.obj \in Objects /\ note.ver \in 0 .. MaxChanges + 1
    BY <2>1 DEF Notes
  <2>3. unread' = unread \/ unread' = unread \cup {<<i, note.obj, note.ver>>}
    BY <1>1 DEF HandlerIgnores
  <2> HIDE DEF note
  <2>4. <<i, note.obj, note.ver>> \in Attempts \X Objects \X (0 .. MaxChanges + 1)
    BY <2>2
  <2> QED
    BY <2>3, <2>4 DEF ReporterInv, UnreadTypes
<1>2. CASE \A i \in Attempts : ~HandlerIgnores(i)
  <2>1. unread' = unread
    BY <1>2, AttemptKeeps, ReflectorKeeps, HandlerLeavesOut, TaskKeeps, SyncerKeeps, OthersKeep
       DEF Next, allButFunnel
  <2> QED
    BY <2>1 DEF ReporterInv, UnreadTypes
<1> QED
  BY <1>1, <1>2

\* A cancelled check keeps its record, and a check that is over has none.
LEMMA TaskMarks ==
    ASSUME TaskTypes, NEW k \in Tasks
    PROVE  /\ [task[k] EXCEPT !.dead = TRUE] \in TaskRecords \cup {IdleTask}
           /\ task[k].pc # "none" => task[k] \in TaskRecords
<1>1. task[k] \in TaskRecords \cup {IdleTask}
  BY DEF TaskTypes
<1>2. CASE task[k] \in TaskRecords
  BY <1>2 DEF TaskRecords
<1>3. CASE task[k] = IdleTask
  <2>1. [IdleTask EXCEPT !.dead = TRUE] = IdleTask
    BY DEF IdleTask
  <2>2. IdleTask.pc = "none"
    BY DEF IdleTask
  <2> QED
    BY <1>3, <2>1, <2>2
<1> QED
  BY <1>1, <1>2, <1>3

\* So does the end of a status check.
LEMMA TaskOverTypes ==
    ASSUME TaskTypes, NEW k \in Tasks, TaskOver(k)
    PROVE  TaskTypes'
<1>1. MaxTasks \in Nat
  BY ReporterAssumption
<1> QED
  BY <1>1 DEF TaskTypes, TaskOver

\* The check of an object is replaced by one that waits.
LEMMA ScheduledTypes ==
    ASSUME TaskTypes, NEW i \in Attempts, NEW o \in Objects, Scheduled(i, o)
    PROVE  TaskTypes'
<1>1. PICK k \in Tasks :
         /\ task' = [j \in Tasks |->
               IF j = k THEN [pc |-> "waiting", att |-> i, obj |-> o, ver |-> 0, dead |-> FALSE]
               ELSE IF scheduled[o] = j THEN [task[j] EXCEPT !.dead = TRUE] ELSE task[j]]
         /\ scheduled' = [scheduled EXCEPT ![o] = k]
  BY DEF Scheduled
<1>2. MaxTasks \in Nat /\ MaxChanges \in Nat
  BY ReporterAssumption
<1>3. [pc |-> "waiting", att |-> i, obj |-> o, ver |-> 0, dead |-> FALSE] \in TaskRecords
  BY <1>2 DEF TaskRecords
<1>4. \A j \in Tasks : task[j] \in TaskRecords \cup {IdleTask}
  BY DEF TaskTypes
<1>5. \A j \in Tasks : task'[j] \in TaskRecords \cup {IdleTask}
  BY <1>1, <1>3, <1>4, TaskMarks
<1>6. task' \in [Tasks -> TaskRecords \cup {IdleTask}]
  BY <1>1, <1>5
<1>7. k \in 0 .. MaxTasks
  BY <1>2 DEF Tasks
<1> QED
  BY <1>1, <1>6, <1>7 DEF TaskTypes

\* So does the cancellation of one.
LEMMA CancelledTypes ==
    ASSUME TaskTypes, NEW o \in Objects, Cancelled(o)
    PROVE  TaskTypes'
<1>1. MaxTasks \in Nat
  BY ReporterAssumption
<1>2. \A k \in Tasks : task'[k] \in TaskRecords \cup {IdleTask}
  BY TaskMarks DEF Cancelled, TaskTypes
<1> QED
  BY <1>1, <1>2 DEF TaskTypes, Cancelled

\* A step leaves the status checks what they are.
LEMMA TaskStep ==
    ASSUME ReporterInv, Next
    PROVE  TaskTypes'
<1> USE DEF ReporterInv
<1>1. ASSUME NEW i \in Attempts, Attempt(i) \/ Reflector(i) \/ WatchForbidden(i)
      PROVE  TaskTypes'
  BY <1>1, AttemptKeeps, ReflectorKeeps DEF taskVars, TaskTypes
<1>2. ASSUME NEW i \in Attempts, Handler(i)
      PROVE  TaskTypes'
  <2>1. CASE HandlerTakes(i)
    <3>1. queue[i] # << >> => Head(queue[i]).obj \in Objects
      BY HandlerNotes DEF Notes
    <3>2. UNCHANGED taskVars \/ Cancelled(Head(queue[i]).obj)
      BY <2>1 DEF HandlerTakes
    <3>3. queue[i] # << >>
      BY <2>1 DEF HandlerTakes
    <3> QED
      BY <3>1, <3>2, <3>3, CancelledTypes DEF taskVars, TaskTypes
  <2>2. CASE HandlerStarts(i)
    <3>1. handler[i].note.obj \in Objects
      BY <2>2, HandlerNotes DEF HandlerStarts
    <3>2. UNCHANGED taskVars \/ Scheduled(i, handler[i].note.obj)
      BY <2>2 DEF HandlerStarts
    <3> QED
      BY <3>1, <3>2, ScheduledTypes DEF taskVars, TaskTypes
  <2>3. CASE \/ HandlerReads(i) \/ HandlerIgnores(i) \/ HandlerEnds(i)
             \/ HandlerSends(i) \/ HandlerSendsError(i)
    BY <2>3 DEF HandlerReads, HandlerIgnores, HandlerEnds, HandlerSends, HandlerSendsError, taskVars,
                TaskTypes
  <2> QED
    BY <1>2, <2>1, <2>2, <2>3 DEF Handler
<1>3. ASSUME NEW k \in Tasks, Task(k)
      PROVE  TaskTypes'
  <2>1. task[k].pc # "none" => task[k] \in TaskRecords
    BY TaskMarks
  <2>2. CASE TaskOver(k)
    BY <2>2, TaskOverTypes
  <2>3. CASE /\ scheduled' = scheduled
             /\ task[k] \in TaskRecords
             /\ \/ task' = task
                \/ \E p \in {"reading", "failing", "stopping"} :
                      task' = [task EXCEPT ![k] = [task[k] EXCEPT !.pc = p]]
                \/ task' = [task EXCEPT ![k] = [task[k] EXCEPT !.pc = "sending",
                                                              !.ver = objs[task[k].obj].ver]]
    <3>1. task[k].obj \in Objects
      BY <2>3 DEF TaskRecords
    <3>2. objs[task[k].obj].ver \in 0 .. MaxChanges + 1
      BY <3>1 DEF ClusterTypes
    <3>3. [task[k] EXCEPT !.pc = "sending", !.ver = objs[task[k].obj].ver] \in TaskRecords
      BY <2>3, <3>2 DEF TaskRecords
    <3>4. \A p \in {"reading", "failing", "stopping"} : [task[k] EXCEPT !.pc = p] \in TaskRecords
      BY <2>3 DEF TaskRecords
    <3> QED
      BY <2>3, <3>3, <3>4 DEF TaskTypes
  <2>4. CASE TaskStops(k) \/ TaskSends(k)
    BY <2>2, <2>4 DEF TaskStops, TaskSends
  <2>5. CASE TaskFires(k)
    BY <2>1, <2>3, <2>5 DEF TaskFires
  <2>6. CASE TaskReads(k)
    BY <2>1, <2>2, <2>3, <2>6 DEF TaskReads
  <2>7. CASE TaskPanics(k)
    BY <2>7 DEF TaskPanics, taskVars, TaskTypes
  <2>8. CASE TaskSendsError(k)
    BY <2>1, <2>3, <2>8 DEF TaskSendsError
  <2> QED
    BY <1>3, <2>4, <2>5, <2>6, <2>7, <2>8 DEF Task
<1>4. CASE Syncer
  BY <1>4, SyncerKeeps DEF taskVars, TaskTypes
<1>5. CASE StopReporter
  BY <1>5, TaskOverTypes DEF StopReporter, taskVars, TaskTypes
<1>6. CASE CallerCancels \/ FunnelNotices
  BY <1>6, OthersKeep DEF allButFunnel, taskVars, TaskTypes
<1>7. ASSUME NEW c \in Channels, Delivered(c) \/ FunnelDrainEnds(c)
      PROVE  TaskTypes'
  BY <1>7, OthersKeep DEF allButFunnel, taskVars, TaskTypes
<1>8. ASSUME NEW o \in Objects, Change(o)
      PROVE  TaskTypes'
  BY <1>8, OthersKeep DEF taskVars, TaskTypes
<1> QED
  BY <1>1, <1>2, <1>3, <1>4, <1>5, <1>6, <1>7, <1>8 DEF Next

\* The version of an update that the reader takes is one of an object.
LEMMA ReaderStep ==
    ASSUME ReporterInv, Next
    PROVE  ReaderTypes'
<1> USE DEF ReporterInv
<1>1. ASSUME NEW i \in Attempts, Attempt(i) \/ Reflector(i) \/ WatchForbidden(i) \/ Handler(i)
      PROVE  ReaderTypes'
  BY <1>1, AttemptKeeps, ReflectorKeeps, HandlerKeeps DEF readerVars, ReaderTypes
<1>2. ASSUME NEW k \in Tasks, Task(k)
      PROVE  ReaderTypes'
  <2>1. panicked' \in BOOLEAN
    BY <1>2 DEF Task, TaskStops, TaskFires, TaskReads, TaskSends, TaskPanics, TaskSendsError,
                ReaderTypes
  <2> QED
    BY <1>2, <2>1, TaskKeeps DEF readerVars, ReaderTypes
<1>3. CASE Syncer
  <2>1. errSeen' \in BOOLEAN
    BY <1>3 DEF Syncer, SyncerJoins, SyncerRefused, RefusalRead, RefusalClosed, SyncerSees,
                SyncerSends, SyncerGivesUp, SyncerCloses, readerVars, ReaderTypes
  <2> QED
    BY <1>3, <2>1, SyncerKeeps DEF ReaderTypes
<1>4. CASE StopReporter
  BY <1>4, OthersKeep DEF readerVars, ReaderTypes
<1>5. CASE CallerCancels \/ FunnelNotices
  BY <1>5, OthersKeep DEF allButFunnel, readerVars, ReaderTypes
<1>6. ASSUME NEW c \in Channels, FunnelDrainEnds(c)
      PROVE  ReaderTypes'
  BY <1>6, OthersKeep DEF allButFunnel, readerVars, ReaderTypes
<1>7. ASSUME NEW c \in Channels, Delivered(c)
      PROVE  ReaderTypes'
  <2> DEFINE e == held[c]
  <2>1. e \in AllEvents
    BY <1>7, ReporterAssumption DEF Delivered, Forward, HeldTypes
  <2>2. e.type = "update" => e.obj \in Objects /\ e.ver \in 0 .. MaxChanges + 1
    <3>1. e \in {SyncEvent, ErrorEvent} => e.type # "update"
      BY DEF SyncEvent, ErrorEvent
    <3>2. \A o \in Objects, v \in 0 .. MaxChanges + 1 : Update(o, v).obj = o /\ Update(o, v).ver = v
      BY DEF Update
    <3> QED
      BY <2>1, <3>1, <3>2 DEF AllEvents
  <2>3. got' \in [Objects -> 0 .. MaxChanges + 1]
    <3>1. got' = got \/ (e.type = "update" /\ got' = [got EXCEPT ![e.obj] = e.ver])
      BY <1>7 DEF Delivered
    <3> QED
      BY <2>2, <3>1 DEF ReaderTypes
  <2>4. syncSeen' \in BOOLEAN /\ errSeen' \in BOOLEAN /\ panicked' = panicked
    BY <1>7 DEF Delivered, ReaderTypes
  <2> QED
    BY <2>3, <2>4 DEF ReaderTypes
<1>8. ASSUME NEW o \in Objects, Change(o)
      PROVE  ReaderTypes'
  BY <1>8, OthersKeep DEF readerVars, ReaderTypes
<1> QED
  BY <1>1, <1>2, <1>3, <1>4, <1>5, <1>6, <1>7, <1>8 DEF Next

\* The context is not undone.
LEMMA DoneStays ==
    ASSUME [FunnelNext]_<<ctxDone, funnelVars>>, ctxDone
    PROVE  ctxDone'
BY DEF FunnelNext, NoticeContext, CancelContext, AddInputChannel, Send, Forward, DrainEnds, CloseInput

\* A step leaves the end of Start what it is.
LEMMA SyncerTypesStep ==
    ASSUME ReporterInv, Next
    PROVE  SyncerTypes'
<1> USE DEF ReporterInv
<1>1. CASE Syncer
  <2>1. syncer' \in {"refused", "refusedSent", "refusedClosed"} => ctxDone
    BY <1>1 DEF Syncer, SyncerJoins, SyncerRefused, RefusalRead, RefusalClosed, SyncerSees,
                SyncerSends, SyncerGivesUp, SyncerCloses, SyncerStep, AddRefused, SyncerTypes
  <2>2. ctxDone => ctxDone'
    BY DoneStays, StepOfFunnel
  <2>3. syncer' \in {"unstarted", "waiting", "sending", "closing", "done",
                    "refused", "refusedSent", "refusedClosed"}
    BY <1>1 DEF Syncer, SyncerJoins, SyncerRefused, RefusalRead, RefusalClosed, SyncerSees,
                SyncerSends, SyncerGivesUp, SyncerCloses, SyncerStep
  <2> QED
    BY <2>1, <2>2, <2>3 DEF SyncerTypes
<1>2. CASE syncer' = syncer
  <2>1. ctxDone => ctxDone'
    BY DoneStays, StepOfFunnel
  <2> QED
    BY <1>2, <2>1 DEF SyncerTypes
<1>3. Syncer \/ syncer' = syncer
  BY AttemptKeeps, ReflectorKeeps, HandlerKeeps, TaskKeeps, OthersKeep DEF Next, allButFunnel
<1> QED
  BY <1>1, <1>2, <1>3

\* A step keeps all of it.
LEMMA ReporterStep ==
    ASSUME ReporterInv, [Next]_vars
    PROVE  ReporterInv'
<1>1. CASE Next
  <2>1. CountInv' /\ HeldTypes'
    BY <1>1, StepOfFunnel, CountStep, HeldStep DEF ReporterInv
  <2>2. ClusterTypes'
    <3>1. ClusterTypes' \/ UNCHANGED clusterVars
      BY <1>1, ClusterStep, AttemptKeeps, ReflectorKeeps, HandlerKeeps, TaskKeeps, SyncerKeeps,
         OthersKeep DEF Next, allButFunnel
    <3> QED
      BY <3>1 DEF ReporterInv, clusterVars, ClusterTypes
  <2> QED
    BY <1>1, <2>1, <2>2, RefStep, HandlerStep, UnreadStep, TaskStep, ReaderStep,
       SyncerTypesStep DEF ReporterInv
<1>2. CASE UNCHANGED vars
  <2>1. UNCHANGED <<ctxDone, funnelVars>> /\ UNCHANGED allButFunnel
    BY <1>2 DEF vars
  <2>2. CountInv' /\ HeldTypes'
    BY <2>1, CountStep, HeldStep DEF ReporterInv
  <2>3. ClusterTypes' /\ RefTypes'
    BY <2>1 DEF allButFunnel, clusterVars, refVars, ReporterInv, ClusterTypes, RefTypes
  <2>4. HandlerTypes' /\ UnreadTypes' /\ TaskTypes'
    BY <2>1 DEF allButFunnel, taskVars, ReporterInv, HandlerTypes, UnreadTypes, TaskTypes
  <2>5. ReaderTypes' /\ SyncerTypes'
    BY <2>1 DEF allButFunnel, readerVars, ReporterInv, ReaderTypes, SyncerTypes
  <2> QED
    BY <2>2, <2>3, <2>4, <2>5 DEF ReporterInv
<1> QED
  BY <1>1, <1>2

\* It holds at first.
LEMMA ReporterInit ==
    ASSUME Init
    PROVE  ReporterInv
<1>1. CountInv
  BY CountInit DEF Init
<1>2. HeldTypes
  BY DEF Init, FunnelInit, HeldTypes
<1>3. MaxStarts \in Nat \ {0} /\ MaxChanges \in Nat /\ MaxTasks \in Nat
  BY ReporterAssumption
<1>4. ClusterTypes
  <2>1. PICK s \in Scenarios :
           /\ objs = [o \in Objects |->
                         [st |-> s.cluster[o], ver |-> IF s.cluster[o] = "absent" THEN 0 ELSE 1]]
           /\ left = [changes |-> s.changes, faults |-> s.faults]
    BY DEF Init
  <2>2. s \in [cluster : [Objects -> States], changes : 0 .. MaxChanges,
                faults : SUBSET {"lookup", "list", "read", "deadline"}]
    BY ReporterAssumption
  <2>3. left \in [changes : 0 .. MaxChanges, faults : SUBSET {"lookup", "list", "read", "deadline"}]
    BY <2>1, <2>2
  <2>4. \A o \in Objects : objs[o] \in [st : States, ver : 0 .. 1]
    BY <2>1, <2>2
  <2>5. left.changes \in 0 .. MaxChanges
    BY <2>3
  <2>6. \A o \in Objects : objs[o].ver \in 0 .. 1
    BY <2>4
  <2>7. \A o \in Objects : objs[o].ver + left.changes <= MaxChanges + 1
    BY <2>5, <2>6, <1>3
  <2>8. objs \in [Objects -> [st : States, ver : 0 .. MaxChanges + 1]]
    BY <2>1, <2>4, <1>3
  <2> QED
    BY <2>3, <2>7, <2>8 DEF ClusterTypes
<1>5. RefTypes
  BY <1>3 DEF Init, RefTypes
<1>6. HandlerTypes
  <2>1. << >> \in Seq(Notes)
    OBVIOUS
  <2>2. queue = [i \in Attempts |-> << >>] /\ handler = [i \in Attempts |-> Idle]
        /\ watchErr = [i \in Attempts |-> "idle"]
    BY DEF Init
  <2> QED
    BY <2>1, <2>2 DEF HandlerTypes, Idle
<1>7. UnreadTypes /\ TaskTypes
  BY <1>3 DEF Init, UnreadTypes, TaskTypes
<1>8. ReaderTypes /\ SyncerTypes
  <2>1. got \in [Objects -> 0 .. MaxChanges + 1]
    BY <1>3 DEF Init
  <2>2. /\ syncSeen = FALSE /\ errSeen = FALSE /\ panicked = FALSE
        /\ syncer = "unstarted"
    BY DEF Init
  <2>3. SyncerTypes
    BY <2>2 DEF SyncerTypes
  <2>4. syncSeen \in BOOLEAN /\ errSeen \in BOOLEAN /\ panicked \in BOOLEAN
    BY <2>2
  <2> QED
    BY <2>1, <2>3, <2>4 DEF ReaderTypes
<1> QED
  BY <1>1, <1>2, <1>4, <1>5, <1>6, <1>7, <1>8 DEF ReporterInv

\* It holds always.
LEMMA ReporterInvHolds == Spec => []ReporterInv
<1>1. Init => ReporterInv
  BY ReporterInit
<1>2. ReporterInv /\ [Next]_vars => ReporterInv'
  BY ReporterStep
<1> QED
  BY <1>1, <1>2, PTL DEF Spec

\* Every variable of the reporter and of its funnel keeps its type: what is
\* queued, handled, checked later and read has an object and a version of it.
THEOREM ReporterTypeCorrect == Spec => []ReporterTypeOK
<1>1. ReporterInv => ReporterTypeOK
  <2> SUFFICES ASSUME ReporterInv PROVE ReporterTypeOK
    OBVIOUS
  <2>1. FunnelTypeOK
    BY DEF ReporterInv, CountInv
  <2>2. \A i \in Attempts :
           /\ queue[i] \in Seq(Notes)
           /\ handler[i].pc \in {"idle", "read", "hook", "send", "failing", "stopping"}
           /\ watchErr[i] \in {"idle", "sending", "stopping"}
    BY DEF ReporterInv, HandlerTypes
  <2>3. \A k \in Tasks :
           task[k].pc \in {"none", "waiting", "reading", "sending", "failing", "stopping"}
    BY DEF ReporterInv, TaskTypes, TaskRecords, IdleTask
  <2>4. {syncSeen, errSeen, panicked} \subseteq BOOLEAN
    BY DEF ReporterInv, ReaderTypes
  <2> QED
    BY <2>1, <2>2, <2>3, <2>4
       DEF ReporterTypeOK, ReporterInv, ClusterTypes, RefTypes, UnreadTypes, TaskTypes, ReaderTypes,
           SyncerTypes
<1> QED
  BY <1>1, ReporterInvHolds, PTL

\* In the reporter too the output of the funnel is closed after the context
\* is done and every drain has ended, whatever informers were started,
\* stopped and started again.
THEOREM ReporterClosesLast == Spec => []ClosesAfterLastInput
<1>1. ReporterInv => ClosesAfterLastInput
  BY OpenFinite DEF ReporterInv, CountInv, ClosesAfterLastInput
<1> QED
  BY <1>1, ReporterInvHolds, PTL

\* The reporter is one user of the funnel: its goroutines are producers and
\* its Stop a caller of the kind the theorems about the funnel are about.
THEOREM ReporterUsesFunnel == Spec => FunnelSpec
<1>1. Init => FunnelInit
  BY DEF Init
<1>2. ReporterInv /\ [Next]_vars => [FunnelNext]_<<ctxDone, funnelVars>>
  BY StepOfFunnel DEF vars
<1> QED
  BY <1>1, <1>2, ReporterInvHolds, PTL DEF Spec, FunnelSpec

----------------------------------------------------------------------------
(* The reporter makes the steps of a status watcher.                       *)

Closed == syncer = "refusedClosed" \/ (Returned /\ outClosed)

\* The funnel closes its output only when the context is done, and it does not
\* when an input is added.
LEMMA OutputCloses ==
    ASSUME CountInv, [FunnelNext]_<<ctxDone, funnelVars>>, ~outClosed, outClosed'
    PROVE  ctxDone /\ ctxDone' /\ \A c \in Channels : ~AddInputChannel(c)
<1>1. inputs \in Nat
  BY OpenFinite DEF CountInv
<1>2. ASSUME NEW c \in Channels, AddInputChannel(c) PROVE FALSE
  <2>1. inputs' = inputs + 1 /\ (outClosed' => inputs' <= 0)
    BY <1>2 DEF AddInputChannel, Turn
  <2>2. inputs + 1 <= 0
    BY <2>1
  <2> QED
    BY <1>1, <2>2
<1> QED
  BY <1>2 DEF CountInv, FunnelNext, NoticeContext, CancelContext, AddInputChannel, Turn, Send, Forward,
              DrainEnds, CloseInput, funnelVars

\* A step that shows the reader nothing new.
LEMMA QuietStep ==
    ASSUME ReporterInv, Next, UNCHANGED <<syncer, syncSeen, errSeen, panicked>>
    PROVE  [Promise!Next]_(Promise!promiseVars)
<1>1. [FunnelNext]_<<ctxDone, funnelVars>>
  BY StepOfFunnel
<1>2. outClosed' = outClosed \/ (~outClosed /\ outClosed')
  <2>1. outClosed => outClosed'
    BY <1>1 DEF FunnelNext, NoticeContext, CancelContext, AddInputChannel, Turn, Send, Forward,
                DrainEnds, CloseInput, funnelVars
  <2>2. outClosed \in BOOLEAN /\ outClosed' \in BOOLEAN
    BY <1>1, CountStep DEF ReporterInv, CountInv, FunnelTypeOK
  <2> QED
    BY <2>1, <2>2
<1>3. CASE ~outClosed /\ outClosed'
  <2>1. ctxDone /\ ctxDone'
    BY <1>1, <1>3, OutputCloses DEF ReporterInv
  <2>2. ctxDone' = ctxDone
    BY <1>1, <1>3 DEF FunnelNext, NoticeContext, CancelContext, AddInputChannel, Turn, Send, Forward,
                DrainEnds, CloseInput, funnelVars
  <2>3. CASE Closed' = Closed
    BY <2>2, <2>3 DEF Closed, Promise!promiseVars
  <2>4. CASE Closed' # Closed
    <3>1. ~Closed /\ Closed' /\ ~panicked
      BY <1>3, <2>4 DEF Closed, Returned, Next
    <3> QED
      BY <2>1, <2>2, <3>1 DEF Closed, Promise!Next, Promise!Close, Promise!Emits, Promise!Running
  <2> QED
    BY <2>3, <2>4
<1>4. CASE outClosed' = outClosed
  <2>1. Closed' = Closed
    BY <1>4 DEF Closed, Returned
  <2>2. CASE ctxDone' = ctxDone
    BY <2>1, <2>2 DEF Closed, Promise!promiseVars
  <2>3. CASE ctxDone' # ctxDone
    <3>1. ctxDone' = TRUE
      BY <1>1, <2>3 DEF FunnelNext, NoticeContext, CancelContext, AddInputChannel, Send, Forward,
                DrainEnds, CloseInput, funnelVars
    <3>2. ~panicked
      BY DEF Next
    <3> QED
      BY <2>1, <3>1, <3>2 DEF Closed, Promise!Next, Promise!Stop, Promise!Running
  <2> QED
    BY <2>2, <2>3
<1> QED
  BY <1>2, <1>3, <1>4

\* A step of the end of Start.
LEMMA SyncerPromises ==
    ASSUME ReporterInv, Next, Syncer
    PROVE  [Promise!Next]_(Promise!promiseVars)
<1> USE DEF Closed, Returned
<1>1. UNCHANGED <<syncSeen, panicked>> /\ ~panicked
  BY SyncerKeeps DEF Next
<1>2. CASE SyncerJoins
  <2>1. AddInputChannel(SyncChannel) /\ syncer = "unstarted" /\ UNCHANGED <<ctxDone, errSeen>>
    BY <1>2 DEF SyncerJoins, SyncerStep, AddInputChannel, readerVars
  <2>2. ~outClosed
    BY <2>1 DEF AddInputChannel, Turn
  <2>3. ~outClosed'
    BY <2>1, <2>2, StepOfFunnel, OutputCloses, SentAreEvents DEF ReporterInv
  <2>4. ~Closed /\ ~Closed'
    BY <1>2, <2>1, <2>3 DEF SyncerJoins, SyncerStep
  <2> QED
    BY <1>1, <2>1, <2>4 DEF Promise!promiseVars
<1>3. CASE SyncerRefused
  BY <1>1, <1>3 DEF SyncerRefused, SyncerStep, readerVars, Promise!promiseVars
<1>4. CASE RefusalRead
  BY <1>1, <1>4 DEF RefusalRead, SyncerStep, Promise!Next, Promise!Err, Promise!Emits, Promise!Running
<1>5. CASE RefusalClosed
  <2>1. ctxDone
    BY <1>5 DEF RefusalClosed, SyncerStep, ReporterInv, SyncerTypes
  <2> QED
    BY <1>1, <1>5, <2>1 DEF RefusalClosed, SyncerStep, readerVars,
       Promise!Next, Promise!Close, Promise!Emits, Promise!Running
<1>6. CASE SyncerSees \/ SyncerSends \/ SyncerGivesUp \/ SyncerCloses
  <2>1. UNCHANGED <<ctxDone, outClosed, errSeen>>
    BY <1>6 DEF SyncerSees, SyncerSends, SyncerGivesUp, SyncerCloses, Send, CloseInput,
                funnelVars, readerVars
  <2>2. Closed' = Closed
    BY <1>6, <2>1 DEF SyncerSees, SyncerSends, SyncerGivesUp, SyncerCloses, SyncerStep
  <2> QED
    BY <1>1, <2>1, <2>2 DEF Promise!promiseVars
<1> QED
  BY <1>2, <1>3, <1>4, <1>5, <1>6 DEF Syncer

\* A delivery: the reader gets an update, the SyncEvent or an error.
LEMMA DeliveryPromises ==
    ASSUME ReporterInv, Next, NEW c \in Channels, Delivered(c)
    PROVE  [Promise!Next]_(Promise!promiseVars)
<1> USE DEF Closed, Returned
<1>1. /\ UNCHANGED <<ctxDone, outClosed, syncer, panicked>>
      /\ ~panicked /\ ~outClosed /\ Returned
  BY DEF Delivered, Forward, Next
<1>2. ~Closed /\ ~Closed'
  BY <1>1
<1>3. /\ syncSeen' = (syncSeen \/ held[c].type = "sync")
      /\ errSeen' = (errSeen \/ held[c].type = "error")
  BY DEF Delivered
<1>4. syncSeen \in BOOLEAN /\ errSeen \in BOOLEAN
  BY DEF ReporterInv, ReaderTypes
<1>5. CASE held[c].type = "sync"
  <2>1. errSeen' = errSeen /\ syncSeen'
    BY <1>3, <1>4, <1>5
  <2>2. CASE syncSeen
    BY <1>1, <1>2, <1>4, <2>1, <2>2, <1>3 DEF Promise!promiseVars
  <2>3. CASE ~syncSeen
    BY <1>1, <1>2, <1>3, <1>5, <2>1, <2>3 DEF Promise!Next, Promise!Sync, Promise!Emits, Promise!Running
  <2> QED
    BY <2>2, <2>3
<1>6. CASE held[c].type = "error"
  <2>1. syncSeen' = syncSeen /\ errSeen' = TRUE
    BY <1>3, <1>4, <1>6
  <2> QED
    BY <1>1, <1>2, <2>1 DEF Promise!Next, Promise!Err, Promise!Emits, Promise!Running
<1>7. CASE held[c].type \notin {"sync", "error"}
  <2>1. UNCHANGED <<syncSeen, errSeen>>
    BY <1>3, <1>4, <1>7
  <2> QED
    BY <1>1, <1>2, <2>1 DEF Promise!promiseVars
<1> QED
  BY <1>5, <1>6, <1>7

\* Every step of the reporter is one of StatusPromise or a stutter.
LEMMA ReporterPromises ==
    ASSUME ReporterInv, Next
    PROVE  [Promise!Next]_(Promise!promiseVars)
<1>1. ASSUME NEW i \in Attempts, Attempt(i) \/ Reflector(i) \/ WatchForbidden(i) \/ Handler(i)
      PROVE  [Promise!Next]_(Promise!promiseVars)
  BY <1>1, QuietStep, AttemptKeeps, ReflectorKeeps, HandlerKeeps DEF readerVars
<1>2. ASSUME NEW k \in Tasks, Task(k)
      PROVE  [Promise!Next]_(Promise!promiseVars)
  <2>1. CASE TaskPanics(k)
    <3>1. UNCHANGED <<ctxDone, outClosed, syncer, syncSeen, errSeen>> /\ panicked' = TRUE /\ ~panicked
      BY <2>1 DEF TaskPanics, funnelVars, readerVars, Next
    <3> QED
      BY <3>1 DEF Returned, Promise!Next, Promise!Crash, Promise!Running
  <2>2. CASE TaskStops(k) \/ TaskFires(k) \/ TaskReads(k) \/ TaskSends(k) \/ TaskSendsError(k)
    <3>1. panicked' = panicked
      BY <2>2 DEF TaskStops, TaskFires, TaskReads, TaskSends, TaskSendsError
    <3> QED
      BY <1>2, <3>1, QuietStep, TaskKeeps DEF readerVars
  <2> QED
    BY <1>2, <2>1, <2>2 DEF Task
<1>3. CASE Syncer
  BY <1>3, SyncerPromises
<1>4. CASE StopReporter \/ CallerCancels \/ FunnelNotices
  BY <1>4, QuietStep, OthersKeep DEF allButFunnel, readerVars
<1>5. ASSUME NEW c \in Channels, FunnelDrainEnds(c)
      PROVE  [Promise!Next]_(Promise!promiseVars)
  BY <1>5, QuietStep, OthersKeep DEF allButFunnel, readerVars
<1>6. ASSUME NEW c \in Channels, Delivered(c)
      PROVE  [Promise!Next]_(Promise!promiseVars)
  BY <1>6, DeliveryPromises
<1>7. ASSUME NEW o \in Objects, Change(o)
      PROVE  [Promise!Next]_(Promise!promiseVars)
  BY <1>7, QuietStep, OthersKeep DEF readerVars
<1> QED
  BY <1>1, <1>2, <1>3, <1>4, <1>5, <1>6, <1>7 DEF Next

\* The reporter shows its reader what a status watcher may show: events while
\* the channel is open, one SyncEvent at most, and the end of the channel only
\* after the watch was stopped.
THEOREM ReporterIsWatcher == Spec => Promise!SafetySpec
<1>1. Init => Promise!Init
  BY DEF Init, FunnelInit, Returned, Promise!Init
<1>2. ReporterInv /\ [Next]_vars => [Promise!Next]_(Promise!promiseVars)
  <2>1. ReporterInv /\ UNCHANGED vars => UNCHANGED Promise!promiseVars
    BY DEF vars, funnelVars, allButFunnel, readerVars, Returned, Promise!promiseVars
  <2> QED
    BY <2>1, ReporterPromises
<1> QED
  BY <1>1, <1>2, ReporterInvHolds, PTL DEF Spec, Promise!SafetySpec

----------------------------------------------------------------------------
(* Who may still send when a channel is closed.                            *)

\* A closed channel is that of an attempt that has ended; what belongs to the
\* informer of an attempt is there only while it runs, and an attempt that is
\* yet to be made is unused, so that a start finds nothing of an earlier one.
SenderInv ==
    /\ \A i \in Attempts :
          /\ inClosed[i] => phase[i] = "ended"
          /\ handler[i].pc # "idle" => phase[i] = "running"
          /\ watchErr[i] # "idle" => phase[i] = "running"
          /\ queue[i] # << >> => phase[i] = "running"
          /\ i[2] > refs[i[1]].starts => phase[i] = "unused"
    /\ inClosed[SyncChannel] => syncer = "done"

\* Steps that leave the attempts and their channels as they are.
LEMMA SenderKeeps ==
    ASSUME SenderInv, UNCHANGED <<inClosed, phase, handler, watchErr, queue, refs, syncer>>
    PROVE  SenderInv'
BY DEF SenderInv

\* The number of starts of a reference changes in StartAll only.
LEMMA StartsKept ==
    ASSUME ReporterInv
    PROVE  /\ \A S : Stopped(S) => \A t \in Targets : refs'[t].starts = refs[t].starts
           /\ \A i \in Attempts : SetInformer(i) => \A t \in Targets : refs'[t].starts = refs[t].starts
<1>1. \A t \in Targets : refs[t] \in [started : BOOLEAN, starts : 0 .. MaxStarts,
informer : 0 .. MaxStarts]
  BY DEF ReporterInv, RefTypes
<1>2. ASSUME NEW S, Stopped(S), NEW t \in Targets PROVE refs'[t].starts = refs[t].starts
  BY <1>1, <1>2 DEF Stopped
<1>3. ASSUME NEW i \in Attempts, SetInformer(i),
NEW t \in Targets PROVE refs'[t].starts = refs[t].starts
  <2>1. refs' = [refs EXCEPT ![i[1]] = [refs[i[1]] EXCEPT !.informer = i[2]]]
    BY <1>3 DEF SetInformer
  <2> QED
    BY <1>1, <2>1 DEF ReporterInv, RefTypes
<1> QED
  BY <1>2, <1>3

\* A channel that is closed is one of an attempt.
LEMMA ClosedOnes ==
    ASSUME ReporterInv
    PROVE  /\ \A i \in Attempts : CloseInput(i) =>
                 /\ inClosed'[i] /\ inClosed'[SyncChannel] = inClosed[SyncChannel]
                 /\ \A j \in Attempts \ {i} : inClosed'[j] = inClosed[j]
           /\ CloseInput(SyncChannel) => \A j \in Attempts : inClosed'[j] = inClosed[j]
BY ReporterAssumption DEF CloseInput, ReporterInv, CountInv, FunnelTypeOK

\* The goroutine of an attempt.
LEMMA SenderAttempt ==
    ASSUME ReporterInv, SenderInv, NEW i \in Attempts, Attempt(i)
    PROVE  SenderInv'
<1>1. UNCHANGED <<handler, watchErr, syncer>>
  BY AttemptKeeps
<1>2. phase' = [phase EXCEPT ![i] = phase'[i]] /\ phase[i] \notin {"unused", "ended"}
  BY DEF Attempt, Dropped, Lookup, StopOnNoMatch, SetInformer, JoinFunnel, RefusedByFunnel,
         StartSendsError, RunReturns, CloseChannel, ReporterInv, RefTypes
<1>3. \A t \in Targets : refs'[t].starts = refs[t].starts
  BY StartsKept, TargetSets DEF Attempt, Dropped, Lookup, StopOnNoMatch, SetInformer, JoinFunnel,
                                RefusedByFunnel,
         StartSendsError, RunReturns, CloseChannel, refVars
<1>4. phase[i] = "running" =>
         handler[i].pc = "idle" /\ watchErr[i] = "idle" /\ queue' = [queue EXCEPT ![i] = << >>]
  BY DEF Attempt, Dropped, Lookup, StopOnNoMatch, SetInformer, JoinFunnel, RefusedByFunnel,
         StartSendsError, RunReturns, CloseChannel
<1>5. phase[i] # "running" => queue' = queue
  BY DEF Attempt, Dropped, Lookup, StopOnNoMatch, SetInformer, JoinFunnel, RefusedByFunnel,
         StartSendsError, RunReturns, CloseChannel
<1>6. inClosed' = inClosed \/ (CloseInput(i) /\ phase' = [phase EXCEPT ![i] = "ended"])
  BY DEF Attempt, Dropped, Lookup, StopOnNoMatch, SetInformer, JoinFunnel, RefusedByFunnel,
         StartSendsError, RunReturns, CloseChannel, funnelVars, AddInputChannel, Send
<1>7. phase \in [Attempts -> {"unused", "lookup", "nomatch", "failed", "refused", "reporting",
                             "stopping", "found", "adding", "running", "closing", "ended"}]
      /\ queue \in [Attempts -> Seq(Notes)]
  BY DEF ReporterInv, RefTypes, HandlerTypes
<1>8. /\ ~inClosed[i] /\ ~(i[2] > refs[i[1]].starts)
      /\ handler[i].pc = "idle" /\ watchErr[i] = "idle" /\ queue'[i] = << >>
  BY <1>2, <1>4, <1>5, <1>7 DEF SenderInv
<1>9. \A j \in Attempts \ {i} : phase'[j] = phase[j] /\ queue'[j] = queue[j]
  BY <1>2, <1>4, <1>5, <1>7
<1>10. /\ \A j \in Attempts \ {i} : inClosed'[j] = inClosed[j]
       /\ inClosed'[i] => phase'[i] = "ended"
       /\ inClosed'[SyncChannel] = inClosed[SyncChannel]
  BY <1>6, <1>7, <1>8, ClosedOnes
<1> QED
  BY <1>1, <1>3, <1>8, <1>9, <1>10, TargetSets DEF SenderInv

\* The handler, which may start others.
LEMMA SenderHandler ==
    ASSUME ReporterInv, SenderInv, NEW i \in Attempts, Handler(i)
    PROVE  SenderInv'
<1>1. UNCHANGED <<inClosed, watchErr, syncer>>
  BY HandlerKeeps DEF Handler, HandlerTakes, HandlerReads, HandlerIgnores, HandlerStarts, HandlerEnds,
                      HandlerSends,
     HandlerSendsError, Send, funnelVars
<1>2. phase[i] = "running"
  BY DEF Handler, HandlerTakes, HandlerReads, HandlerIgnores, HandlerStarts, HandlerEnds, HandlerSends,
     HandlerSendsError, SenderInv
<1>3. \A j \in Attempts \ {i} : handler'[j] = handler[j] /\ queue'[j] = queue[j]
  BY DEF Handler, HandlerTakes, HandlerReads, HandlerIgnores, HandlerStarts, HandlerEnds, HandlerSends,
     HandlerSendsError, ReporterInv, HandlerTypes
<1>4. CASE HandlerStarts(i)
  <2> DEFINE S == Affected(handler[i].note.obj)
             fresh == {t \in S : ~refs[t].started /\ refs[t].starts < MaxStarts}
  <2>1. /\ refs' = [t \in Targets |-> IF t \in fresh
                                      THEN [refs[t] EXCEPT !.started = TRUE, !.starts = @ + 1]
                                      ELSE refs[t]]
        /\ phase' = [j \in Attempts |-> IF j[1] \in fresh /\ j[2] = refs[j[1]].starts + 1
                                        THEN "lookup" ELSE phase[j]]
    BY <1>4 DEF HandlerStarts, StartAll
  <2>2. ASSUME NEW t \in Targets
        PROVE  /\ refs[t].starts \in Nat
               /\ t \in fresh => refs'[t].starts = refs[t].starts + 1
               /\ t \notin fresh => refs'[t].starts = refs[t].starts
    <3>1. refs[t] \in [started : BOOLEAN, starts : 0 .. MaxStarts, informer : 0 .. MaxStarts]
      BY DEF ReporterInv, RefTypes
    <3>2. MaxStarts \in Nat
      BY ReporterAssumption
    <3>3. CASE t \in fresh
      <4>1. refs'[t] = [refs[t] EXCEPT !.started = TRUE, !.starts = @ + 1]
        BY <2>1, <3>3
      <4> QED
        BY <3>1, <3>2, <3>3, <4>1
    <3>4. CASE t \notin fresh
      <4>1. refs'[t] = refs[t]
        BY <2>1, <3>4
      <4> QED
        BY <3>1, <3>2, <3>4, <4>1
    <3> QED
      BY <3>3, <3>4
  <2> HIDE DEF fresh
  <2>3. queue' = queue
    BY <1>4 DEF HandlerStarts
  <2>4. ASSUME NEW j \in Attempts
        PROVE  /\ inClosed'[j] => phase'[j] = "ended"
               /\ handler'[j].pc # "idle" => phase'[j] = "running"
               /\ watchErr'[j] # "idle" => phase'[j] = "running"
               /\ queue'[j] # << >> => phase'[j] = "running"
               /\ j[2] > refs'[j[1]].starts => phase'[j] = "unused"
    <3>1. j[1] \in Targets /\ j[2] \in Nat
      BY TargetSets, ReporterAssumption
    <3>2. CASE j[1] \in fresh /\ j[2] = refs[j[1]].starts + 1
      <4>1. j[2] > refs[j[1]].starts
        BY <3>1, <3>2, <2>2
      <4>2. phase[j] = "unused"
        BY <4>1 DEF SenderInv
      <4>3. j # i /\ ~(j[2] > refs'[j[1]].starts)
        BY <1>2, <4>2, <3>1, <3>2, <2>2
      <4> QED
        BY <1>1, <1>3, <2>3, <4>2, <4>3 DEF SenderInv
    <3>3. CASE ~(j[1] \in fresh /\ j[2] = refs[j[1]].starts + 1)
      <4>1. phase'[j] = phase[j]
        BY <2>1, <3>3
      <4>2. j[2] > refs'[j[1]].starts => j[2] > refs[j[1]].starts
        BY <3>1, <2>2
      <4> QED
        BY <1>1, <1>2, <1>3, <2>3, <4>1, <4>2 DEF SenderInv
    <3> QED
      BY <3>2, <3>3
  <2> QED
    BY <1>1, <2>4 DEF SenderInv
<1>5. CASE \/ HandlerTakes(i) \/ HandlerReads(i) \/ HandlerIgnores(i)
           \/ HandlerEnds(i) \/ HandlerSends(i) \/ HandlerSendsError(i)
  <2>1. phase' = phase
    BY <1>5 DEF HandlerTakes, HandlerReads, HandlerIgnores, HandlerEnds, HandlerSends, HandlerSendsError
  <2>2. \A t \in Targets : refs'[t].starts = refs[t].starts
    BY <1>5, StartsKept DEF HandlerTakes, HandlerReads, HandlerIgnores, HandlerEnds, HandlerSends,
                            HandlerSendsError, refVars
  <2> QED
    BY <1>1, <1>2, <1>3, <2>1, <2>2, TargetSets DEF SenderInv
<1> QED
  BY <1>4, <1>5 DEF Handler

\* A step keeps the channels of the senders.
LEMMA SenderStep ==
    ASSUME ReporterInv, SenderInv, Next
    PROVE  SenderInv'
<1>1. ASSUME NEW i \in Attempts, Attempt(i) PROVE SenderInv'
  BY <1>1, SenderAttempt
<1>2. ASSUME NEW i \in Attempts, Handler(i) PROVE SenderInv'
  BY <1>2, SenderHandler
<1>3. ASSUME NEW i \in Attempts, Reflector(i) \/ WatchForbidden(i) PROVE SenderInv'
  <2>1. UNCHANGED <<inClosed, phase, handler, syncer>> /\ phase[i] = "running"
    <3>1. watchErr[i] = "sending" => phase[i] = "running"
      BY DEF SenderInv
    <3> QED
      BY <1>3, <3>1, ReflectorKeeps
         DEF Reflector, List, WatchNotFound, WatchSendsError, WatchForbidden, Send, funnelVars
  <2>2. \A j \in Attempts \ {i} : watchErr'[j] = watchErr[j] /\ queue'[j] = queue[j]
    BY <1>3 DEF Reflector, List, WatchNotFound, WatchSendsError, WatchForbidden, ReporterInv,
                HandlerTypes
  <2>3. \A t \in Targets : refs'[t].starts = refs[t].starts
    BY <1>3, StartsKept DEF Reflector, List, WatchNotFound, WatchSendsError, WatchForbidden, refVars
  <2> QED
    BY <2>1, <2>2, <2>3, TargetSets DEF SenderInv
<1>4. ASSUME NEW k \in Tasks, Task(k) PROVE SenderInv'
  <2>1. inClosed' = inClosed
    BY <1>4 DEF Task, TaskStops, TaskFires, TaskReads, TaskSends, TaskPanics, TaskSendsError, Send,
                funnelVars
  <2> QED
    BY <1>4, <2>1, TaskKeeps, SenderKeeps DEF refVars
<1>5. CASE Syncer
  <2>1. UNCHANGED <<phase, handler, watchErr, queue, refs>>
    BY <1>5, SyncerKeeps DEF refVars
  <2>2. CASE SyncerCloses
    BY <2>1, <2>2, ClosedOnes DEF SyncerCloses, SyncerStep, SenderInv
  <2>3. CASE inClosed' = inClosed /\ syncer # "done"
    BY <2>1, <2>3 DEF SenderInv
  <2>4. SyncerCloses \/ (inClosed' = inClosed /\ syncer # "done")
    BY <1>5 DEF Syncer, SyncerJoins, SyncerRefused, RefusalRead, RefusalClosed, SyncerSees,
                SyncerSends, SyncerGivesUp, SyncerStep, AddInputChannel, Send, funnelVars
  <2> QED
    BY <2>2, <2>3, <2>4
<1>6. CASE StopReporter
  <2>1. UNCHANGED <<inClosed, queue, refs, syncer>>
    BY <1>6 DEF StopReporter, funnelVars, refVars
  <2>2. \/ UNCHANGED <<phase, handler, watchErr>>
        \/ \E i \in Attempts : phase[i] = "stopping" /\ phase' = [phase EXCEPT ![i] = "closing"]
                                /\ UNCHANGED <<handler, watchErr>>
        \/ \E i \in Attempts : handler' = [handler EXCEPT ![i] = Idle] /\ UNCHANGED <<phase, watchErr>>
        \/ \E i \in Attempts : watchErr' = [watchErr EXCEPT ![i] = "idle"] /\ UNCHANGED <<phase,
                                                                                          handler>>
    BY <1>6 DEF StopReporter
  <2>3. phase \in [Attempts -> {"unused", "lookup", "nomatch", "failed", "refused", "reporting",
                               "stopping", "found", "adding", "running", "closing", "ended"}]
    BY DEF ReporterInv, RefTypes
  <2>4. DOMAIN handler = Attempts /\ DOMAIN watchErr = Attempts
    BY DEF ReporterInv, HandlerTypes
  <2> QED
    BY <2>1, <2>2, <2>3, <2>4 DEF SenderInv, Idle
<1>7. CASE CallerCancels \/ FunnelNotices
  <2>1. inClosed' = inClosed
    BY <1>7 DEF CallerCancels, FunnelNotices, NoticeContext, funnelVars
  <2> QED
    BY <1>7, <2>1, OthersKeep, SenderKeeps DEF allButFunnel, refVars
<1>8. ASSUME NEW c \in Channels, Delivered(c) \/ FunnelDrainEnds(c) PROVE SenderInv'
  <2>1. inClosed' = inClosed
    BY <1>8 DEF Delivered, Forward, FunnelDrainEnds, DrainEnds
  <2> QED
    BY <1>8, <2>1, OthersKeep, SenderKeeps DEF allButFunnel, refVars
<1>9. ASSUME NEW o \in Objects, Change(o) PROVE SenderInv'
  <2>1. UNCHANGED <<inClosed, phase, handler, watchErr, refs, syncer>>
    BY <1>9, OthersKeep DEF Change, funnelVars, refVars
  <2>2. \A i \in Attempts : queue'[i] = queue[i] \/ phase[i] = "running"
    BY <1>9 DEF Change
  <2> QED
    BY <2>1, <2>2 DEF SenderInv
<1> QED
  BY <1>1, <1>2, <1>3, <1>4, <1>5, <1>6, <1>7, <1>8, <1>9 DEF Next

\* Channels are closed, informers run and attempts are used up in this order in
\* every run.
LEMMA SenderInvHolds == Spec => []SenderInv
<1>1. Init => SenderInv
  <2> SUFFICES ASSUME Init PROVE SenderInv
    OBVIOUS
  <2>1. \A i \in Attempts : i[1] \in Targets /\ i[2] \in Nat
    BY TargetSets, ReporterAssumption
  <2>2. /\ refs = [t \in Targets |-> [started |-> TRUE, starts |-> 1, informer |-> 0]]
        /\ phase = [i \in Attempts |-> IF i[2] = 1 THEN "lookup" ELSE "unused"]
        /\ \A i \in Attempts : queue[i] = << >> /\ handler[i].pc = "idle" /\ watchErr[i] = "idle"
    BY DEF Init, Idle
  <2>3. \A i \in Attempts : i[2] > refs[i[1]].starts => phase[i] = "unused"
    BY <2>1, <2>2
  <2>4. \A c \in Channels : ~inClosed[c]
    BY DEF Init, FunnelInit
  <2> QED
    BY <2>2, <2>3, <2>4, ReporterAssumption DEF SenderInv
<1>2. ReporterInv /\ SenderInv /\ [Next]_vars => SenderInv'
  <2>1. ReporterInv /\ SenderInv /\ UNCHANGED vars => SenderInv'
    BY SenderKeeps DEF vars, allButFunnel, funnelVars, refVars
  <2> QED
    BY <2>1, SenderStep
<1> QED
  BY <1>1, <1>2, ReporterInvHolds, PTL DEF Spec

\* No goroutine but a scheduled check ever sends on a channel that is closed,
\* and none is closed twice: RunWithContext waits for the handler and the
\* reflector, and a start after a stop has a channel of its own.
THEOREM SendersHaveChannelHolds == Spec => []SendersHaveChannel
<1>1. SenderInv => SendersHaveChannel
  BY DEF SenderInv, SendersHaveChannel
<1> QED
  BY <1>1, SenderInvHolds, PTL

----------------------------------------------------------------------------
(* What is on its way to the reader.                                       *)

\* The informer of the attempt has listed the object and goes on watching it.
Informed(i, o) ==
    /\ phase[i] = "running" /\ i \in listed /\ ~CtxDone(i)
    /\ Sees(i[1], o) /\ Present(o)

\* The newest version of the object: the reader has it; it is in the queue of
\* the informer, with the handler or with the drain; or the handler met an
\* error: it is about to stop the reporter, or it ignored the error.
OnItsWay(i, o) ==
    \/ objs[o].ver <= got[o]
    \/ \E n \in DOMAIN queue[i] : queue[i][n].obj = o /\ queue[i][n].ver = objs[o].ver
    \/ /\ handler[i].pc \in {"read", "hook", "send"}
       /\ handler[i].note.obj = o /\ handler[i].note.ver = objs[o].ver
    \/ handler[i].pc \in {"failing", "stopping"}
    \/ <<i, o, objs[o].ver>> \in unread
    \/ drain[i] = "holding" /\ held[i] = Update(o, objs[o].ver)

\* While an object that Watch was asked for is there and an informer watches
\* it, its newest version has been reported or is on its way, whatever
\* informers were started, stopped and started again. The one way to lose it
\* is an error of the status reader that handleFatalError takes, by its type,
\* for the end of the context, and that version is in unread (lines 458-463, 712-716;
\* object_status_reporter.go:317-371, 432-579, event_funnel.go:95-105).
NewsIsOnItsWay ==
    \A i \in Attempts, o \in Ids : Informed(i, o) => OnItsWay(i, o)

\* Only an informer that runs lists, and an attempt runs once.
NewsInv ==
    /\ \A i \in Attempts : i \in listed => phase[i] \in {"running", "closing", "ended"}
    /\ NewsIsOnItsWay

\* The list of a finite set leaves none of its members out.
LEMMA SetToSeqFinds ==
    ASSUME NEW S, IsFiniteSet(S), NEW x \in S
    PROVE  \E n \in DOMAIN SetToSeq(S) : SetToSeq(S)[n] = x
<1> DEFINE k == Cardinality(S)
<1>1. k \in Nat /\ ExistsBijection(1 .. k, S)
  BY FS_CardinalityType
<1>2. PICK f : f \in Bijection(1 .. k, S)
  BY <1>1 DEF ExistsBijection
<1>3. f \in [1 .. k -> S] /\ IsInjective(f)
  BY <1>2 DEF Bijection, Injection
<1>4. SetToSeq(S) \in [1 .. k -> S] /\ IsInjective(SetToSeq(S))
  BY <1>3 DEF SetToSeq
<1>5. SetToSeq(S) \in Injection(1 .. k, S)
  BY <1>4 DEF Injection
<1>6. Cardinality(1 .. k) = Cardinality(S)
  BY <1>1, FS_Interval
<1>7. SetToSeq(S) \in Surjection(1 .. k, S)
  BY <1>5, <1>6, FS_Injection
<1> QED
  BY <1>4, <1>7 DEF Surjection

\* What an informer lists is all it sees.
LEMMA ListFinds ==
    ASSUME ReporterInv, NEW i \in Attempts, NEW x \in Objects, x \in Seen(i), Present(x)
    PROVE  LET s == SetToSeq({[kind |-> "add", obj |-> o, st |-> objs[o].st, ver |-> objs[o].ver]
                                 : o \in {y \in Seen(i) : Present(y)}})
           IN  \E n \in DOMAIN s : s[n].obj = x /\ s[n].ver = objs[x].ver
<1> DEFINE T == {y \in Seen(i) : Present(y)}
           note == [o \in T |-> [kind |-> "add", obj |-> o, st |-> objs[o].st, ver |-> objs[o].ver]]
           S == {note[o] : o \in T}
<1>1. T \subseteq Objects /\ x \in T
  BY DEF Seen
<1>2. IsFiniteSet(T)
  BY <1>1, ReporterAssumption, FS_Subset
<1>3. note \in Surjection(T, S)
  BY DEF Surjection
<1>4. IsFiniteSet(S)
  <2> HIDE DEF T, note, S
  <2> QED
    BY <1>2, <1>3, FS_Surjection
<1>5. note[x] \in S /\ note[x].obj = x /\ note[x].ver = objs[x].ver
  BY <1>1
<1>6. \E n \in DOMAIN SetToSeq(S) : SetToSeq(S)[n] = note[x]
  <2> HIDE DEF T, note, S
  <2> QED
    BY <1>4, <1>5, SetToSeqFinds
<1>7. S = {[kind |-> "add", obj |-> o, st |-> objs[o].st, ver |-> objs[o].ver] : o \in T}
  OBVIOUS
<1>8. \E n \in DOMAIN SetToSeq(S) : SetToSeq(S)[n].obj = x /\ SetToSeq(S)[n].ver = objs[x].ver
  <2> HIDE DEF T, note, S
  <2> QED
    BY <1>5, <1>6
<1> QED
  BY <1>7, <1>8

\* Contexts are not undone.
LEMMA ContextsStay ==
    ASSUME ReporterInv, Next, NEW i \in Attempts
    PROVE  CtxDone(i) => CtxDone(i)'
<1>1. ctxDone => ctxDone'
  BY DoneStays, StepOfFunnel
<1>2. canceled \subseteq canceled'
  <2>1. ASSUME NEW j \in Attempts, Attempt(j) PROVE canceled \subseteq canceled'
    BY <2>1 DEF Attempt, Dropped, Lookup, StopOnNoMatch, SetInformer, JoinFunnel, RefusedByFunnel,
         StartSendsError, RunReturns, CloseChannel, refVars, Stopped
  <2>2. ASSUME NEW j \in Attempts, Reflector(j) \/ WatchForbidden(j) PROVE canceled \subseteq canceled'
    BY <2>2 DEF Reflector, List, WatchNotFound, WatchSendsError, WatchForbidden, refVars, Stopped
  <2>3. ASSUME NEW j \in Attempts, Handler(j) PROVE canceled \subseteq canceled'
    <3>1. CASE HandlerStarts(j)
      BY <3>1 DEF HandlerStarts, StartAll
    <3>2. CASE HandlerEnds(j)
      BY <3>2 DEF HandlerEnds, Stopped
    <3>3. CASE \/ HandlerTakes(j) \/ HandlerReads(j) \/ HandlerIgnores(j)
               \/ HandlerSends(j) \/ HandlerSendsError(j)
      BY <3>3 DEF HandlerTakes, HandlerReads, HandlerIgnores, HandlerSends, HandlerSendsError, refVars
    <3> QED
      BY <2>3, <3>1, <3>2, <3>3 DEF Handler
  <2> QED
    BY <2>1, <2>2, <2>3, TaskKeeps, SyncerKeeps, OthersKeep DEF Next, allButFunnel, refVars
<1> QED
  BY <1>1, <1>2 DEF CtxDone

\* A step of the funnel other than a delivery, as the goroutines take them.
FunnelMoves ==
    \/ UNCHANGED funnelVars
    \/ NoticeContext
    \/ \E c \in Channels :
          \/ AddInputChannel(c) \/ DrainEnds(c) \/ CloseInput(c)
          \/ \E e \in Events : Send(c, e)

\* A drain keeps what it holds until the reader takes it.
LEMMA HeldIsKept ==
    ASSUME ReporterInv, FunnelMoves, NEW i \in Attempts, drain[i] = "holding"
    PROVE  drain'[i] = "holding" /\ held'[i] = held[i]
<1>1. i \in Channels /\ drain \in [Channels -> {"none", "receiving", "holding", "gone"}]
      /\ held \in [Channels -> Events \cup {NoEvent}]
  BY ReporterAssumption DEF ReporterInv, CountInv, FunnelTypeOK
<1>2. CASE UNCHANGED funnelVars \/ NoticeContext
  BY <1>2 DEF funnelVars, NoticeContext
<1>3. ASSUME NEW c \in Channels, AddInputChannel(c) \/ DrainEnds(c) \/ CloseInput(c)
      PROVE  drain'[i] = "holding" /\ held'[i] = held[i]
  BY <1>1, <1>3 DEF AddInputChannel, DrainEnds, CloseInput
<1>4. ASSUME NEW c \in Channels, NEW e \in Events, Send(c, e)
      PROVE  drain'[i] = "holding" /\ held'[i] = held[i]
  BY <1>1, <1>4 DEF Send
<1> QED
  BY <1>2, <1>3, <1>4 DEF FunnelMoves

\* Only the reader takes anything from the funnel.
LEMMA OnlyReaderTakes ==
    ASSUME ReporterInv, Next
    PROVE  FunnelMoves \/ \E c \in Channels : Delivered(c)
<1> USE SentAreEvents
<1>1. ASSUME NEW j \in Attempts, Attempt(j) PROVE FunnelMoves
  BY <1>1 DEF Attempt, Dropped, Lookup, StopOnNoMatch, SetInformer, JoinFunnel, RefusedByFunnel,
       StartSendsError, RunReturns, CloseChannel, FunnelMoves
<1>2. ASSUME NEW j \in Attempts, Reflector(j) \/ WatchForbidden(j) PROVE FunnelMoves
  BY <1>2 DEF Reflector, List, WatchNotFound, WatchSendsError, WatchForbidden, FunnelMoves
<1>3. ASSUME NEW j \in Attempts, Handler(j) PROVE FunnelMoves
  BY <1>3 DEF Handler, HandlerTakes, HandlerReads, HandlerIgnores, HandlerStarts, HandlerEnds,
              HandlerSends,
       HandlerSendsError, FunnelMoves
<1>4. ASSUME NEW k \in Tasks, Task(k) PROVE FunnelMoves
  BY <1>4 DEF Task, TaskStops, TaskFires, TaskReads, TaskSends, TaskPanics, TaskSendsError, FunnelMoves
<1>5. CASE Syncer
  BY <1>5 DEF Syncer, SyncerJoins, SyncerRefused, RefusalRead, RefusalClosed, SyncerSees, SyncerSends,
       SyncerGivesUp, SyncerCloses, FunnelMoves
<1>6. CASE StopReporter \/ CallerCancels \/ FunnelNotices \/ \E o \in Objects : Change(o)
  BY <1>6 DEF StopReporter, CallerCancels, FunnelNotices, Change, FunnelMoves
<1>7. ASSUME NEW c \in Channels, FunnelDrainEnds(c) PROVE FunnelMoves
  BY <1>7 DEF FunnelDrainEnds, FunnelMoves
<1> QED
  BY <1>1, <1>2, <1>3, <1>4, <1>5, <1>6, <1>7 DEF Next

\* What was on its way stays so while the informer and its handler wait.
LEMMA NewsStays ==
    ASSUME ReporterInv, NewsInv, Next, FunnelMoves, NEW i \in Attempts, NEW o \in Ids,
           Informed(i, o)', phase[i] = "running", i \in listed,
           objs' = objs, got' = got, queue'[i] = queue[i], handler'[i] = handler[i]
    PROVE  OnItsWay(i, o)'
<1>1. Informed(i, o)
  BY ContextsStay DEF Informed, Present
<1>2. OnItsWay(i, o)
  BY <1>1 DEF NewsInv, NewsIsOnItsWay
<1>3. drain[i] = "holding" => drain'[i] = "holding" /\ held'[i] = held[i]
  BY HeldIsKept
<1> QED
  BY <1>2, <1>3, UnreadStep DEF OnItsWay

\* The goroutine of an attempt ends what its informer runs, or runs one that
\* has yet to list.
LEMMA NewsAttempt ==
    ASSUME ReporterInv, NewsInv, Next, NEW j \in Attempts, Attempt(j)
    PROVE  NewsInv'
<1>1. UNCHANGED <<objs, listed, handler, got>>
  BY AttemptKeeps DEF clusterVars, readerVars
<1>2. FunnelMoves
  BY SentAreEvents DEF Attempt, Dropped, Lookup, StopOnNoMatch, SetInformer, JoinFunnel,
                       RefusedByFunnel,
       StartSendsError, RunReturns, CloseChannel, FunnelMoves
<1>3. /\ \A i \in Attempts \ {j} : phase'[i] = phase[i] /\ queue'[i] = queue[i]
      /\ phase[j] = "running" => phase'[j] = "closing"
      /\ phase[j] = "closing" => phase'[j] = "ended"
      /\ phase[j] # "ended"
  BY DEF Attempt, Dropped, Lookup, StopOnNoMatch, SetInformer, JoinFunnel, RefusedByFunnel,
       StartSendsError, RunReturns, CloseChannel, ReporterInv, RefTypes, HandlerTypes
<1>4. ASSUME NEW i \in Attempts, i \in listed'
      PROVE  phase'[i] \in {"running", "closing", "ended"}
  BY <1>1, <1>3, <1>4 DEF NewsInv
<1>5. ASSUME NEW i \in Attempts, NEW o \in Ids, Informed(i, o)'
      PROVE  OnItsWay(i, o)'
  <2>1. i \in listed /\ phase'[i] = "running"
    BY <1>1, <1>5 DEF Informed
  <2>2. i # j
    BY <1>3, <2>1 DEF NewsInv
  <2> QED
    BY <1>1, <1>2, <1>3, <1>5, <2>1, <2>2, NewsStays
<1> QED
  BY <1>4, <1>5 DEF NewsInv, NewsIsOnItsWay

\* A list tells the informer of every object that is there.
LEMMA NewsReflector ==
    ASSUME ReporterInv, NewsInv, Next, NEW j \in Attempts, Reflector(j) \/ WatchForbidden(j)
    PROVE  NewsInv'
<1>1. UNCHANGED <<objs, phase, handler, got>>
  BY ReflectorKeeps DEF clusterVars, readerVars
<1>2. FunnelMoves
  BY SentAreEvents DEF Reflector, List, WatchNotFound, WatchSendsError, WatchForbidden, FunnelMoves
<1>3. ASSUME NEW i \in Attempts, i \in listed'
      PROVE  phase'[i] \in {"running", "closing", "ended"}
  BY <1>1, <1>3 DEF Reflector, List, WatchNotFound, WatchSendsError, WatchForbidden, NewsInv
<1>4. CASE List(j)
  <2>1. phase[j] = "running" /\ listed' = listed \cup {j}
    BY <1>4 DEF List
  <2>2. queue' = [queue EXCEPT ![j] =
                    SetToSeq({[kind |-> "add", obj |-> o, st |-> objs[o].st, ver |-> objs[o].ver]
                                 : o \in {x \in Seen(j) : Present(x)}})]
    BY <1>4 DEF List
  <2>3. DOMAIN queue = Attempts
    BY DEF ReporterInv, HandlerTypes
  <2>4. ASSUME NEW i \in Attempts, NEW o \in Ids, Informed(i, o)'
        PROVE  OnItsWay(i, o)'
    <3>1. CASE i = j
      <4>1. o \in Objects /\ o \in Seen(j) /\ Present(o)
        BY <1>1, <2>4, <3>1, ReporterAssumption DEF Informed, Seen, Present
      <4> DEFINE s == SetToSeq({[kind |-> "add", obj |-> x, st |-> objs[x].st, ver |-> objs[x].ver]
                                 : x \in {y \in Seen(j) : Present(y)}})
      <4>2. \E n \in DOMAIN s : s[n].obj = o /\ s[n].ver = objs[o].ver
        BY <4>1, ListFinds
      <4>3. queue'[i] = s
        BY <2>2, <2>3, <3>1
      <4> HIDE DEF s
      <4> QED
        BY <1>1, <4>2, <4>3 DEF OnItsWay
    <3>2. CASE i # j
      <4>1. queue'[i] = queue[i]
        BY <2>2, <3>2
      <4>2. i \in listed /\ phase[i] = "running"
        BY <1>1, <2>1, <2>4, <3>2 DEF Informed
      <4> QED
        BY <1>1, <1>2, <2>4, <4>1, <4>2, NewsStays
    <3> QED
      BY <3>1, <3>2
  <2> QED
    BY <1>3, <2>4 DEF NewsInv, NewsIsOnItsWay
<1>5. CASE WatchNotFound(j) \/ WatchSendsError(j) \/ WatchForbidden(j)
  <2>1. UNCHANGED <<queue, listed>>
    BY <1>5 DEF WatchNotFound, WatchSendsError, WatchForbidden
  <2>2. ASSUME NEW i \in Attempts, NEW o \in Ids, Informed(i, o)'
        PROVE  OnItsWay(i, o)'
    <3>1. i \in listed /\ phase[i] = "running"
      BY <1>1, <2>1, <2>2 DEF Informed
    <3> QED
      BY <1>1, <1>2, <2>1, <2>2, <3>1, NewsStays
  <2> QED
    BY <1>3, <2>2 DEF NewsInv, NewsIsOnItsWay
<1> QED
  BY <1>4, <1>5 DEF Reflector

\* A handler passes on what it takes, unless its informer was stopped or the
\* status reader fails: then it stops the reporter or ignores the error.
LEMMA NewsHandler ==
    ASSUME ReporterInv, SenderInv, NewsInv, Next, NEW j \in Attempts, Handler(j)
    PROVE  NewsInv'
<1>1. UNCHANGED <<objs, listed, got>>
  BY HandlerKeeps DEF clusterVars, readerVars
<1>2. FunnelMoves
  BY SentAreEvents DEF Handler, HandlerTakes, HandlerReads, HandlerIgnores, HandlerStarts, HandlerEnds,
                       HandlerSends,
       HandlerSendsError, FunnelMoves
<1>3. \A i \in Attempts \ {j} : handler'[i] = handler[i] /\ queue'[i] = queue[i]
  BY DEF Handler, HandlerTakes, HandlerReads, HandlerIgnores, HandlerStarts, HandlerEnds, HandlerSends,
     HandlerSendsError, ReporterInv, HandlerTypes
<1>4. ASSUME NEW i \in Attempts, i \in listed
      PROVE  phase'[i] = phase[i]
  <2>1. CASE HandlerStarts(j)
    <3>1. phase'[i] = phase[i] \/ \E t \in Targets : i[1] = t /\ i[2] = refs[t].starts + 1
      BY <2>1, TargetSets DEF HandlerStarts, StartAll
    <3>2. i[1] \in Targets /\ refs[i[1]].starts \in Nat
      BY TargetSets, ReporterAssumption DEF ReporterInv, RefTypes
    <3>3. phase[i] # "unused"
      BY <1>4 DEF NewsInv
    <3> QED
      BY <3>1, <3>2, <3>3 DEF SenderInv
  <2>2. CASE \/ HandlerTakes(j) \/ HandlerReads(j) \/ HandlerIgnores(j)
             \/ HandlerEnds(j) \/ HandlerSends(j) \/ HandlerSendsError(j)
    BY <2>2 DEF HandlerTakes, HandlerReads, HandlerIgnores, HandlerEnds, HandlerSends, HandlerSendsError
  <2> QED
    BY <2>1, <2>2 DEF Handler
<1>5. ASSUME NEW i \in Attempts, NEW o \in Ids, Informed(i, o)', i # j
      PROVE  OnItsWay(i, o)'
  <2>1. i \in listed /\ phase[i] = "running"
    BY <1>1, <1>4, <1>5 DEF Informed
  <2> QED
    BY <1>1, <1>2, <1>3, <1>5, <2>1, NewsStays
<1>6. ASSUME NEW o \in Ids, Informed(j, o)'
      PROVE  OnItsWay(j, o)'
  <2>1. Informed(j, o) /\ ~CtxDone(j)
    BY <1>1, <1>4, <1>6, ContextsStay DEF Informed, Present
  <2>2. OnItsWay(j, o)
    BY <2>1 DEF NewsInv, NewsIsOnItsWay
  <2>3. drain[j] = "holding" => drain'[j] = "holding" /\ held'[j] = held[j]
    BY <1>2, HeldIsKept
  <2>4. CASE \/ objs[o].ver <= got[o] \/ (drain[j] = "holding" /\ held[j] = Update(o, objs[o].ver))
             \/ <<j, o, objs[o].ver>> \in unread
    BY <1>1, <2>3, <2>4, UnreadStep DEF OnItsWay
  <2>5. CASE \E n \in DOMAIN queue[j] : queue[j][n].obj = o /\ queue[j][n].ver = objs[o].ver
    <3>1. PICK n \in DOMAIN queue[j] : queue[j][n].obj = o /\ queue[j][n].ver = objs[o].ver
      BY <2>5
    <3>2. queue[j] \in Seq(Notes)
      BY DEF ReporterInv, HandlerTypes
    <3>3. CASE HandlerTakes(j)
      <4>1. queue'[j] = Tail(queue[j]) /\ queue[j] # << >>
        BY <3>3 DEF HandlerTakes, ReporterInv, HandlerTypes
      <4>2. CASE n = 1
        <5>1. Head(queue[j]) = queue[j][1]
          BY <3>2, <4>1
        <5>2. handler'[j] = [pc |-> IF Head(queue[j]).kind = "delete" THEN "hook" ELSE "read",
                             note |-> Head(queue[j])]
          BY <2>1, <3>1, <3>3, <4>2, <5>1 DEF HandlerTakes, ReporterInv, HandlerTypes
        <5>3. handler'[j].pc \in {"read", "hook"} /\ handler'[j].note = queue[j][n]
          BY <4>2, <5>1, <5>2
        <5> QED
          BY <1>1, <3>1, <5>3 DEF OnItsWay
      <4>3. CASE n # 1
        <5>1. n - 1 \in DOMAIN Tail(queue[j]) /\ Tail(queue[j])[n - 1] = queue[j][n]
          BY <3>1, <3>2, <4>1, <4>3
        <5> QED
          BY <1>1, <3>1, <4>1, <5>1 DEF OnItsWay
      <4> QED
        BY <4>2, <4>3
    <3>4. CASE ~HandlerTakes(j)
      <4>1. queue' = queue
        BY <3>4 DEF Handler, HandlerReads, HandlerIgnores, HandlerStarts, HandlerEnds, HandlerSends,
                    HandlerSendsError
      <4> QED
        BY <1>1, <3>1, <4>1 DEF OnItsWay
    <3> QED
      BY <3>3, <3>4
  <2>6. CASE /\ handler[j].pc \in {"read", "hook", "send"}
             /\ handler[j].note.obj = o /\ handler[j].note.ver = objs[o].ver
    <3>1. handler \in [Attempts -> [pc : HandlerPlaces, note : Notes \cup {NoNote}]]
      BY DEF ReporterInv, HandlerTypes, HandlerPlaces
    <3>2. CASE HandlerReads(j)
      <4>1. \E p \in {"hook", "failing"} : handler' = [handler EXCEPT ![j].pc = p]
        BY <2>1, <3>2 DEF HandlerReads
      <4>2. handler'[j].pc \in {"hook", "failing"} /\ handler'[j].note = handler[j].note
        BY <3>1, <4>1
      <4> QED
        BY <1>1, <2>6, <4>2 DEF OnItsWay
    <3>3. CASE HandlerStarts(j) \/ HandlerEnds(j)
      <4>1. handler' = [handler EXCEPT ![j].pc = "send"]
        BY <3>3 DEF HandlerStarts, HandlerEnds
      <4>2. handler'[j].pc = "send" /\ handler'[j].note = handler[j].note
        BY <3>1, <4>1
      <4> QED
        BY <1>1, <2>6, <4>2 DEF OnItsWay
    <3>4. CASE HandlerSends(j)
      <4>1. j \in Channels
        BY ReporterAssumption
      <4>2. drain'[j] = "holding" /\ held'[j] = Update(o, objs[o].ver)
        BY <2>6, <3>4, <4>1 DEF HandlerSends, Send, ReporterInv, CountInv, FunnelTypeOK
      <4> QED
        BY <1>1, <4>2 DEF OnItsWay
    <3>5. CASE HandlerIgnores(j)
      <4>1. <<j, o, objs[o].ver>> \in unread'
        BY <2>1, <2>6, <3>5 DEF HandlerIgnores
      <4> QED
        BY <1>1, <4>1 DEF OnItsWay
    <3>6. ~HandlerTakes(j) /\ ~HandlerSendsError(j)
      BY <2>6 DEF HandlerTakes, HandlerSendsError
    <3> QED
      BY <3>2, <3>3, <3>4, <3>5, <3>6 DEF Handler
  <2>7. CASE handler[j].pc \in {"failing", "stopping"}
    <3>1. HandlerSendsError(j)
      BY <2>7 DEF Handler, HandlerTakes, HandlerReads, HandlerIgnores, HandlerStarts, HandlerEnds,
                  HandlerSends
    <3>2. handler'[j].pc = "stopping"
      BY <3>1 DEF HandlerSendsError, ReporterInv, HandlerTypes
    <3> QED
      BY <3>2 DEF OnItsWay
  <2> QED
    BY <2>2, <2>4, <2>5, <2>6, <2>7 DEF OnItsWay
<1> QED
  BY <1>1, <1>4, <1>5, <1>6 DEF NewsInv, NewsIsOnItsWay

\* The reader has what the drain held for it, and never loses what it has.
LEMMA NewsDelivered ==
    ASSUME ReporterInv, NewsInv, Next, NEW c \in Channels, Delivered(c)
    PROVE  NewsInv'
<1>1. UNCHANGED <<objs, listed, phase, queue, handler, unread>>
  BY OthersKeep DEF clusterVars
<1>2. ASSUME NEW i \in Attempts, NEW o \in Ids, Informed(i, o)'
      PROVE  OnItsWay(i, o)'
  <2>1. Informed(i, o)
    BY <1>1, <1>2, ContextsStay DEF Informed, Present
  <2>2. OnItsWay(i, o)
    BY <2>1 DEF NewsInv, NewsIsOnItsWay
  <2>3. o \in Objects /\ got \in [Objects -> 0 .. MaxChanges + 1] /\ MaxChanges \in Nat
        /\ objs[o].ver \in 0 .. MaxChanges + 1
    BY ReporterAssumption DEF ReporterInv, ReaderTypes, ClusterTypes
  <2>4. got'[o] \in Int /\ got[o] <= got'[o]
    <3>1. got' \in [Objects -> 0 .. MaxChanges + 1]
      BY ReaderStep DEF ReaderTypes
    <3>2. got' = got \/ (held[c].ver > got[held[c].obj] /\ got' = [got EXCEPT ![held[c].obj] = held[c].ver])
      BY DEF Delivered
    <3> QED
      BY <2>3, <3>1, <3>2
  <2>5. CASE objs[o].ver <= got[o]
    BY <1>1, <2>3, <2>4, <2>5 DEF OnItsWay
  <2>6. CASE drain[i] = "holding" /\ held[i] = Update(o, objs[o].ver)
    <3>1. CASE c = i
      <4>1. held[c].type = "update" /\ held[c].obj = o /\ held[c].ver = objs[o].ver
        BY <2>6, <3>1 DEF Update
      <4>2. got' = IF objs[o].ver > got[o] THEN [got EXCEPT ![o] = objs[o].ver] ELSE got
        BY <4>1 DEF Delivered
      <4>3. objs[o].ver <= got'[o]
        BY <2>3, <4>2
      <4> QED
        BY <1>1, <4>3 DEF OnItsWay
    <3>2. CASE c # i
      <4>1. drain'[i] = drain[i] /\ held'[i] = held[i]
        BY <3>2, ReporterAssumption DEF Delivered, Forward, ReporterInv, CountInv, FunnelTypeOK
      <4> QED
        BY <1>1, <2>6, <4>1 DEF OnItsWay
    <3> QED
      BY <3>1, <3>2
  <2>7. CASE ~(objs[o].ver <= got[o]) /\ ~(drain[i] = "holding" /\ held[i] = Update(o, objs[o].ver))
    BY <1>1, <2>2, <2>7 DEF OnItsWay
  <2> QED
    BY <2>5, <2>6, <2>7
<1> QED
  BY <1>1, <1>2 DEF NewsInv, NewsIsOnItsWay

\* A change of the cluster is queued with every informer that watches.
LEMMA NewsChange ==
    ASSUME ReporterInv, NewsInv, Next, NEW x \in Objects, Change(x)
    PROVE  NewsInv'
<1>1. UNCHANGED <<listed, phase, handler, unread, got, canceled, ctxDone>> /\ FunnelMoves
  BY DEF Change, refVars, readerVars, FunnelMoves
<1>2. PICK s \in States :
        /\ objs' = [objs EXCEPT ![x] = [st |-> s, ver |-> objs[x].ver + 1]]
        /\ LET kind == IF s = "absent" THEN "delete" ELSE IF Present(x) THEN "update" ELSE "add"
               note == [kind |-> kind, obj |-> x, st |-> s, ver |-> objs[x].ver + 1]
           IN  queue' = [i \in Attempts |->
                            IF Sees(i[1], x) /\ phase[i] = "running" /\ i \in listed /\ ~CtxDone(i)
                            THEN Append(queue[i], note) ELSE queue[i]]
  BY DEF Change
<1> DEFINE kind == IF s = "absent" THEN "delete" ELSE IF Present(x) THEN "update" ELSE "add"
           note == [kind |-> kind, obj |-> x, st |-> s, ver |-> objs[x].ver + 1]
<1>3. note.obj = x /\ note.ver = objs[x].ver + 1
  OBVIOUS
<1>4. objs \in [Objects -> [st : States, ver : 0 .. MaxChanges + 1]]
  BY DEF ReporterInv, ClusterTypes
<1>5. objs'[x].ver = objs[x].ver + 1 /\ \A y \in Objects \ {x} : objs'[y] = objs[y]
  BY <1>2, <1>4
<1>6. \A i \in Attempts :
        /\ queue[i] \in Seq(Notes)
        /\ queue'[i] = queue[i] \/ queue'[i] = Append(queue[i], note)
        /\ Sees(i[1], x) /\ phase[i] = "running" /\ i \in listed /\ ~CtxDone(i)
              => queue'[i] = Append(queue[i], note)
  BY <1>2 DEF ReporterInv, HandlerTypes
<1> HIDE DEF note, kind
<1>7. ASSUME NEW i \in Attempts, NEW o \in Ids, Informed(i, o)'
      PROVE  OnItsWay(i, o)'
  <2>1. phase[i] = "running" /\ i \in listed /\ ~CtxDone(i) /\ Sees(i[1], o) /\ o \in Objects
    BY <1>1, <1>7, ReporterAssumption DEF Informed, CtxDone
  <2>2. CASE o = x
    <3>1. queue'[i] = Append(queue[i], note)
      BY <1>6, <2>1, <2>2
    <3>2. /\ Len(queue[i]) + 1 \in DOMAIN queue'[i]
          /\ queue'[i][Len(queue[i]) + 1] = note
      BY <1>6, <3>1
    <3> QED
      BY <1>3, <1>5, <2>2, <3>2 DEF OnItsWay
  <2>3. CASE o # x
    <3>1. objs'[o] = objs[o]
      BY <1>5, <2>1, <2>3
    <3>2. Informed(i, o)
      BY <1>7, <2>1, <3>1 DEF Informed, Present
    <3>3. OnItsWay(i, o)
      BY <3>2 DEF NewsInv, NewsIsOnItsWay
    <3>4. drain[i] = "holding" => drain'[i] = "holding" /\ held'[i] = held[i]
      BY <1>1, HeldIsKept
    <3>5. \A n \in DOMAIN queue[i] : n \in DOMAIN queue'[i] /\ queue'[i][n] = queue[i][n]
      BY <1>6
    <3> QED
      BY <1>1, <3>1, <3>3, <3>4, <3>5 DEF OnItsWay
  <2> QED
    BY <2>2, <2>3
<1> QED
  BY <1>1, <1>7 DEF NewsInv, NewsIsOnItsWay

\* The scheduled checks, the end of Start, the caller and the funnel's own
\* steps leave what is on its way alone; a stopped reporter owes nothing.
LEMMA NewsOthers ==
    ASSUME ReporterInv, NewsInv, Next,
           \/ \E k \in Tasks : Task(k)
           \/ Syncer \/ StopReporter \/ FunnelNotices \/ CallerCancels
           \/ \E c \in Channels : FunnelDrainEnds(c)
    PROVE  NewsInv'
<1>1. CASE StopReporter
  <2>1. ctxDone' /\ listed' = listed
    BY <1>1 DEF StopReporter
  <2>2. \A i \in Attempts : phase'[i] = phase[i] \/ phase[i] = "stopping"
    BY <1>1 DEF StopReporter, ReporterInv, RefTypes
  <2>3. \A i \in Attempts, o \in Ids : ~Informed(i, o)'
    BY <2>1 DEF Informed, CtxDone
  <2>4. \A i \in Attempts : i \in listed' => phase'[i] \in {"running", "closing", "ended"}
    BY <2>1, <2>2 DEF NewsInv
  <2> QED
    BY <2>3, <2>4 DEF NewsInv, NewsIsOnItsWay
<1>2. CASE ~StopReporter
  <2>1. UNCHANGED <<objs, listed, phase, queue, handler, got>>
    BY <1>2, TaskKeeps, SyncerKeeps, OthersKeep DEF allButFunnel, clusterVars, readerVars
  <2>2. FunnelMoves
    <3>1. ASSUME NEW k \in Tasks, Task(k) PROVE FunnelMoves
      BY <3>1, SentAreEvents
         DEF Task, TaskStops, TaskFires, TaskReads, TaskSends, TaskPanics, TaskSendsError, FunnelMoves
    <3>2. CASE Syncer
      BY <3>2, SentAreEvents
         DEF Syncer, SyncerJoins, SyncerRefused, RefusalRead, RefusalClosed, SyncerSees, SyncerSends,
             SyncerGivesUp, SyncerCloses, FunnelMoves
    <3>3. CASE FunnelNotices \/ CallerCancels \/ \E c \in Channels : FunnelDrainEnds(c)
      BY <3>3 DEF FunnelNotices, CallerCancels, FunnelDrainEnds, FunnelMoves
    <3> QED
      BY <1>2, <3>1, <3>2, <3>3
  <2>3. ASSUME NEW i \in Attempts, NEW o \in Ids, Informed(i, o)'
        PROVE  OnItsWay(i, o)'
    <3>1. i \in listed /\ phase[i] = "running"
      BY <2>1, <2>3 DEF Informed
    <3> QED
      BY <2>1, <2>2, <2>3, <3>1, NewsStays
  <2> QED
    BY <2>1, <2>3 DEF NewsInv, NewsIsOnItsWay
<1> QED
  BY <1>1, <1>2

\* On the way of the newest version of an object that is there and watched,
\* from the cluster to the reader of the channel, nothing is lost but what a
\* handler leaves out for an error that handleFatalError ignores: an informer
\* that lists late lists it, a change after the list is queued, and what is
\* queued is otherwise only dropped by a reporter that is stopping.
THEOREM NewsIsOnItsWayHolds == Spec => []NewsIsOnItsWay
<1>1. Init => NewsInv
  BY DEF Init, NewsInv, NewsIsOnItsWay, Informed
<1>2. ReporterInv /\ SenderInv /\ NewsInv /\ [Next]_vars => NewsInv'
  <2>1. ASSUME NewsInv, UNCHANGED vars PROVE NewsInv'
    BY <2>1 DEF vars, allButFunnel, funnelVars, clusterVars, refVars, readerVars,
                NewsInv, NewsIsOnItsWay, Informed, OnItsWay, CtxDone, Present
  <2>2. ASSUME ReporterInv, SenderInv, NewsInv, Next PROVE NewsInv'
    BY <2>2, NewsAttempt, NewsReflector, NewsHandler, NewsDelivered, NewsChange, NewsOthers DEF Next
  <2> QED
    BY <2>1, <2>2
<1>3. NewsInv => NewsIsOnItsWay
  BY DEF NewsInv
<1> QED
  BY <1>1, <1>2, <1>3, ReporterInvHolds, SenderInvHolds, PTL DEF Spec

----------------------------------------------------------------------------
(* A stopped reporter is never stuck.                                      *)

\* What is left to do in an attempt when the context is done: StopReporter or
\* CloseChannel, RunReturns, a step of its handler or its reflector, or a send
\* that the drain receives.
AttemptGoesOn(i) ==
    \/ phase[i] \in {"stopping", "closing"}
    \/ phase[i] = "running" /\ handler[i].pc = "idle" /\ watchErr[i] = "idle"
    \/ handler[i].pc \in {"read", "hook", "stopping"} \/ watchErr[i] = "stopping"
    \/ phase[i] = "reporting" \/ handler[i].pc \in {"send", "failing"} \/ watchErr[i] = "sending"

\* Until the caller sees its channel closed, a stopped reporter has a step to
\* make, the reader to serve or Start to finish: a handler in the middle of an
\* event, a start that fails late, an informer that joins a funnel that is
\* closing, none of them leaves the others waiting. The channel of a goroutine
\* that has something to send is open and its drain receives
\* (object_status_reporter.go:129-371, 432-579, 690-770, event_funnel.go:40-105).
StopGoesOn ==
    ctxDone /\ ~panicked =>
        \/ Closed
        \/ syncer \in {"unstarted", "waiting", "refused", "refusedSent"}
        \/ ~ctxNoticed /\ ~outClosed
        \/ \E c \in Channels : drain[c] = "holding" /\ Returned /\ ~outClosed
        \/ \E c \in Channels : drain[c] = "receiving" /\ inClosed[c] /\ ~outClosed
        \/ \E i \in Attempts : drain[i] = "receiving" /\ ~inClosed[i] /\ AttemptGoesOn(i)
        \/ /\ syncer \in {"sending", "closing"}
           /\ drain[SyncChannel] = "receiving" /\ ~inClosed[SyncChannel]

\* The funnel is closed as soon as it may be, and an open channel in it has an
\* owner that has yet to close it.
OwnersInv ==
    /\ outClosed <=> (ctxNoticed /\ inputs <= 0)
    /\ \A i \in Attempts :
          drain[i] # "none" =>
             phase[i] \in {"running", "reporting", "stopping", "closing"} \/ inClosed[i]
    /\ drain[SyncChannel] # "none" =>
          syncer \in {"waiting", "sending", "closing"} \/ inClosed[SyncChannel]

\* Every turn of the loop ends with the test that closes the output.
LEMMA ClosedByTest ==
    ASSUME outClosed <=> (ctxNoticed /\ inputs <= 0), [FunnelNext]_<<ctxDone, funnelVars>>
    PROVE  outClosed' <=> (ctxNoticed' /\ inputs' <= 0)
<1>1. CASE \E delta \in {-1, 0, 1}, noticed \in BOOLEAN : Turn(delta, noticed)
  BY <1>1 DEF Turn
<1>2. CASE UNCHANGED <<outClosed, ctxNoticed, inputs>>
  BY <1>2
<1>3. \/ \E delta \in {-1, 0, 1}, noticed \in BOOLEAN : Turn(delta, noticed)
      \/ UNCHANGED <<outClosed, ctxNoticed, inputs>>
  BY DEF FunnelNext, NoticeContext, CancelContext, AddInputChannel, Send, Forward,
         DrainEnds, CloseInput, funnelVars
<1> QED
  BY <1>1, <1>2, <1>3

\* Whoever neither starts an informer nor ends Start opens and closes nothing.
LEMMA DrainsKept ==
    ASSUME ReporterInv, Next, \A i \in Attempts : ~Attempt(i), ~Syncer
    PROVE  /\ inClosed' = inClosed
           /\ \A c \in Channels : drain'[c] # "none" => drain[c] # "none"
<1> USE DEF ReporterInv, CountInv, FunnelTypeOK
<1>1. ASSUME NEW i \in Attempts, Reflector(i) \/ WatchForbidden(i) \/ Handler(i)
      PROVE  UNCHANGED funnelVars \/ \E c \in Channels : \E e \in Events : Send(c, e)
  BY <1>1, SentAreEvents DEF Reflector, List, WatchNotFound, WatchSendsError, WatchForbidden,
       Handler, HandlerTakes, HandlerReads, HandlerIgnores, HandlerStarts, HandlerEnds, HandlerSends,
       HandlerSendsError
<1>2. ASSUME NEW k \in Tasks, Task(k)
      PROVE  UNCHANGED funnelVars \/ \E c \in Channels : \E e \in Events : Send(c, e)
  BY <1>2, SentAreEvents
     DEF Task, TaskStops, TaskFires, TaskReads, TaskSends, TaskPanics, TaskSendsError
<1>3. CASE UNCHANGED funnelVars \/ NoticeContext
  BY <1>3 DEF funnelVars, NoticeContext
<1>4. CASE \E c \in Channels : \E e \in Events : Send(c, e)
  BY <1>4 DEF Send
<1>5. CASE \E c \in Channels : Forward(c) \/ DrainEnds(c)
  BY <1>5 DEF Forward, DrainEnds
<1>6. StopReporter \/ CallerCancels \/ (\E o \in Objects : Change(o)) => UNCHANGED funnelVars
  BY DEF StopReporter, CallerCancels, Change
<1>7. /\ FunnelNotices => NoticeContext
      /\ \A c \in Channels : (Delivered(c) => Forward(c)) /\ (FunnelDrainEnds(c) => DrainEnds(c))
  BY DEF FunnelNotices, Delivered, FunnelDrainEnds
<1> QED
  BY <1>1, <1>2, <1>3, <1>4, <1>5, <1>6, <1>7 DEF Next

\* An attempt has its channel in the funnel from the moment its informer runs,
\* or its error is reported, until the channel is closed.
LEMMA OwnersAttempt ==
    ASSUME ReporterInv, SenderInv, OwnersInv, NEW j \in Attempts, Attempt(j), NEW i \in Attempts,
           drain'[i] # "none"
    PROVE  phase'[i] \in {"running", "reporting", "stopping", "closing"} \/ inClosed'[i]
<1>0. /\ i \in Channels /\ j \in Channels
      /\ drain \in [Channels -> {"none", "receiving", "holding", "gone"}]
      /\ inClosed \in [Channels -> BOOLEAN]
      /\ phase \in [Attempts -> {"unused", "lookup", "nomatch", "failed", "refused", "reporting",
                               "stopping", "found", "adding", "running", "closing", "ended"}]
  BY ReporterAssumption DEF ReporterInv, CountInv, FunnelTypeOK, RefTypes
<1>1. drain[i] # "none" =>
         phase[i] \in {"running", "reporting", "stopping", "closing"} \/ phase[i] = "ended"
  BY DEF OwnersInv, SenderInv
<1>2. CASE i # j
  <2>1. phase'[i] = phase[i] /\ drain'[i] = drain[i] /\ inClosed'[i] = inClosed[i]
    BY <1>0, <1>2 DEF Attempt, Dropped, Lookup, StopOnNoMatch, SetInformer, JoinFunnel, RefusedByFunnel,
         StartSendsError, RunReturns, CloseChannel, funnelVars, AddInputChannel, Send, CloseInput
  <2> QED
    BY <2>1 DEF OwnersInv
<1>3. CASE i = j
  <2>1. CASE JoinFunnel(j)
    BY <1>0, <1>3, <2>1 DEF JoinFunnel
  <2>2. CASE StartSendsError(j) \/ RunReturns(j)
    BY <1>0, <1>3, <2>2 DEF StartSendsError, RunReturns
  <2>3. CASE CloseChannel(j)
    BY <1>0, <1>3, <2>3 DEF CloseChannel, CloseInput
  <2>4. CASE Dropped(j) \/ Lookup(j) \/ StopOnNoMatch(j) \/ SetInformer(j) \/ RefusedByFunnel(j)
    <3>1. drain'[i] = drain[i]
      BY <2>4 DEF Dropped, Lookup, StopOnNoMatch, SetInformer, RefusedByFunnel, funnelVars
    <3>2. phase[i] \in {"lookup", "nomatch", "found", "adding", "failed", "refused"}
      BY <1>3, <2>4 DEF Dropped, Lookup, StopOnNoMatch, SetInformer, RefusedByFunnel
    <3> QED
      BY <1>1, <3>1, <3>2
  <2> QED
    BY <2>1, <2>2, <2>3, <2>4 DEF Attempt
<1> QED
  BY <1>2, <1>3

\* A step keeps the owners of the inputs.
LEMMA OwnersStep ==
    ASSUME ReporterInv, SenderInv, OwnersInv, Next
    PROVE  OwnersInv'
<1>0. /\ Attempts \subseteq Channels /\ SyncChannel \in Channels /\ SyncChannel \notin Attempts
      /\ drain \in [Channels -> {"none", "receiving", "holding", "gone"}]
      /\ inClosed \in [Channels -> BOOLEAN]
  BY ReporterAssumption DEF ReporterInv, CountInv, FunnelTypeOK
<1>1. outClosed' <=> (ctxNoticed' /\ inputs' <= 0)
  BY StepOfFunnel, ClosedByTest DEF OwnersInv
<1>2. ASSUME NEW j \in Attempts, Attempt(j) PROVE OwnersInv'
  <2>1. UNCHANGED <<drain[SyncChannel], inClosed[SyncChannel], syncer>>
    <3>1. syncer' = syncer
      BY <1>2, AttemptKeeps
    <3> QED
      BY <1>0, <1>2, <3>1 DEF Attempt, Dropped, Lookup, StopOnNoMatch, SetInformer, JoinFunnel,
         RefusedByFunnel, StartSendsError, RunReturns, CloseChannel, funnelVars, AddInputChannel,
         Send, CloseInput
  <2> QED
    BY <1>1, <1>2, <2>1, OwnersAttempt DEF OwnersInv
<1>3. CASE Syncer
  <2>1. phase' = phase
    BY <1>3, SyncerKeeps
  <2>2. \A i \in Attempts : drain'[i] = drain[i] /\ inClosed'[i] = inClosed[i]
    BY <1>0, <1>3 DEF Syncer, SyncerJoins, SyncerRefused, RefusalRead, RefusalClosed, SyncerSees,
       SyncerSends, SyncerGivesUp, SyncerCloses, funnelVars, AddInputChannel, Send, CloseInput
  <2>3. drain'[SyncChannel] # "none" =>
          syncer' \in {"waiting", "sending", "closing"} \/ inClosed'[SyncChannel]
    <3>1. CASE SyncerJoins \/ SyncerSees \/ SyncerSends \/ SyncerGivesUp
      BY <3>1 DEF SyncerJoins, SyncerSees, SyncerSends, SyncerGivesUp, SyncerStep
    <3>2. CASE SyncerCloses
      BY <1>0, <3>2 DEF SyncerCloses, CloseInput
    <3>3. CASE SyncerRefused \/ RefusalRead \/ RefusalClosed
      BY <3>3 DEF SyncerRefused, RefusalRead, RefusalClosed, SyncerStep, funnelVars, OwnersInv
    <3> QED
      BY <1>3, <3>1, <3>2, <3>3 DEF Syncer
  <2> QED
    BY <1>1, <2>1, <2>2, <2>3 DEF OwnersInv
<1>4. CASE (\A i \in Attempts : ~Attempt(i)) /\ ~Syncer
  <2>1. /\ inClosed' = inClosed
        /\ \A c \in Channels : drain'[c] # "none" => drain[c] # "none"
    BY <1>4, DrainsKept
  <2>2. syncer' = syncer
    BY <1>4, ReflectorKeeps, HandlerKeeps, TaskKeeps, OthersKeep DEF Next, allButFunnel
  <2>3. ASSUME NEW i \in Attempts, drain[i] # "none", ~inClosed[i]
        PROVE  phase'[i] \in {"running", "reporting", "stopping", "closing"}
    <3>1. phase[i] \in {"running", "reporting", "stopping", "closing"}
      BY <2>3 DEF OwnersInv
    <3>2. ASSUME NEW j \in Attempts, HandlerStarts(j)
          PROVE  phase'[i] = phase[i]
      <4>1. phase'[i] = phase[i] \/ i[2] = refs[i[1]].starts + 1
        BY <3>2 DEF HandlerStarts, StartAll
      <4>2. i[1] \in Targets /\ refs[i[1]].starts \in Nat
        BY TargetSets, ReporterAssumption DEF ReporterInv, RefTypes
      <4> QED
        BY <3>1, <4>1, <4>2 DEF SenderInv
    <3>3. CASE StopReporter
      BY <3>1, <3>3 DEF StopReporter, ReporterInv, RefTypes
    <3>4. ASSUME NEW j \in Attempts, Handler(j), ~HandlerStarts(j)
          PROVE  phase'[i] = phase[i]
      BY <3>4 DEF Handler, HandlerTakes, HandlerReads, HandlerIgnores, HandlerEnds, HandlerSends,
                  HandlerSendsError
    <3> QED
      BY <1>4, <3>1, <3>2, <3>3, <3>4, ReflectorKeeps, TaskKeeps, OthersKeep DEF Next, allButFunnel
  <2> QED
    BY <1>0, <1>1, <2>1, <2>2, <2>3 DEF OwnersInv
<1> QED
  BY <1>2, <1>3, <1>4

\* If no input is left the output is closed; if one is left its drain or its
\* owner goes on.
LEMMA OwnersGoOn ==
    ASSUME ReporterInv, OwnersInv
    PROVE  StopGoesOn
<1> SUFFICES ASSUME ctxDone, ~panicked, ~Closed, ctxNoticed \/ outClosed,
                    syncer \notin {"unstarted", "waiting", "refused", "refusedSent"}
             PROVE  \/ \E c \in Channels : drain[c] = "holding" /\ Returned /\ ~outClosed
                    \/ \E c \in Channels : drain[c] = "receiving" /\ inClosed[c] /\ ~outClosed
                    \/ \E i \in Attempts : drain[i] = "receiving" /\ ~inClosed[i] /\ AttemptGoesOn(i)
                    \/ /\ syncer \in {"sending", "closing"}
                       /\ drain[SyncChannel] = "receiving" /\ ~inClosed[SyncChannel]
  BY DEF StopGoesOn
<1>1. Returned /\ ~outClosed /\ ctxNoticed
  BY DEF Closed, Returned, ReporterInv, SyncerTypes
<1>2. Open # {}
  <2>1. inputs \in Nat /\ ~(inputs <= 0) /\ inputs = Cardinality(Open)
    BY <1>1, OpenFinite DEF OwnersInv, ReporterInv, CountInv
  <2> QED
    BY <2>1, FS_EmptySet
<1>3. PICK c \in Channels : drain[c] \in {"receiving", "holding"}
  BY <1>2 DEF Open
<1>4. CASE drain[c] = "holding" \/ inClosed[c]
  BY <1>1, <1>3, <1>4
<1>5. CASE drain[c] = "receiving" /\ ~inClosed[c] /\ c \in Attempts
  <2>1. phase[c] \in {"running", "reporting", "stopping", "closing"}
    BY <1>5 DEF OwnersInv
  <2>2. /\ handler[c].pc \in {"idle", "read", "hook", "send", "failing", "stopping"}
        /\ watchErr[c] \in {"idle", "sending", "stopping"}
    BY <1>5 DEF ReporterInv, HandlerTypes
  <2>3. AttemptGoesOn(c)
    BY <2>1, <2>2 DEF AttemptGoesOn
  <2> QED
    BY <1>5, <2>3
<1>6. CASE drain[c] = "receiving" /\ ~inClosed[c] /\ c = SyncChannel
  BY <1>6 DEF OwnersInv
<1> QED
  BY <1>3, <1>4, <1>5, <1>6, ReporterAssumption

\* A reporter whose context is done always has something to do until its
\* channel is closed, so the reader, which waits for that, is not left waiting
\* by a deadlock.
THEOREM StopGoesOnHolds == Spec => []StopGoesOn
<1>1. Init => OwnersInv
  BY ReporterAssumption DEF Init, FunnelInit, OwnersInv
<1>2. ReporterInv /\ SenderInv /\ OwnersInv /\ [Next]_vars => OwnersInv'
  <2>1. OwnersInv /\ UNCHANGED vars => OwnersInv'
    BY DEF vars, allButFunnel, funnelVars, OwnersInv
  <2> QED
    BY <2>1, OwnersStep
<1>3. ReporterInv /\ OwnersInv => StopGoesOn
  BY OwnersGoOn
<1> QED
  BY <1>1, <1>2, <1>3, ReporterInvHolds, SenderInvHolds, PTL DEF Spec
=============================================================================
