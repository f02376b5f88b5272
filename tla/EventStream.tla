----------------------------- MODULE EventStream -----------------------------
(***************************************************************************)
(* The events of one run and the printer that reads them.  Producers are   *)
(* the goroutine of Applier.Run or Destroyer.Run, the task it is at and    *)
(* the end of a wait task; what they decide is the subject of TaskRunner   *)
(* and InventoryPipeline, and here only the events they may send in which  *)
(* order.  The channel is unbuffered, so that a printer which stops        *)
(* reading stops the run.  Printers: BaseListPrinter (events, json) and    *)
(* the table printer, whose collector and print loop are goroutines.       *)
(***************************************************************************)
EXTENDS Integers, FiniteSets, Sequences, SequencesExt

CONSTANTS
    Objects,   \* objects of the run
    Plans,     \* [errors, groups]: validation errors and action groups of a run
    Printers,  \* subset of events, json, table
    Policies,  \* subset of ExitEarly, SkipInvalid
    MaxUpdates \* bound: statuses the watcher delivers

Actuated == {"Apply", "Prune", "Delete"}
Actions == Actuated \cup {"Wait", "Inventory"}
Outcomes == {"Successful", "Skipped", "Failed"}
WaitStatuses == Outcomes \cup {"Pending", "Timeout"}

ASSUME StreamAssumption ==
    /\ Plans \subseteq [errors : Seq(SUBSET Objects \ {{}}),
                        groups : Seq([action : Actions, ids : SUBSET Objects])]
    /\ Printers \subseteq {"events", "json", "table"}
    /\ Policies \subseteq {"ExitEarly", "SkipInvalid"}
    /\ IsFiniteSet(Objects)

\* What the task queue builder makes of a run: an object is in one set that is
\* actuated, and the objects of a wait are those of the set before it.
WellBuilt(groups) ==
    /\ \A i, j \in DOMAIN groups :
         i # j /\ {groups[i].action, groups[j].action} \subseteq Actuated =>
             groups[i].ids \cap groups[j].ids = {}
    /\ \A i \in DOMAIN groups : groups[i].action = "Wait" =>
         \E j \in 1..(i - 1) :
             groups[j].action \in Actuated /\ groups[i].ids \subseteq groups[j].ids

ASSUME GroupsAssumption == \A p \in Plans : WellBuilt(p.groups)

VARIABLES
    printer, policy, plan,
    \* Producers.
    stage,    \* how far Run is
    at,       \* the next validation error, then the group of the runner
    left,     \* objects the task has yet to start, or to time out
    pending,  \* pending of the wait task
    failed,   \* failed of the wait task
    abort,    \* abort of the runner, or an error of the task
    updates,  \* bound: statuses delivered so far
    acted,    \* outcome of the actuation of each object
    waited,   \* the last wait event of each object
    current,  \* the last status event of each object
    chan,     \* the event somebody is sending, or NoEvent
    \* The printer.
    reader,   \* where the goroutine that reads the channel is
    stats,    \* stats.Stats
    infos,    \* resourceInfos of the table's collector
    err,      \* an error event was read, or a formatter failed
    shown,    \* the last table printed
    result    \* what Print returned

task      == <<left, pending, failed>>
told      == <<acted, waited, current>>
producing == <<stage, at, task, abort, updates, told>>
printing  == <<reader, stats, infos, err, shown, result>>
setting   == <<printer, policy, plan>>
vars == <<setting, producing, chan, printing>>

NoEvent == [type |-> "none"]
NoInfo  == [action |-> "none", act |-> "none", wait |-> "none", status |-> 0]
Counters == (Actuated \cup {"Wait"}) \X (WaitStatuses \ {"Pending"})

Groups == plan.groups
Group  == Groups[at]
IdsOf(actions) == UNION {g.ids : g \in {h \in ToSet(Groups) : h.action \in actions}}

----------------------------------------------------------------------------
(* Producers.  Each step sends one event once the channel is free.         *)

Send(e) == chan = NoEvent /\ chan' = e

\* Handle validation errors: all of them as one fatal error, or an event each.
HandleValidationError ==
    /\ stage = "validate" /\ policy = "SkipInvalid" /\ at <= Len(plan.errors)
    /\ Send([type |-> "Validation", ids |-> plan.errors[at]])
    /\ at' = at + 1
    /\ UNCHANGED <<stage, task, abort, updates, told, setting, printing>>

SendInit ==
    /\ stage = "validate"
    /\ IF policy = "SkipInvalid" THEN at > Len(plan.errors) ELSE plan.errors = <<>>
    /\ Send([type |-> "Init"])
    /\ stage' = "start" /\ at' = 1
    /\ UNCHANGED <<task, abort, updates, told, setting, printing>>

\* handleError: what keeps a run from starting, invalid objects among it, and
\* what the runner returns.
HandleError ==
    /\ \/ stage = "validate" /\ (policy = "SkipInvalid" => at = 1)
       \/ stage = "start" /\ abort
    /\ Send([type |-> "Error"])
    /\ stage' = "returning" /\ abort' = TRUE
    /\ UNCHANGED <<at, task, updates, told, setting, printing>>

Close ==
    /\ stage = "returning" \/ (stage = "start" /\ at > Len(Groups) /\ ~abort)
    /\ chan = NoEvent
    /\ stage' = "closed"
    /\ UNCHANGED <<at, task, abort, updates, told, chan, setting, printing>>

\* The context ends or the watcher fails: the runner cancels the task, which
\* only a wait task heeds.
Abort ==
    /\ ~abort
    /\ stage \in {"work", "timeout", "ended"} \/ (stage = "start" /\ at = 1)
    /\ abort' = TRUE
    /\ stage' = IF stage = "work" /\ Group.action = "Wait" /\ left = {} THEN "ended" ELSE stage
    /\ UNCHANGED <<at, task, updates, told, chan, setting, printing>>

\* nextTask.
StartTask ==
    /\ stage = "start" /\ at <= Len(Groups) /\ ~abort
    /\ Send([type |-> "Group", status |-> "Started"])
    /\ stage' = IF Group.action = "Inventory" \/ Group.ids = {} THEN "ended" ELSE "work"
    /\ left' = IF Group.action = "Inventory" THEN {} ELSE Group.ids
    /\ pending' = {} /\ failed' = {}
    /\ UNCHANGED <<at, abort, updates, told, setting, printing>>

\* The result of the task, with or without an error of its own.
FinishTask ==
    /\ stage = "ended"
    /\ Send([type |-> "Group", status |-> "Finished"])
    /\ stage' = "start" /\ at' = at + 1
    /\ abort' \in {abort, TRUE}
    /\ UNCHANGED <<task, updates, told, setting, printing>>

Actuate(id) ==
    /\ stage = "work" /\ Group.action \in Actuated /\ id \in left
    /\ \E outcome \in Outcomes :
         /\ Send([type |-> Group.action, id |-> id, status |-> outcome])
         /\ acted' = [acted EXCEPT ![id] = outcome]
    /\ left' = left \ {id}
    /\ stage' = IF left' = {} THEN "ended" ELSE stage
    /\ UNCHANGED <<at, pending, failed, abort, updates, waited, current, setting, printing>>

SendWait(id, status) ==
    /\ Send([type |-> "Wait", id |-> id, status |-> status])
    /\ waited' = [waited EXCEPT ![id] = status]

Skipped(id) == acted[id] \in {"Failed", "Skipped"}

\* startInner, and the cancellation that came before it was done.
StartWait(id) ==
    /\ stage = "work" /\ Group.action = "Wait" /\ id \in left
    /\ \E status \in (IF Skipped(id) THEN {"Skipped"} ELSE {"Successful", "Failed", "Pending"}) :
         /\ SendWait(id, status)
         /\ pending' = IF status = "Pending" THEN pending \cup {id} ELSE pending
    /\ left' = left \ {id}
    /\ stage' = IF left' = {} /\ (pending' = {} \/ abort) THEN "ended" ELSE stage
    /\ UNCHANGED <<at, failed, abort, updates, acted, current, setting, printing>>

\* WaitTask.StatusUpdate, in the runner.  Without pending objects the task is
\* cancelled, and will end whatever is pending again by then.
StatusUpdate(id) ==
    /\ stage \in {"work", "ended"} /\ Group.action = "Wait" /\ left = {}
    /\ id \in Group.ids /\ ~abort /\ ~Skipped(id)
    /\ updates < MaxUpdates /\ updates' = updates + 1
    /\ \/ /\ id \in pending \cup failed
          /\ SendWait(id, "Successful")
          /\ pending' = pending \ {id} /\ failed' = failed \ {id}
       \/ /\ id \in pending
          /\ SendWait(id, "Failed")
          /\ pending' = pending \ {id}
          /\ failed' \in {failed, failed \cup {id}}  \* not when it was replaced
       \/ /\ id \notin pending
          /\ SendWait(id, "Pending")
          /\ pending' = pending \cup {id} /\ failed' = failed \ {id}
    /\ stage' = IF pending' = {} THEN "ended" ELSE stage
    /\ UNCHANGED <<at, left, abort, acted, current, setting, printing>>

\* The deadline of a wait task, and its timeout events under the read lock.
Deadline ==
    /\ stage = "work" /\ Group.action = "Wait" /\ left = {}
    /\ stage' = "timeout" /\ left' = pending
    /\ UNCHANGED <<at, pending, failed, abort, updates, told, chan, setting, printing>>

SendTimeout(id) ==
    /\ stage = "timeout" /\ id \in left
    /\ SendWait(id, "Timeout")
    /\ left' = left \ {id}
    /\ stage' = IF left' = {} THEN "ended" ELSE stage
    /\ UNCHANGED <<at, pending, failed, abort, updates, acted, current, setting, printing>>

\* The runner forwards a status of any object it watches, invalid ones too, and
\* before the first task those that come before the watcher is synchronized.
SendStatus(id) ==
    /\ stage \in {"work", "timeout", "ended"} \/ (stage = "start" /\ at = 1)
    /\ ~abort
    /\ updates < MaxUpdates /\ updates' = updates + 1
    /\ Send([type |-> "Status", id |-> id, status |-> updates'])
    /\ current' = [current EXCEPT ![id] = updates']
    /\ UNCHANGED <<stage, at, task, abort, acted, waited, setting, printing>>

Produce ==
    \/ HandleValidationError \/ SendInit \/ HandleError \/ Close
    \/ Abort \/ StartTask \/ FinishTask \/ Deadline
    \/ \E id \in Objects : Actuate(id) \/ StartWait(id) \/ StatusUpdate(id)
                           \/ SendTimeout(id) \/ SendStatus(id)

----------------------------------------------------------------------------
(* Statistics: Stats.Handle and the Inc of each kind of event.             *)

\* Mutant: a timeout is not counted.
HandleNoTimeout(s, e) ==
    IF e.type \in Actuated \cup {"Wait"} /\ e.status \notin {"Pending", "Timeout"}
      THEN [s EXCEPT ![<<e.type, e.status>>] = @ + 1] ELSE s

Handle(s, e) ==
    IF e.type \in Actuated \cup {"Wait"} /\ e.status # "Pending"
      THEN [s EXCEPT ![<<e.type, e.status>>] = @ + 1] ELSE s

FailedActuationSum(s) ==
    s[<<"Apply", "Failed">>] + s[<<"Prune", "Failed">>] + s[<<"Delete", "Failed">>]
FailedReconciliationSum(s) == s[<<"Wait", "Failed">>] + s[<<"Wait", "Timeout">>]

ResultErrorFromStats(s) ==
    IF FailedActuationSum(s) > 0 \/ FailedReconciliationSum(s) > 0 THEN "error" ELSE "ok"

----------------------------------------------------------------------------
(* The list printer.                                                       *)

PrintReturns(r) == reader' = "done" /\ result' = r

\* Mutant: the printer returns at the first failure.
ListStopsAtFailure ==
    /\ printer # "table" /\ reader = "loop" /\ chan # NoEvent
    /\ chan' = NoEvent
    /\ stats' = Handle(stats, chan)
    /\ IF chan.type = "Error" \/ ResultErrorFromStats(stats') = "error"
         THEN err' = "event" /\ PrintReturns("error")
         ELSE UNCHANGED <<err, reader, result>>
    /\ UNCHANGED <<infos, shown, setting, producing>>

\* One event.  An error ends the printer; so does a formatter that cannot
\* write, which only the one for json reports.
ListReads ==
    /\ printer # "table" /\ reader = "loop" /\ chan # NoEvent
    /\ chan' = NoEvent
    /\ stats' = Handle(stats, chan)
    /\ \/ chan.type = "Error" /\ err' = "event" /\ PrintReturns("error")
       \/ chan.type # "Error" /\ UNCHANGED <<err, reader, result>>
       \/ printer = "json" /\ chan.type # "Error" /\ err' = "output" /\ PrintReturns("error")
    /\ UNCHANGED <<infos, shown, setting, producing>>

\* The channel is closed: the summary, which json may fail to write, and the
\* result.
ListEnds ==
    /\ printer # "table" /\ reader = "loop" /\ stage = "closed"
    /\ \/ PrintReturns(ResultErrorFromStats(stats)) /\ UNCHANGED err
       \/ printer = "json" /\ err' = "output" /\ PrintReturns("error")
    /\ UNCHANGED <<chan, stats, infos, shown, setting, producing>>

----------------------------------------------------------------------------
(* The table printer.                                                      *)

\* The action of the last of the groups that has the object.
ActionIn(actions, id) ==
    LET with == {i \in DOMAIN Groups : Groups[i].action \in actions /\ id \in Groups[i].ids}
    IN  IF with = {} THEN "none" ELSE Groups[Max(with)].action

\* Mutant: only the objects of the groups that apply.
CollectorOfApplied == [id \in Objects |-> [NoInfo EXCEPT !.action = ActionIn({"Apply"}, id)]]

\* "Keep the action that describes the operation for the resource rather than
\* that we will wait for it."
newResourceStateCollector ==
    [id \in Objects |-> [NoInfo EXCEPT !.action = ActionIn(Actions \ {"Wait"}, id)]]

\* Before the Init event: other events are dropped.
TableWaitsForInit ==
    /\ printer = "table" /\ reader = "init"
    /\ IF chan # NoEvent
         THEN /\ chan' = NoEvent
              /\ CASE chan.type = "Init"  -> reader' = "listen" /\ infos' = newResourceStateCollector
                                             /\ UNCHANGED <<err, result>>
                   [] chan.type = "Error" -> err' = "event" /\ PrintReturns("error") /\ UNCHANGED infos
                   [] OTHER               -> UNCHANGED <<reader, infos, err, result>>
         ELSE /\ stage = "closed"
              /\ reader' = "listen"
              /\ UNCHANGED <<chan, infos, err, result>>
    /\ UNCHANGED <<stats, shown, setting, producing>>

Info(e) ==
    [infos EXCEPT
        ![e.id].act    = IF e.type \in Actuated THEN e.status ELSE @,
        ![e.id].wait   = IF e.type = "Wait"     THEN e.status ELSE @,
        ![e.id].status = IF e.type = "Status"   THEN e.status ELSE @]

\* processEvent: events of objects that are in no group are ignored.
Listen ==
    /\ printer = "table" /\ reader = "listen" /\ chan # NoEvent
    /\ chan' = NoEvent
    /\ IF chan.type \in Actuated \cup {"Wait", "Status"} /\ infos[chan.id].action # "none"
         THEN infos' = Info(chan) /\ stats' = Handle(stats, chan)
         ELSE UNCHANGED <<infos, stats>>
    /\ IF chan.type = "Error" THEN err' = "event" /\ reader' = "ended"
                              ELSE UNCHANGED <<err, reader>>
    /\ UNCHANGED <<shown, result, setting, producing>>

ListenEnds ==
    /\ printer = "table" /\ reader = "listen" /\ stage = "closed"
    /\ reader' = "ended"
    /\ UNCHANGED <<chan, stats, infos, err, shown, result, setting, producing>>

\* The columns that show what happened: action, status and reconciled.
Row(info) ==
    [action     |-> IF info.action \in {"Apply", "Prune"} /\ info.act # "Failed" THEN info.act ELSE "",
     status     |-> info.status,
     reconciled |-> IF info.action = "Wait" THEN info.wait ELSE ""]

\* A copy of the collector's state, as it is printed.
LatestState == [id \in {x \in Objects : infos[x].action # "none"} |-> Row(infos[id])]

\* The print loop, on its ticker.
Tick ==
    /\ printer = "table" /\ reader \in {"listen", "ended"} /\ shown # LatestState
    /\ shown' = LatestState
    /\ UNCHANGED <<chan, reader, stats, infos, err, result, setting, producing>>

\* Mutant: the loop ends without printing.
TableEndsAtOnce ==
    /\ printer = "table" /\ reader = "ended"
    /\ PrintReturns(IF err = "none" THEN ResultErrorFromStats(stats) ELSE "error")
    /\ UNCHANGED <<chan, stats, infos, err, shown, setting, producing>>

\* The listener is done: the print loop is stopped, prints once more, and the
\* printer returns.
TableEnds ==
    /\ printer = "table" /\ reader = "ended"
    /\ shown' = LatestState
    /\ PrintReturns(IF err = "none" THEN ResultErrorFromStats(stats) ELSE "error")
    /\ UNCHANGED <<chan, stats, infos, err, setting, producing>>

Read == ListReads \/ ListEnds \/ TableWaitsForInit \/ Listen \/ ListenEnds \/ TableEnds

----------------------------------------------------------------------------

Init ==
    /\ printer \in Printers /\ policy \in Policies /\ plan \in Plans
    /\ stage = "validate" /\ at = 1
    /\ left = {} /\ pending = {} /\ failed = {} /\ abort = FALSE /\ updates = 0
    /\ acted = [id \in Objects |-> "none"]
    /\ waited = [id \in Objects |-> "none"]
    /\ current = [id \in Objects |-> 0]
    /\ chan = NoEvent
    /\ reader = IF printer = "table" THEN "init" ELSE "loop"
    /\ stats = [c \in Counters |-> 0]
    /\ infos = [id \in Objects |-> NoInfo] /\ shown = LatestState
    /\ err = "none" /\ result = "none"

Returned == stage = "closed" /\ result # "none"

\* A printer that returned early has left the run behind, for good.
Stuck == reader = "done" /\ chan # NoEvent

Next ==
    \/ Produce \/ Read \/ Tick
    \/ (Returned \/ Stuck) /\ UNCHANGED vars

\* The goroutines run; a tick need never come.
Spec ==
    /\ Init /\ [][Next]_vars
    /\ WF_vars(Produce)
    /\ WF_vars(Read)

----------------------------------------------------------------------------

Fails(id) == acted[id] = "Failed" \/ waited[id] \in {"Failed", "Timeout"}

\* A printer that returns nil has read a whole run, in which nothing failed:
\* no error ended it, every object was applied, pruned or skipped, and none was
\* left failed or timed out by a wait (ResultErrorFromStats).
NilMeansNothingFailed ==
    result = "ok" => stage = "closed" /\ ~abort /\ err = "none" /\ \A id \in Objects : ~Fails(id)

\* The statistics of a whole run count each object once for what was done to
\* it, whichever printer keeps them.
AttemptsAreObjects ==
    result # "none" /\ stage = "closed" /\ ~abort =>
        \A a \in Actuated : \A o \in Outcomes :
            stats[<<a, o>>] = Cardinality({id \in IdsOf({a}) : acted[id] = o})

\* The last table has a row for every object of the run, with what the last
\* events of the object say, although it is printed by a loop of its own.
ShownIsLast ==
    printer = "table" /\ result # "none" /\ shown # << >> =>
        \A id \in IdsOf(Actions \ {"Wait"}) :
            shown[id] = Row([action |-> ActionIn(Actions \ {"Wait"}, id),
                             act |-> acted[id], wait |-> waited[id], status |-> current[id]])

\* Every run ends and its printer returns: nobody waits on the channel for
\* ever, unless a formatter failed to write.
RunEnds == <>(Returned \/ err = "output")

\* "If no fatal errors happened, we will return a ResultError if one or more
\* resources failed to apply/prune or reconcile" (printers/table/printer.go:69).
ErrorMeansSomethingFailed ==
    result = "error" /\ err = "none" => \E id \in Objects : Fails(id)
==============================================================================
