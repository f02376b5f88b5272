------------------------------- MODULE Polling ------------------------------
(***************************************************************************)
(* The status command (cmd/status): the polling engine lists what is to be *)
(* polled, computes a status for each object and sends the ones that       *)
(* changed to the collector, whose observer cancels the poller when the    *)
(* statuses are what the command waits for. Goroutines: the poller, the    *)
(* collector, and the command that waits for both. The cluster is Rollout  *)
(* and one more object of any kind.                                        *)
(***************************************************************************)
EXTENDS Rollout

CONSTANTS
    Commands,   \* the options of the command and the inventories it finds; bounds:
                \* whether it may be ended early, calls that may fail, generations
    NamespaceOf,\* the namespace of an identifier
    Samples,    \* what the other object may look like, by kind
    MaxSamples  \* bound: changes of the other object

VARIABLES
    cmd,       \* the command and the identifiers it polls
    other,     \* the other object: installed kind, existing objects, changes left
    faults,    \* bound: calls that may still fail
    pc,        \* the poller: validate, sync, poll, send, wait, fail, closed
    pos,       \* its position in the keys it lists or the identifiers it polls
    cache,     \* what Sync listed, until the next Sync begins
    err,       \* the error the poller stops with, or that it dropped one
    sending,   \* the status it is about to send
    prev,      \* previousResourceStatuses
    coll,      \* ResourceStatuses of the collector
    collPc,    \* the collector: idle, report (an error to the command), observe
    collErr,   \* the error it reports
    ctxDone,   \* the context of the poller
    satisfied, \* the observer cancelled it
    result     \* what the command returns: running, nil or an error

pollVars == <<pc, pos, cache, err, sending, prev>>
collVars == <<coll, collPc, collErr, satisfied, result>>
worldVars == <<rolloutVars, other>>
vars == <<worldVars, cmd, faults, pollVars, collVars, ctxDone>>

Ids == {"workload", "other"}
Keys == {"workload", "rs", "pods", "other"}
\* "deadline" is an error that is Canceled or DeadlineExceeded by type: that of
\* a request which ran out of its own time comes while the context lives.
Errors == {"nomatch", "mapping", "list", "rate", "invalid", "deadline"}
Absent == [kind |-> "absent"]
NoCache == [k \in Keys |-> [err |-> "not in cache", val |-> "none"]]

\* preRunE
PollUntilOptions == {"known", "current", "deleted", "forever"}
Accepted(c) == c.until \in PollUntilOptions /\ (c.invType = "local" => c.names = {})

\* The objects in the namespaces that are asked for.
Targeted(c, ids) == SelectSeq(ids, LAMBDA id : c.namespaces = {} \/ NamespaceOf[id] \in c.namespaces)

loadInvFromDisk(c) == {Targeted(c, c.inventories[1].refs)}

\* By name, so that of two inventories with one name the last counts; a map
\* has no order.
listInvFromCluster(c) ==
    LET names == {inv.name : inv \in Range(c.inventories)}
        asked == IF c.names = {} THEN names ELSE names \cap c.names
        refsOf(n) == c.inventories[Max({i \in DOMAIN c.inventories : c.inventories[i].name = n})].refs
    IN  {FlattenSeq([i \in DOMAIN order |-> Targeted(c, refsOf(order[i]))]) : order \in SetToSeqs(asked)}

\* The command with what it will poll.
Loaded(c) ==
    {[ids |-> ids] @@ c : ids \in IF c.invType = "local" THEN loadInvFromDisk(c)
                                                        ELSE listInvFromCluster(c)}

\* What is polled is a list of identifiers, and the samples are objects.
ASSUME PollAssumption ==
    \A c \in Commands : \A loaded \in Loaded(c) :
        /\ loaded.ids \in Seq(Ids) /\ loaded.faults \in Nat
        /\ \A u \in Samples[loaded.other] : IsObject(u)

\* genGroupKinds and buildGvkNamespaceSet: what is listed for an identifier.
Listed(id) ==
    CASE id = "other" -> <<"other">>
      [] kind = "Deployment" -> <<"workload", "rs", "pods">>
      [] kind \in {"ReplicaSet", "StatefulSet"} -> <<"workload", "pods">>
      [] OTHER -> <<"workload">>
KeysOf(ids) == FlattenSeq([i \in DOMAIN ids |-> Listed(ids[i])])

Unpolled == [st |-> "Unknown", gen |-> 0, err |-> "none"]
Unsent == [Unpolled EXCEPT !.st = "unsent"]

Statuses == {"Unknown", "NotFound", "InProgress", "Current", "Failed", "Terminating"}

PollingTypeOK ==
    /\ RolloutTypeOK
    /\ \E c \in Commands : cmd \in Loaded(c)
    /\ pc \in {"validate", "sync", "poll", "send", "wait", "fail", "closed"}
    /\ pos \in 1 .. Len(KeysOf(cmd.ids)) + 1
    /\ faults \in 0 .. cmd.faults
    /\ err \in Errors \cup {"none", "dropped"} /\ collErr \in Errors \cup {"none"}
    /\ collPc \in {"idle", "report", "observe"}
    /\ \A id \in Ids : {coll[id].st, prev[id].st} \subseteq Statuses \cup {"unsent"}
    /\ {ctxDone, satisfied} \subseteq BOOLEAN
    /\ result \in {"running", "nil"} \cup Errors

Init ==
    /\ \E c \in Commands : cmd \in Loaded(c)
    /\ RolloutInit /\ kind = cmd.kind
    /\ \E u \in Samples[cmd.other] \cup {Absent} :
          other = [obj |-> u, left |-> MaxSamples,
                   installed |-> u # Absent \/ cmd.other # "Custom"]
    /\ faults = cmd.faults
    /\ pc = IF Accepted(cmd) /\ cmd.ids # << >> THEN "validate" ELSE "closed"
    /\ pos = 1 /\ err = "none"
    /\ cache = NoCache
    /\ sending = Unpolled
    /\ prev = [id \in Ids |-> Unsent]
    /\ coll = [id \in Ids |-> Unpolled]
    /\ collPc = "idle" /\ collErr = "none"
    /\ ctxDone = FALSE /\ satisfied = FALSE
    \* "no resources found in the inventory"
    /\ result = CASE ~Accepted(cmd)   -> "invalid"
                  [] cmd.ids = << >> -> "nil"
                  [] OTHER           -> "running"

----------------------------------------------------------------------------
(* The caching reader and the status readers.                              *)

Installed(key) == key # "other" \/ other.installed

\* RESTMapping (external). A mapper that found no match may keep to that.
Mapping(key) ==
    (IF Installed(key) THEN {"none"} ELSE {"nomatch"})
        \cup (IF faults > 0 THEN {"nomatch", "mapping", "deadline"} ELSE {})
Costs(key, e) == IF e = "none" \/ (e = "nomatch" /\ ~Installed(key)) THEN 0 ELSE 1

\* What a list call returns. Of the generated objects only this matters here:
\* whether there are ReplicaSets, and whether a pod has failed.
ListNow(key) ==
    CASE key = "workload" -> WorkloadObject
      [] key = "other"    -> other.obj
      [] key = "rs"       -> Alive(pods) # {}
      [] key = "pods"     -> \E p \in Alive(pods) : Compute(PodObject(pods[p])) = "Failed"

Entry(e, v) == [err |-> e, val |-> v]

GenerationOf(u) == IF u.gen = Unset THEN 0 ELSE u.gen
Status(u, st)   == [st |-> st, gen |-> GenerationOf(u), err |-> "none"]

\* errIdentifierToResourceStatus, errResourceToResourceStatus: the error is
\* part of the status, but for one that is of a context by type and for that of
\* a rate limiter whose turn would come after the deadline, which end the pass.
Failed(e, gen) ==
    [st |-> IF e \in {"rate", "deadline"} THEN "stop" ELSE "Unknown", gen |-> gen, err |-> e]
FailedObject(e, u) == Failed(e, GenerationOf(u))

\* Get and ListNamespaceScoped of the cache, after the answer m of the mapper.
Get(key, c, m) == IF m # "none" THEN Entry(m, "none") ELSE c[key]
ListNamespaceScoped(key, c) == c[key]

\* statusForGeneratedResources, with the answer g of the mapper.
Generated(key, c, g) == IF g # "none" THEN Entry(g, "none") ELSE ListNamespaceScoped(key, c)

GenericStatus(u) ==
    IF Compute(u) = "error" THEN FailedObject("invalid", u) ELSE Status(u, Compute(u))

\* podControllerStatusReader: a failed pod fails what is in progress.
PodController(u, c, g) ==
    LET gen == Generated("pods", c, g)
    IN  IF gen.err # "none" THEN FailedObject(gen.err, u)
        ELSE Status(u, IF Compute(u) = "InProgress" /\ gen.val THEN "Failed" ELSE Compute(u))

ReplicaSetStatus(u, c, g)  == PodController(u, c, g)
StatefulSetStatus(u, c, g) == PodController(u, c, g)

\* The ReplicaSets are read, and the pods of each; what keeps the pods from
\* being listed is part of the status of the ReplicaSet.
DeploymentStatus(u, c, g) ==
    LET gen == Generated("rs", c, g)
    IN  IF gen.err # "none" THEN FailedObject(gen.err, u)
        ELSE IF gen.val /\ c["pods"].err = "rate" THEN FailedObject("rate", u)
        ELSE GenericStatus(u)

\* Mutant: the error of Compute is not looked at.
StatusUnchecked(id, c, g) == Status(c[id].val, Compute(c[id].val))

\* ReadStatusForObject of the status reader for the kind.
StatusForObject(id, c, g) ==
    LET u == c[id].val
    IN  CASE u.kind = "Deployment"  -> DeploymentStatus(u, c, g)
          [] u.kind = "ReplicaSet"  -> ReplicaSetStatus(u, c, g)
          [] u.kind = "StatefulSet" -> StatefulSetStatus(u, c, g)
          [] OTHER                  -> GenericStatus(u)

\* ReadStatus of baseStatusReader, with the answers m and g of the mapper.
ReadStatus(id, c, m, g) ==
    LET e == Get(id, c, m)
    IN  IF e.err # "none" THEN Failed(e.err, 0)
        ELSE IF e.val = Absent THEN [Unpolled EXCEPT !.st = "NotFound"]
        ELSE StatusForObject(id, c, g)

\* Mutants: the generation is not compared, or the status.
EqualButGeneration(s, t) == s.st = t.st /\ s.err = t.err
EqualButStatus(s, t) == s.gen = t.gen /\ s.err = t.err

\* ResourceStatusEqual, but for the messages and the generated resources.
ResourceStatusEqual(s, t) == s = t

----------------------------------------------------------------------------
(* The poller.                                                             *)

Goto(p, i) == pc' = p /\ pos' = i
Fails(e) == Goto("fail", 1) /\ err' = e
Faulty(n) == faults' = faults - n

\* Errors that are of a context by type are taken for a signal to shut down,
\* whether or not the context is done.
HandleSyncAndPollErr(e) ==
    IF e = "deadline" THEN Goto("closed", 1) /\ err' = "dropped" ELSE Fails(e)

\* validateIdentifiers, one identifier at a time.
Validate ==
    /\ pc = "validate"
    /\ \E m \in Mapping(cmd.ids[pos]) :
          /\ Faulty(Costs(cmd.ids[pos], m))
          /\ IF m \in {"mapping", "deadline"} THEN Fails(m)
             ELSE IF m = "none" /\ cmd.badNamespace THEN Fails("invalid")
             ELSE /\ IF pos < Len(cmd.ids) THEN Goto("validate", pos + 1) ELSE Goto("sync", 1)
                  /\ UNCHANGED err
    /\ UNCHANGED <<worldVars, cmd, cache, sending, prev, collVars, ctxDone>>

\* Sync: the mapping and the list call of one key.
SyncLists ==
    /\ pc = "sync"
    /\ LET key == KeysOf(cmd.ids)[pos]
           Keeps(e, v) == /\ cache' = [cache EXCEPT ![key] = Entry(e, v)]
                          /\ IF pos < Len(KeysOf(cmd.ids)) THEN Goto("sync", pos + 1)
                             ELSE Goto("poll", 1)
                          /\ UNCHANGED err
       IN  \/ \E m \in Mapping(key) \ {"none"} :
                 /\ Faulty(Costs(key, m))
                 /\ IF m = "nomatch" THEN Keeps(m, "none")
                    ELSE HandleSyncAndPollErr(m) /\ UNCHANGED cache
           \/ /\ Installed(key)
              /\ \/ Keeps("none", ListNow(key)) /\ UNCHANGED faults
                 \/ faults > 0 /\ Keeps("list", "none") /\ Faulty(1)
                 \/ faults > 0 /\ cmd.timeout /\ ~ctxDone /\ Keeps("rate", "none") /\ Faulty(1)
                 \/ faults > 0 /\ HandleSyncAndPollErr("deadline") /\ UNCHANGED cache /\ Faulty(1)
                 \/ ctxDone /\ Goto("closed", 1) /\ UNCHANGED <<err, cache, faults>>
    /\ UNCHANGED <<worldVars, cmd, sending, prev, collVars, ctxDone>>

\* What the mapper says of the kind of the generated resources, if they are read.
MappingOfGenerated(id, m) ==
    IF id = "workload" /\ kind # "DaemonSet" /\ m = "none" THEN Mapping("pods") ELSE {"none"}

\* One turn of pollStatusForAllResources. A status like the
\* last one is sent if its message or its generated resources are not.
PollReads ==
    /\ pc = "poll" /\ pos <= Len(cmd.ids) /\ ~ctxDone
    /\ LET id == cmd.ids[pos] IN
       \E m \in Mapping(id) : \E g \in MappingOfGenerated(id, m) :
          LET s == ReadStatus(id, cache, m, g)
          IN  /\ Faulty(Costs(id, m) + Costs("pods", g))
              /\ \/ s.st = "stop" /\ HandleSyncAndPollErr(s.err) /\ UNCHANGED <<sending, prev>>
                 \/ /\ s.st # "stop"
                    /\ sending' = s
                    /\ prev' = [prev EXCEPT ![id] = s]
                    /\ Goto("send", pos) /\ UNCHANGED err
                 \/ /\ s.st # "stop"
                    /\ ResourceStatusEqual(s, prev[id])
                    /\ Goto("poll", pos + 1) /\ UNCHANGED <<sending, prev, err>>
    /\ UNCHANGED <<worldVars, cmd, cache, collVars, ctxDone>>

PollEnds ==
    /\ pc = "poll"
    /\ \/ pos <= Len(cmd.ids) /\ ctxDone /\ Goto("closed", 1)
       \/ pos > Len(cmd.ids) /\ Goto("wait", 1)
    /\ UNCHANGED <<worldVars, cmd, faults, cache, err, sending, prev, collVars, ctxDone>>

\* The select of Run, which may take a tick although the context is done.
Waits ==
    /\ pc = "wait"
    /\ \/ Goto("sync", 1)
       \/ ctxDone /\ Goto("closed", 1)
    /\ cache' = NoCache
    /\ UNCHANGED <<worldVars, cmd, faults, err, sending, prev, collVars, ctxDone>>

----------------------------------------------------------------------------
(* The collector and the command.                                          *)

\* The poller sends a status and processEvent takes it.
Update ==
    /\ pc = "send" /\ collPc = "idle"
    /\ coll' = [coll EXCEPT ![cmd.ids[pos]] = sending]
    /\ collPc' = "observe"
    /\ Goto("poll", pos + 1) /\ sending' = Unpolled
    /\ UNCHANGED <<worldVars, cmd, faults, cache, err, prev, collErr, satisfied, result, ctxDone>>

\* Mutant: the error is not sent.
SendsNoError ==
    /\ pc = "fail" /\ collPc = "idle"
    /\ collPc' = "observe"
    /\ Goto("closed", 1)
    /\ UNCHANGED <<worldVars, cmd, faults, cache, err, sending, prev, coll, collErr, satisfied,
                   result, ctxDone>>

\* handleError and handleSyncAndPollErr: the ErrorEvent, after which the
\* poller closes its channel.
SendsError ==
    /\ pc = "fail" /\ collPc = "idle"
    /\ collErr' = err /\ collPc' = "report"
    /\ Goto("closed", 1)
    /\ UNCHANGED <<worldVars, cmd, faults, cache, err, sending, prev, coll, satisfied, result, ctxDone>>

\* The command reads the error from the channel ListenWithObserver returned.
Reports ==
    /\ collPc = "report"
    /\ result' = collErr /\ collPc' = "observe"
    /\ UNCHANGED <<worldVars, cmd, faults, pollVars, coll, collErr, satisfied, ctxDone>>

\* AggregateStatus
Aggregate(sts, desired) ==
    CASE "Failed" \in sts  -> "Failed"
      [] "Unknown" \in sts -> "Unknown"
      [] sts \subseteq {desired} -> desired
      [] OTHER -> "InProgress"

\* The observer that poll-until chooses.
Enough(sts) ==
    CASE cmd.until = "known"   -> "Unknown" \notin sts
      [] cmd.until = "current" -> Aggregate(sts, "Current") = "Current"
      [] cmd.until = "deleted" -> Aggregate(sts, "NotFound") = "NotFound"
      [] OTHER                 -> FALSE

Observes ==
    LET enough == Enough({coll[id].st : id \in Range(cmd.ids)}) IN
    /\ collPc = "observe" /\ collPc' = "idle"
    /\ ctxDone' = (ctxDone \/ enough)
    /\ satisfied' = (satisfied \/ enough)
    /\ UNCHANGED <<worldVars, cmd, faults, pollVars, coll, collErr, result>>

\* Both channels are closed and Print returns the last error.
Returns ==
    /\ pc = "closed" /\ collPc = "idle"
    /\ result = "running" /\ result' = "nil"
    /\ UNCHANGED <<worldVars, cmd, faults, pollVars, coll, collPc, collErr, satisfied, ctxDone>>

----------------------------------------------------------------------------
(* The deadline, the user, and the cluster.                                *)

DeadlineOrInterrupt ==
    /\ cmd.mayEnd /\ ~ctxDone /\ ctxDone' = TRUE
    /\ UNCHANGED <<worldVars, cmd, faults, pollVars, collVars>>

\* The other object is created, changed or deleted; its kind is installed.
OtherChanges ==
    /\ other.left > 0 /\ "other" \in Range(cmd.ids)
    /\ \E u \in Samples[cmd.other] \cup {Absent} :
          other' = [obj |-> u, left |-> other.left - 1, installed |-> TRUE]
    /\ UNCHANGED <<rolloutVars, cmd, faults, pollVars, collVars, ctxDone>>

\* The poller looks at the workload when it lists: what happens to it between
\* two looks is put before the second; cmd.moves bounds the lists it may come
\* before.
World ==
    \/ /\ "workload" \in Range(cmd.ids) /\ pc = "sync" /\ KeysOf(cmd.ids)[pos] \in cmd.moves
       /\ RolloutNext /\ spec'.gen <= cmd.gens
       /\ UNCHANGED <<other, cmd, faults, pollVars, collVars, ctxDone>>
    \/ OtherChanges

Poller == Validate \/ SyncLists \/ PollReads \/ PollEnds \/ Waits
Collector == Update \/ SendsError \/ Reports \/ Observes \/ Returns

Next == Poller \/ Collector \/ DeadlineOrInterrupt \/ (~ctxDone /\ result = "running" /\ World)

\* Both goroutines and the command run, the ticker ticks, calls return.
Fairness == WF_vars(Poller) /\ WF_vars(Collector)
Spec == Init /\ [][Next]_vars /\ Fairness

----------------------------------------------------------------------------
\* A command that waits for the workload to be current and is satisfied has
\* seen it in a generation that was completely rolled out, none older than
\* the one of the start: no stale, partial or mixed status passes for it.
ExitMeansRolledOut ==
    [][~satisfied /\ satisfied' /\ cmd.until = "current" /\ "workload" \in Range(cmd.ids)
          => coll["workload"].gen \in rolledOut]_vars

\* After each pass the collector knows of every object what the cache says:
\* the statuses that are not sent again are those that did not change.
CollectorFollows ==
    pc = "wait" /\ collPc = "idle" =>
        \A id \in Range(cmd.ids) : \E m, g \in {"none", "nomatch", "mapping", "deadline"} :
            coll[id] = ReadStatus(id, cache, m, g)

\* The command returns without an error only if someone ended it, if there is
\* nothing to poll, or if the poller took an error of a call, by its type, for
\* a signal to shut down; every other error that stopped the poller is returned.
ErrorIsReturned ==
    result = "nil" => \/ err = "none" /\ (ctxDone \/ cmd.ids = << >>)
                      \/ err = "dropped"

\* An object that Augment wrote to has the standard conditions of its status,
\* whatever it said of them before, and Compute, which believes them before
\* anything else, comes to the same result as without them.
AugmentAgrees ==
    \A u \in ({other.obj} \ {Absent}) \cup {WorkloadObject} :
        /\ \A type \in Standard(Compute(u)) : HasCond(Augment(u), type, "True")
        /\ Compute(Augment(u)) = Compute(u)

\* What a poll of the whole cluster would say now.
Live(id) == ReadStatus(id, [k \in Keys |-> Entry("none", ListNow(k))],
                       IF Installed(id) THEN "none" ELSE "nomatch", "none").st

\* A command that is cancelled ends, and so does one for which the cluster
\* is and stays what it waits for.
CommandEnds ==
    /\ <>[]ctxDone => <>(result # "running")
    /\ <>[]Enough({Live(id) : id \in Range(cmd.ids)}) => <>(result # "running")
=============================================================================
