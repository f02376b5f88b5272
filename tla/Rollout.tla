------------------------------- MODULE Rollout ------------------------------
(***************************************************************************)
(* What the status rules of KStatus are about (external): a workload, the  *)
(* controller that observes its generations and replaces its pods, and the *)
(* status the controller writes. The fields are those core.go reads.       *)
(***************************************************************************)
EXTENDS KStatus, FiniteSets

CONSTANTS MaxGen,      \* bound: generations of the workload
          MaxReplicas, \* bound: replicas it may ask for
          PodSlots     \* bound: pods that exist at one time

ASSUME RolloutAssumption ==
    MaxGen \in Nat \ {0} /\ MaxReplicas \in Nat \ {0} /\ IsFiniteSet(PodSlots)

Kinds == {"StatefulSet", "ReplicaSet", "DaemonSet", "Deployment"}

VARIABLES
    kind,      \* the kind of the workload
    spec,      \* generation, replicas, revision of the pod template
    seen,      \* the spec as the controller knows it
    pods,      \* state and revision of the pod in each slot
    written,   \* the status the controller wrote last
    rolledOut  \* generations that were completely rolled out at some time

rolloutVars == <<kind, spec, seen, pods, written, rolledOut>>

Specs == [gen : 1 .. MaxGen, replicas : 1 .. MaxReplicas, rev : 1 .. MaxGen]
NoPod == [st |-> "none", rev |-> 1]
PodStates == {NoPod} \cup [st : {"pending", "ready", "crashing"}, rev : 1 .. MaxGen]
NoStatus == [obs |-> Unset, conds |-> << >>, f |-> [n \in {} |-> 0]]

RolloutTypeOK ==
    /\ kind \in Kinds /\ spec \in Specs /\ seen \in Specs
    /\ pods \in [PodSlots -> PodStates]
    /\ written.obs \in {Unset} \cup (1 .. MaxGen)
    /\ rolledOut \subseteq 1 .. MaxGen

Alive(ps) == {p \in PodSlots : ps[p].st # "none"}
Ready(ps) == {p \in Alive(ps) : ps[p].st = "ready"}
OfRev(ps, rev) == {p \in Alive(ps) : ps[p].rev = rev}

\* A ReplicaSet does not replace its pods when their template changes.
Outdated(ps, s) == IF kind = "ReplicaSet" THEN {} ELSE Alive(ps) \ OfRev(ps, s.rev)

RolledOut(s, ps) ==
    /\ Outdated(ps, s) = {}
    /\ Ready(ps) = Alive(ps)
    /\ Cardinality(Alive(ps)) = s.replicas

\* The object of the workload, and a pod, as a list call returns them.
WorkloadObject ==
    [kind |-> kind, del |-> FALSE, gen |-> spec.gen, obs |-> written.obs,
     conds |-> written.conds,
     f |-> [n \in {"replicas", "progressDeadlineSeconds"} \cup DOMAIN written.f |->
               CASE n = "replicas" -> spec.replicas
                 [] n = "progressDeadlineSeconds" -> 600
                 [] OTHER -> written.f[n]]]

PodObject(pod) ==
    [kind |-> "Pod", del |-> FALSE, gen |-> Unset, obs |-> Unset,
     conds |-> IF pod.st = "pending" THEN << >>
               ELSE << Cond("Ready", IF pod.st = "ready" THEN "True" ELSE "False", "") >>,
     f |-> [phase |-> IF pod.st = "pending" THEN "Pending" ELSE "Running",
            crashLoop |-> pod.st = "crashing"]]

----------------------------------------------------------------------------
\* The status the controller of each kind writes, with the generation it saw.
StatusNow ==
    LET all     == Cardinality(Alive(pods))
        ready   == Cardinality(Ready(pods))
        updated == Cardinality(OfRev(pods, seen.rev))
        done    == RolledOut(seen, pods)
        current == IF done \/ "currentRevision" \notin DOMAIN written.f
                   THEN seen.rev ELSE written.f.currentRevision
        f == CASE kind = "DaemonSet" ->
                    [desiredNumberScheduled |-> seen.replicas, currentNumberScheduled |-> all,
                     updatedNumberScheduled |-> updated, numberAvailable |-> ready,
                     numberReady |-> ready]
               [] kind = "StatefulSet" ->
                    [statusReplicas |-> all, updatedReplicas |-> updated, readyReplicas |-> ready,
                     currentReplicas |-> Cardinality(OfRev(pods, current)),
                     currentRevision |-> current, updateRevision |-> seen.rev]
               [] kind = "ReplicaSet" ->
                    [statusReplicas |-> all, fullyLabeledReplicas |-> all,
                     availableReplicas |-> ready, readyReplicas |-> ready]
               [] kind = "Deployment" ->
                    [statusReplicas |-> all, updatedReplicas |-> updated,
                     availableReplicas |-> ready, readyReplicas |-> ready]
        \* One pod may be unavailable.
        conds == << Cond("Available", IF ready + 1 >= seen.replicas THEN "True" ELSE "False", ""),
                    Cond("Progressing", "True",
                         IF done THEN "NewReplicaSetAvailable" ELSE "ReplicaSetUpdated") >>
    IN  [obs |-> seen.gen, f |-> f, conds |-> IF kind = "Deployment" THEN conds ELSE << >>]

Remember == rolledOut' = IF RolledOut(spec', pods') THEN rolledOut \cup {spec'.gen} ELSE rolledOut

RolloutInit ==
    /\ kind \in Kinds
    /\ \E n \in 1 .. MaxReplicas : spec = [gen |-> 1, replicas |-> n, rev |-> 1]
    /\ seen = spec
    /\ pods = [p \in PodSlots |-> NoPod]
    /\ written = NoStatus
    /\ rolledOut = {}

\* How many pods a DaemonSet has is up to the nodes.
UserUpdates ==
    /\ spec.gen < MaxGen
    /\ \E n \in IF kind = "DaemonSet" THEN {spec.replicas} ELSE 1 .. MaxReplicas,
          rev \in {spec.rev, spec.gen + 1} :
          /\ <<n, rev>> # <<spec.replicas, spec.rev>>
          /\ spec' = [gen |-> spec.gen + 1, replicas |-> n, rev |-> rev]
    /\ UNCHANGED <<kind, seen, pods, written>>
    /\ Remember

ControllerObserves ==
    /\ seen # spec /\ seen' = spec
    /\ UNCHANGED <<kind, spec, pods, written, rolledOut>>

PodChanges(p, pod) ==
    /\ pods' = [pods EXCEPT ![p] = pod]
    /\ UNCHANGED <<kind, spec, seen, written>>
    /\ Remember

\* Deployments start the new pod first, the others take the old one away.
ControllerCreates(p) ==
    /\ p \notin Alive(pods) /\ \A q \in PodSlots \ Alive(pods) : p <= q
    /\ Cardinality(Alive(pods)) < seen.replicas
         + (IF kind = "Deployment" /\ Outdated(pods, seen) # {} THEN 1 ELSE 0)
    /\ PodChanges(p, [st |-> "pending", rev |-> seen.rev])
ControllerDeletes(p) ==
    /\ p \in Outdated(pods, seen) \/ Cardinality(Alive(pods)) > seen.replicas
    /\ p \in Alive(pods)
    /\ PodChanges(p, NoPod)
PodStarts(p) == pods[p].st \in {"pending", "crashing"} /\ PodChanges(p, [pods[p] EXCEPT !.st = "ready"])
\* Whether a pod crashes or is just not ready is the same to the other kinds.
PodCrashes(p) ==
    /\ pods[p].st \in {"pending", "ready"}
    /\ \/ /\ kind \in {"ReplicaSet", "StatefulSet"}
          /\ PodChanges(p, [pods[p] EXCEPT !.st = "crashing"])
       \/ /\ kind \notin {"ReplicaSet", "StatefulSet"} /\ pods[p].st = "ready"
          /\ PodChanges(p, [pods[p] EXCEPT !.st = "pending"])

ControllerWrites ==
    /\ written' = StatusNow /\ written' # written
    /\ UNCHANGED <<kind, spec, seen, pods, rolledOut>>

RolloutNext ==
    \/ UserUpdates \/ ControllerObserves \/ ControllerWrites
    \/ \E p \in PodSlots :
          ControllerCreates(p) \/ ControllerDeletes(p) \/ PodStarts(p) \/ PodCrashes(p)
=============================================================================
