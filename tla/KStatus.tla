------------------------------ MODULE KStatus -------------------------------
(***************************************************************************)
(* The status library (kstatus/status): what Compute makes of an object of *)
(* the cluster. An object has a kind, deletion timestamp, generations and  *)
(* conditions in their order, and in f the other fields the rules read;    *)
(* what an object leaves out is not in f. Reasons and messages are kept    *)
(* where a rule looks at them. A result is its status: the conditions that *)
(* go with it are those of Standard.                                       *)
(***************************************************************************)
EXTENDS Integers, Sequences, SequencesExt

Unset == -1

Cond(type, status, reason) == [type |-> type, status |-> status, reason |-> reason]

\* An object as a list call returns it, with its conditions in their order.
IsObject(u) ==
    /\ u = [kind |-> u.kind, del |-> u.del, gen |-> u.gen, obs |-> u.obs, conds |-> u.conds, f |-> u.f]
    /\ u.conds \in Seq(Range(u.conds))

\* GetIntField, GetStringField and GetBoolField.
Field(u, name, default) == IF name \in DOMAIN u.f THEN u.f[name] ELSE default

\* hasConditionWithStatus, getConditionWithStatus
HasCond(u, type, status) == \E c \in Range(u.conds) : c.type = type /\ c.status = status

\* newInProgressStatus and newFailedStatus carry the standard condition.
Standard(result) ==
    CASE result = "InProgress" -> {"Reconciling"}
      [] result = "Failed"     -> {"Stalled"}
      [] OTHER                 -> {}

\* The rule that applies first to a list of conditions, or otherwise.
FirstCond(u, Rule(_), otherwise) ==
    LET hits == {i \in DOMAIN u.conds : Rule(u.conds[i]) # "none"}
    IN  IF hits = {} THEN otherwise
        ELSE Rule(u.conds[CHOOSE i \in hits : \A j \in hits : i <= j])

CurrentUnless(waiting) == IF waiting THEN "InProgress" ELSE "Current"

----------------------------------------------------------------------------
(* generic.go and checkReadyCondition of status.go                         *)

\* The controller has not seen the generation, if both are set.
GenerationPending(u) == u.gen # Unset /\ u.obs # Unset /\ u.obs # u.gen

checkGeneration(u) == GenerationPending(u)

checkGenericProperties(u) ==
    IF u.del THEN "Terminating"
    ELSE IF checkGeneration(u) THEN "InProgress"
    ELSE FirstCond(u, LAMBDA c : IF c.status # "True" THEN "none"
                                 ELSE IF c.type = "Reconciling" THEN "InProgress"
                                 ELSE IF c.type = "Stalled" THEN "Failed" ELSE "none", "none")

checkReadyCondition(u) ==
    FirstCond(u, LAMBDA c : IF c.type # "Ready" THEN "none"
                            ELSE IF c.status = "True" THEN "Current"
                            ELSE IF c.status \in {"False", "Unknown"} THEN "InProgress"
                            ELSE "none", "Current")

----------------------------------------------------------------------------
(* core.go: the rules of the built-in kinds                                *)

stsConditions(u) ==
    LET spec      == Field(u, "replicas", 1)
        status    == Field(u, "statusReplicas", 0)
        partition == Field(u, "partition", Unset)
        updated   == Field(u, "updatedReplicas", 0)
    IN  CurrentUnless(
            /\ Field(u, "updateStrategy", "") # "OnDelete"
            /\ \/ spec > status
               \/ spec > Field(u, "readyReplicas", 0)
               \/ status > spec
               \/ partition # Unset /\ updated < spec - partition
               \/ /\ partition = Unset
                  /\ \/ spec > Field(u, "currentReplicas", 0)
                     \/ Field(u, "currentRevision", "") # Field(u, "updateRevision", ""))

\* Mutant: the count of the updated replicas is not looked at.
deploymentConditionsOld(u) ==
    LET spec == Field(u, "replicas", 1)
    IN  CurrentUnless(
            \/ spec > Field(u, "statusReplicas", 0)
            \/ spec > Field(u, "readyReplicas", 0)
            \/ ~HasCond(u, "Available", "True"))

deploymentConditions(u) ==
    LET spec    == Field(u, "replicas", 1)
        status  == Field(u, "statusReplicas", 0)
        updated == Field(u, "updatedReplicas", 0)
        progressing ==
            \/ Field(u, "progressDeadlineSeconds", Unset) = Unset
            \/ Cond("Progressing", "True", "NewReplicaSetAvailable") \in Range(u.conds)
    IN  IF \E c \in Range(u.conds) : c.type = "Progressing" /\ c.reason = "ProgressDeadlineExceeded"
        THEN "Failed"
        ELSE CurrentUnless(
                \/ spec > status
                \/ spec > updated
                \/ status > spec
                \/ updated > Field(u, "availableReplicas", 0)
                \/ spec > Field(u, "readyReplicas", 0)
                \/ ~progressing
                \/ ~HasCond(u, "Available", "True"))

replicasetConditions(u) ==
    LET spec == Field(u, "replicas", 1)
    IN  CurrentUnless(
            \/ HasCond(u, "ReplicaFailure", "True")
            \/ spec > Field(u, "fullyLabeledReplicas", 0)
            \/ spec > Field(u, "availableReplicas", 0)
            \/ spec > Field(u, "readyReplicas", 0)
            \/ Field(u, "statusReplicas", 0) > spec)

\* checkGenerationSet and the counts.
daemonsetConditions(u) ==
    LET desired == Field(u, "desiredNumberScheduled", Unset)
    IN  CurrentUnless(
            \/ u.gen = Unset \/ u.obs = Unset
            \/ desired = Unset
            \/ \E name \in {"currentNumberScheduled", "updatedNumberScheduled",
                            "numberAvailable", "numberReady"} : desired > Field(u, name, 0))

pvcConditions(u) == CurrentUnless(Field(u, "phase", "unknown") # "Bound")

\* getCrashLoopingContainers: a container waits in CrashLoopBackOff. "aged":
\* the pod is older than ScheduleWindow. "error": Compute returns an error.
podConditions(u) ==
    LET phase == Field(u, "phase", "") IN
    CASE phase \in {"Succeeded", "Failed"} -> "Current"
      [] phase = "Running" ->
            IF HasCond(u, "Ready", "True") THEN "Current"
            ELSE IF Field(u, "crashLoop", FALSE) THEN "Failed" ELSE "InProgress"
      [] phase = "Pending" ->
            FirstCond(u, LAMBDA c : IF c.type # "PodScheduled" \/ c.status # "False" THEN "none"
                                    ELSE IF c.reason = "Unschedulable" /\ Field(u, "aged", FALSE)
                                         THEN "Failed" ELSE "InProgress", "InProgress")
      [] phase = "" -> "InProgress"
      [] OTHER      -> "error"

jobConditions(u) ==
    FirstCond(u, LAMBDA c : IF c.status # "True" THEN "none"
                            ELSE IF c.type = "Complete" THEN "Current"
                            ELSE IF c.type = "Failed" THEN "Failed"
                            ELSE IF c.type = "Suspended" /\ Field(u, "suspend", FALSE)
                                 THEN "Current" ELSE "none",
              CurrentUnless(Field(u, "startTime", "") = ""))

serviceConditions(u) ==
    CurrentUnless(Field(u, "type", "ClusterIP") = "LoadBalancer" /\ Field(u, "clusterIP", "") = "")

CRDConditions(u) ==
    FirstCond(u, LAMBDA c : IF c.type = "NamesAccepted" /\ c.status = "False" THEN "Failed"
                            ELSE IF c.type # "Established" THEN "none"
                            ELSE IF c.status = "False" /\ c.reason # "Installing" THEN "Failed"
                            ELSE IF c.status = "True" THEN "Current" ELSE "none", "InProgress")

----------------------------------------------------------------------------
(* status.go                                                               *)

\* legacyTypes: alwaysReady and pdbConditions say Current without a look.
Legacy(u) ==
    CASE u.kind = "StatefulSet" -> stsConditions(u)
      [] u.kind = "Deployment"  -> deploymentConditions(u)
      [] u.kind = "ReplicaSet"  -> replicasetConditions(u)
      [] u.kind = "DaemonSet"   -> daemonsetConditions(u)
      [] u.kind = "PersistentVolumeClaim" -> pvcConditions(u)
      [] u.kind = "Pod"         -> podConditions(u)
      [] u.kind = "Job"         -> jobConditions(u)
      [] u.kind = "Service"     -> serviceConditions(u)
      [] u.kind = "CustomResourceDefinition" -> CRDConditions(u)
      [] u.kind \in {"Secret", "ConfigMap", "CronJob", "PodDisruptionBudget"} -> "Current"
      [] OTHER                  -> checkReadyCondition(u)

Compute(u) ==
    LET generic == checkGenericProperties(u)
    IN  IF generic # "none" THEN generic ELSE Legacy(u)

\* Mutant: a condition of the type that is there already is left as it is.
AugmentOnce(u) ==
    LET present == {c.type : c \in Range(u.conds)}
    IN  [u EXCEPT !.conds = @ \o SetToSeq({Cond(t, "True", "kstatus") :
                                             t \in Standard(Compute(u)) \ present})]

\* Augment sets the standard conditions of the result, in place if they are
\* there, at the end otherwise. Nothing is written if Compute fails.
Augment(u) ==
    LET types   == Standard(Compute(u))
        present == {c.type : c \in Range(u.conds)}
        updated == [i \in DOMAIN u.conds |->
                       IF u.conds[i].type \in types
                       THEN Cond(u.conds[i].type, "True", "kstatus") ELSE u.conds[i]]
    IN  [u EXCEPT !.conds = updated \o SetToSeq({Cond(t, "True", "kstatus") : t \in types \ present})]
=============================================================================
