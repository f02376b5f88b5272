----------------------------- MODULE MCPolling ------------------------------
(* Instances of Polling for TLC.                                           *)
EXTENDS Polling

Object(k, conds, f) ==
    [kind |-> k, del |-> FALSE, gen |-> Unset, obs |-> Unset, conds |-> conds, f |-> f]
NoFields == [n \in {} |-> 0]
Plain(k, f) == Object(k, << >>, f)
One(type, status, reason) == << Cond(type, status, reason) >>

\* Objects of the kinds that have rules of their own, and of a kind that has
\* the standard conditions or Ready.
MCSamples ==
    [ Pod |-> { Plain("Pod", [phase |-> "Succeeded"]),
                Object("Pod", One("PodScheduled", "False", "Unschedulable"),
                       [phase |-> "Pending", aged |-> TRUE]),
                Plain("Pod", [phase |-> "Lost"]) },
      PersistentVolumeClaim |-> { Plain("PersistentVolumeClaim", [phase |-> "Pending"]),
                                  Plain("PersistentVolumeClaim", [phase |-> "Bound"]) },
      Job |-> { Plain("Job", NoFields),
                Object("Job", One("Failed", "True", ""), [startTime |-> "t"]),
                Object("Job", One("Suspended", "True", ""), [suspend |-> TRUE]),
                Object("Job", One("Complete", "True", ""), [startTime |-> "t"]) },
      Service |-> { Plain("Service", [type |-> "LoadBalancer"]),
                    Plain("Service", [type |-> "LoadBalancer", clusterIP |-> "ip"]) },
      CustomResourceDefinition |->
              { Object("CustomResourceDefinition", One("Established", "False", "Installing"), NoFields),
                Object("CustomResourceDefinition", One("NamesAccepted", "False", ""), NoFields),
                Object("CustomResourceDefinition", One("Established", "True", ""), NoFields) },
      ConfigMap |-> { [Plain("ConfigMap", NoFields) EXCEPT !.del = TRUE], Plain("ConfigMap", NoFields) },
      Custom |-> { Object("Custom", One("Ready", "Unknown", ""), NoFields),
                   Object("Custom", << Cond("Stalled", "False", ""),
                                       Cond("Reconciling", "True", "") >>, NoFields),
                   [Object("Custom", One("Reconciling", "False", ""), NoFields)
                        EXCEPT !.gen = 2, !.obs = 1],
                   Object("Custom", One("Stalled", "True", ""), NoFields),
                   Object("Custom", One("Ready", "True", ""), NoFields) } ]

MCNamespaceOf == [workload |-> "ns1", other |-> "ns2"]

\* The lists of generated objects do not change the status of a Deployment,
\* unless a rate limiter fails them, which none of its commands allows: moves
\* before them are as good as moves before the next list of Deployments.
Poll(k, o, ids, until) ==
    [invType |-> "local", inventories |-> << [name |-> "inv", refs |-> ids] >>,
     names |-> {}, namespaces |-> {}, kind |-> k, other |-> o, until |-> until, timeout |-> FALSE,
     badNamespace |-> FALSE, mayEnd |-> TRUE, faults |-> 1, gens |-> 1,
     moves |-> IF k = "Deployment" THEN {"workload"} ELSE {"workload", "pods"}]

\* All inventories of the cluster, one with each object.
Everything(first, second) ==
    [Poll("DaemonSet", "Service", << >>, "known")
        EXCEPT !.invType = "remote", !.faults = 0,
               !.inventories = << [name |-> first, refs |-> <<"workload">>],
                                  [name |-> second, refs |-> <<"other">>] >>]

\* A name, a namespace, two inventories of one name; nothing to poll; options
\* that are refused.
MCRemoteCommands ==
    { [Everything("inv", "inv2") EXCEPT !.names = {"inv"}],
      [Everything("inv", "inv2") EXCEPT !.namespaces = {"ns2"}],
      Everything("inv", "inv"),
      [Everything("inv", "inv2") EXCEPT !.names = {"inv3"}],
      Poll("DaemonSet", "Service", << >>, "known"),
      [Poll("DaemonSet", "Service", <<"other">>, "known") EXCEPT !.names = {"inv"}],
      Poll("DaemonSet", "Service", <<"other">>, "soon") }

\* Each workload, updated once, until it is current; calls that fail while a
\* workload is rolled out; each other kind under some rule; both at once.
MCCommands ==
    MCRemoteCommands \cup
    {[Poll(k, "ConfigMap", <<"workload">>, "current")
        EXCEPT !.mayEnd = FALSE, !.faults = 0, !.gens = 2] : k \in Kinds}
    \cup {[Poll(k, "ConfigMap", <<"workload">>, "known") EXCEPT !.mayEnd = FALSE]
              : k \in {"ReplicaSet", "Deployment"}}
    \cup {[Poll("DaemonSet", "PersistentVolumeClaim", <<"workload", "other">>, "current")
              EXCEPT !.mayEnd = FALSE, !.faults = 0]}
    \cup {[Poll("DaemonSet", o, <<"other">>, "current") EXCEPT !.timeout = TRUE] : o \in {"Pod", "Job", "Service"}}
    \cup {Poll("DaemonSet", o, <<"other">>, "known") : o \in {"Custom", "PersistentVolumeClaim"}}
    \cup {Poll("DaemonSet", o, <<"other">>, "deleted") : o \in {"ConfigMap", "Custom"}}
    \cup {Poll("DaemonSet", "CustomResourceDefinition", <<"other">>, "forever"),
          [Poll("DaemonSet", "Service", <<"other">>, "known") EXCEPT !.badNamespace = TRUE]}
=============================================================================
