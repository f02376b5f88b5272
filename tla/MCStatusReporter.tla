-------------------------- MODULE MCStatusReporter --------------------------
(* Instances of StatusReporter for TLC.                                    *)
EXTENDS StatusReporter

\* A CRD and, in a namespace, a widget of the kind it defines: the watch is at
\* root scope, with two informers.
CONSTANTS CRD, Widget, crd, widget, ns

MCGroupKind == [o \in Objects |-> IF o = crd THEN CRD ELSE Widget]
MCNamespace == [o \in Objects |-> IF o = crd THEN NoName ELSE ns]
MCDefines == [o \in Objects |-> IF o = crd THEN Widget ELSE NoKind]
MCNamespaceName == [o \in Objects |-> NoName]
MCChannels == (Targets \X (1 .. MaxStarts)) \cup {SyncChannel}

Scenario(c, w, n, f) ==
    [cluster |-> [o \in Objects |-> IF o = crd THEN c ELSE w], changes |-> n, faults |-> f]

\* The CRD and a widget of it are created, or the CRD twice updated; the CRD
\* is deleted; the widget is an unschedulable pod, whose status is read again
\* from the cluster and may fail to be; a call ends with an error of a context;
\* lists and lookups fail.
MCScenarios ==
    { Scenario("absent", "absent", 2, {}),
      Scenario("ready", "absent", 1, {}),
      Scenario("ready", "unschedulable", 0, {"read"}),
      Scenario("ready", "unschedulable", 0, {"deadline"}),
      Scenario("ready", "absent", 1, {"deadline"}),
      Scenario("ready", "absent", 0, {"list", "lookup"}) }
=============================================================================
