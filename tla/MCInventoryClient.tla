------------------------- MODULE MCInventoryClient --------------------------
(* A role whose name holds colons at its start and next to each other, and *)
(* a pod; inventories with a status of an object they do not list and with *)
(* an object that has none.                                                *)
EXTENDS InventoryClient

Role == [namespace |-> <<>>, name |-> <<":", "x", ":", ":">>, rbac |-> TRUE]
Pod  == [namespace |-> <<"n">>, name |-> <<"x">>, rbac |-> FALSE]

ContentsDef == {
    [refs |-> {Role, Pod}, statuses |-> [id \in {Role} |-> "pending"]],
    [refs |-> {Role},      statuses |-> [id \in {Role, Pod} |-> "done"]],
    NoContent}

\* kube-root-ca.crt, which every namespace of a cluster has.
RootCA == {{<<"ca", ".", "crt">>}}

AllModes == {"ConfigMap", "ConfigMapOnly", "Custom", "CustomObserved"}
==============================================================================
