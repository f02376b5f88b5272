-------------------------- MODULE InventoryManager --------------------------
(***************************************************************************)
(* The in-memory inventory of one run (pkg/inventory/manager.go): for each *)
(* object the strategy it is actuated with, how the actuation went, how    *)
(* the reconciliation went, and the UID and generation the API server      *)
(* answered.  The manager keeps a slice with at most one entry per object; *)
(* here it is a function, and an object that was never registered maps to  *)
(* the Untracked record.  Every operator takes a manager value `im' and    *)
(* returns the next one: the callers own the variable.                     *)
(***************************************************************************)
EXTENDS Integers

CONSTANTS Objects,  \* identifiers (ObjMetadata) of the objects of a run
          UIDs,     \* UIDs the API server gives out
          NoUID     \* the empty UID

ASSUME UIDAssumption == NoUID \notin UIDs

Strategies == {"Apply", "Delete"}
Actuations == {"Pending", "Succeeded", "Skipped", "Failed"}
Reconciles == {"Pending", "Succeeded", "Skipped", "Failed", "Timeout"}

ObjectStatus ==
    [strategy  : Strategies,
     actuation : Actuations,
     reconcile : Reconciles,
     uid       : UIDs \cup {NoUID},
     gen       : Nat]

Untracked ==
    [strategy |-> "None", actuation |-> "None", reconcile |-> "None",
     uid |-> NoUID, gen |-> 0]

Managers == [Objects -> ObjectStatus \cup {Untracked}]

NewManager == [id \in Objects |-> Untracked]

Found(im, id) == im[id] # Untracked

----------------------------------------------------------------------------
(* Registration replaces the whole entry of the object: a new actuation    *)
(* outcome always puts the reconcile status back to Pending.               *)

SetObjectStatus(im, id, strategy, actuation, uid, gen) ==
    [im EXCEPT ![id] = [strategy |-> strategy, actuation |-> actuation,
                        reconcile |-> "Pending", uid |-> uid, gen |-> gen]]

AddSuccessfulApply(im, id, uid, gen) ==
    SetObjectStatus(im, id, "Apply", "Succeeded", uid, gen)

\* A deleted object has no generation to wait for.
AddSuccessfulDelete(im, id, uid) ==
    SetObjectStatus(im, id, "Delete", "Succeeded", uid, 0)

\* Mutant: strategy and actuation swapped in the call.
AddUnsuccessfulSwapped(im, strategy, actuation, id) ==
    SetObjectStatus(im, id, actuation, strategy, NoUID, 0)

\* AddFailedApply, AddSkippedApply, AddFailedDelete, AddSkippedDelete.
AddUnsuccessful(im, strategy, actuation, id) ==
    SetObjectStatus(im, id, strategy, actuation, NoUID, 0)

\* AddPendingApply and AddPendingDelete for every object of a set.
AddPending(im, strategy, ids) ==
    [id \in Objects |->
        IF id \in ids
          THEN [strategy |-> strategy, actuation |-> "Pending",
                reconcile |-> "Pending", uid |-> NoUID, gen |-> 0]
          ELSE im[id]]

----------------------------------------------------------------------------
(* Set{Pending,Successful,Failed,Skipped,Timeout}Reconcile return an error *)
(* for an object that was never registered; the callers only log it.       *)

SetReconcile(im, id, reconcile) ==
    IF Found(im, id) THEN [im EXCEPT ![id].reconcile = reconcile] ELSE im

WithActuation(im, strategy, actuation) ==
    {id \in Objects : im[id].strategy = strategy /\ im[id].actuation = actuation}

WithReconcile(im, reconcile) == {id \in Objects : im[id].reconcile = reconcile}

\* Mutant: the UIDs of the deleted objects.
AppliedResourceUIDsOfDeletes(im) ==
    {im[id].uid : id \in WithActuation(im, "Delete", "Succeeded")} \ {NoUID}

AppliedResourceUIDs(im) ==
    {im[id].uid : id \in WithActuation(im, "Apply", "Succeeded")} \ {NoUID}
=============================================================================
