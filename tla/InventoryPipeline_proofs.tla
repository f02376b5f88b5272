---------------------- MODULE InventoryPipeline_proofs ----------------------
(***************************************************************************)
(* Theorems of InventoryPipeline, for every set of objects, graph and      *)
(* request, any number of runs and any number of changes by other actors.  *)
(***************************************************************************)
EXTENDS InventoryPipeline, Solver_proofs

\* The run prunes what the inventory has and the caller does not.
Prunes == request.destroy \/ request.prune

\* The objects that are in the prune sets of the plan.
ToPrune == {id \in Objects : planned[id] # Absent} \ invalid
Pruned  == IF Prunes THEN ToPrune ELSE {}

\* A queue q, rem of its first task left, has yet to actuate id.
AheadIn(q, rem, id) ==
    \/ q[1].action \in {"Apply", "Prune"} /\ id \in rem
    \/ \E i \in 2 .. Len(q) : q[i].action \in {"Apply", "Prune"} /\ id \in q[i].ids

\* A queue has yet to wait for id.
WaitIn(q, id) == \E i \in 1 .. Len(q) : q[i].action = "Wait" /\ id \in q[i].ids

\* The queue holds tasks for objects of the plan and ends with an inventory
\* task; what it actuates it waits for.
QueueInv ==
    queue # <<>> =>
        /\ request \in Requests
        /\ queue \in Seq(RunTasks(Added, Pruned))
        /\ queue[Len(queue)] = InventoryTask
        /\ remaining \subseteq queue[1].ids
        /\ queue[1].action = "Wait" => remaining = queue[1].ids
        /\ ~request.dryRun => WaitFollows(queue)

\* The key of an object is part of its UID.
UIDsOfKeys == \A k \in Keys : cluster[k] # Absent => cluster[k].uid[1] = k

\* What is pruned comes from the inventory and not from the caller.
PlannedInv ==
    \A id \in Objects : planned[id] # Absent =>
        /\ id \in refs \ request.local
        /\ planned[id].uid \in UIDs /\ planned[id].uid[1] = KeyOf[id]

\* The manager has the strategies of the plan.
RegisteredInv ==
    \A id \in Objects :
        /\ im[id].strategy = "Apply" <=> queue # <<>> /\ id \in Added
        /\ im[id].strategy = "Delete" <=> queue # <<>> /\ id \in Pruned

\* What has no outcome yet is ahead in the queue.
PendingInv ==
    queue # <<>> =>
        \A id \in Objects : im[id].actuation = "Pending" => AheadIn(queue, remaining, id)

\* So is the wait for what was actuated, and after that wait only a late report
\* makes it pending.
WaitedInv ==
    queue # <<>> /\ ~request.dryRun /\ ~LateReports =>
        \A id \in Objects :
            im[id].actuation = "Succeeded" /\ im[id].reconcile = "Pending" => WaitIn(queue, id)

\* An object with the UID it was planned to be deleted with, if it was applied
\* since, was applied with that UID.
AppliedInv ==
    \A id \in Objects : im[id].strategy = "Apply" /\ im[id].actuation = "Succeeded" =>
        /\ im[id].uid # NoUID => im[id].uid[1] = KeyOf[id]
        /\ ~request.dryRun =>
            \A p \in Objects :
                /\ planned[p] # Absent /\ KeyOf[p] = KeyOf[id]
                /\ cluster[KeyOf[p]].uid = planned[p].uid
                => im[id].uid = planned[p].uid

\* A deletion that is reconciled is that of the planned incarnation, and the wait
\* for it was not skipped.
DeletedInv ==
    \A id \in Objects : im[id].strategy = "Delete" /\ im[id].actuation = "Succeeded" =>
        /\ im[id].uid = planned[id].uid /\ im[id].reconcile # "Skipped"
        /\ im[id].reconcile = "Succeeded" => cluster[KeyOf[id]].uid # planned[id].uid

\* Only what is pruned is abandoned.
AbandonedInv == \A id \in abandoned : planned[id] # Absent

\* The inventory in memory is the stored one, and has what is applied once the
\* first task is done.
StoredInv ==
    queue # <<>> =>
        /\ ~request.dryRun => refs = stored.refs
        /\ (queue[1].action = "Inventory" /\ Len(queue) > 1) \/ Added \subseteq refs

\* An object of key k that is in the inventory for another reason than that the
\* run applies it is as it was when the run was planned.
AsPlanned(k) ==
    \A id \in refs : KeyOf[id] = k =>
        id \notin abandoned /\ planned[id].owner = "us" /\ planned[id].uid = cluster[k].uid

IsInvNamespace(k) == InvNamespace # NoObject /\ k = KeyOf[InvNamespace]

\* The caller gave an object of key k that the inventory has.
Kept(k) == \E id \in refs \cap request.local : KeyOf[id] = k

\* What is ours and in the inventory is the inventory's namespace, or of the
\* caller, or as it was when the run was planned.
OwnedInv ==
    queue # <<>> /\ ~request.dryRun =>
        \A k \in Keys : cluster[k].owner = "us" /\ (\E id \in refs : KeyOf[id] = k) =>
            IsInvNamespace(k) \/ Kept(k) \/ AsPlanned(k)

PipelineInv ==
    /\ TypeOK /\ QueueInv /\ UIDsOfKeys /\ PlannedInv /\ RegisteredInv /\ PendingInv
    /\ WaitedInv /\ AppliedInv /\ DeletedInv /\ AbandonedInv /\ StoredInv /\ OwnedInv

----------------------------------------------------------------------------
(* Planning.                                                               *)

\* What is in the cluster has a UID, what is not has none.
LEMMA AbsentOrNot ==
    /\ Absent.uid = NoUID /\ Absent.owner = "none" /\ Absent.terminating = FALSE
    /\ \A x \in Resource : x # Absent /\ x.uid \in UIDs /\ x.uid # NoUID
    /\ \A x \in Resource : x.owner \in Owners /\ x.keep \in BOOLEAN /\ x.terminating \in BOOLEAN
BY UIDAssumption DEF Absent, Resource

\* The plan of a request: what is valid of the call, and what is valid of the
\* objects of the inventory that the call has not, each in one set
\* (applier.go:122-145, destroyer.go:103-123).
LEMMA RunPlanWell ==
    ASSUME TypeOK, NEW r \in Requests, NEW prune \in BOOLEAN
    PROVE  /\ InvalidObjects(r) \in SUBSET Objects /\ r \in Request
           /\ RunGraph(r) \subseteq Explicit \cup Implicit
           /\ PruneObjects(r) \in SUBSET Objects /\ PruneObjects(r) \cap r.local = {}
           /\ RunPlan(r, prune) \in PlanType /\ OneSetEach(RunPlan(r, prune))
           /\ RunPlan(r, prune).destroy = r.destroy /\ RunPlan(r, prune).prune = prune
           /\ RunPlan(r, prune).dryRun = r.dryRun
           /\ RunPlan(r, prune).applySets \in Seq(SUBSET (r.local \ InvalidObjects(r)))
           /\ RunPlan(r, prune).pruneSets \in Seq(SUBSET (PruneObjects(r) \ InvalidObjects(r)))
           /\ Members(RunPlan(r, prune).applySets) = r.local \ InvalidObjects(r)
           /\ Members(RunPlan(r, prune).pruneSets) = PruneObjects(r) \ InvalidObjects(r)
<1> DEFINE V == Validated(r)
           g == RunGraph(r)
           inv == InvalidObjects(r)
           s == SortedPlan(SortLayers(V, g), r.local, PruneObjects(r), inv)
           p == RunPlan(r, prune)
<1>1. /\ r \in Request /\ r.local \in SUBSET Objects /\ r.bad \in SUBSET Objects
      /\ r.destroy \in BOOLEAN /\ r.dryRun \in BOOLEAN
  BY PipelineAssumption DEF Request
<1>2. stored.refs \subseteq Objects
  BY DEF TypeOK, NoInventory, Stored
<1>3. PruneObjects(r) \in SUBSET Objects /\ PruneObjects(r) \cap r.local = {}
  BY <1>2 DEF PruneObjects
<1>4. V \in SUBSET Objects /\ IsFiniteSet(V)
  <2>1. V \in SUBSET Objects
    BY <1>1, <1>3 DEF Validated
  <2> QED
    BY <2>1, FS_Subset, PipelineAssumption
<1>5. inv \in SUBSET Objects
  BY <1>1, <1>4 DEF InvalidObjects, ExternalDependents, CyclicVertices
<1>6. g \subseteq Explicit \cup Implicit
  BY DEF RunGraph, GraphOf
<1>7. \A id \in (r.local \cup PruneObjects(r)) \ inv : id \in Members(SortLayers(V, g))
  BY DEF InvalidObjects, CyclicVertices, Validated
<1>8. PlanWell(s, SortLayers(V, g), r.local \ inv, PruneObjects(r) \ inv)
  <2>1. r.local \in SUBSET Objects /\ r.local \cap PruneObjects(r) = {}
    BY <1>1, <1>3
  <2>2. PruneObjects(r) \in SUBSET Objects /\ V \in SUBSET Objects /\ IsFiniteSet(V)
        /\ inv \in SUBSET Objects
    BY <1>3, <1>4, <1>5
  <2> HIDE DEF V, g, inv
  <2> QED
    BY <2>1, <2>2, SortedPlanWell
<1>9. /\ Members(s.applySets) = r.local \ inv
      /\ Members(s.pruneSets) = PruneObjects(r) \ inv
  BY <1>7, <1>8 DEF PlanWell
<1>10. p = [s EXCEPT !.destroy = r.destroy, !.prune = prune, !.dryRun = r.dryRun]
  BY DEF RunPlan
<1> HIDE DEF s, p
<1>11. /\ p \in PlanType
       /\ p.applySets = s.applySets /\ p.pruneSets = s.pruneSets
       /\ p.destroy = r.destroy /\ p.prune = prune /\ p.dryRun = r.dryRun
  BY <1>1, <1>8, <1>10 DEF PlanType, PlanWell
<1>12. OneSetEach(p)
  BY <1>8, <1>11 DEF OneSetEach, PlanWell
<1> QED
  BY <1>1, <1>3, <1>5, <1>6, <1>8, <1>9, <1>11, <1>12 DEF p, PlanWell

\* What StartRun's registrations put into the manager (solver.go:170-199).
LEMMA PlannedManagerIs ==
    ASSUME NEW p, NEW id \in Objects
    PROVE  LET e == PlannedManager(p)[id]
           IN  /\ e.strategy = (IF p.prune /\ id \in Members(p.pruneSets) THEN "Delete"
                                  ELSE IF id \in Members(p.applySets) THEN "Apply" ELSE "None")
               /\ e.actuation \in {"Pending", "None"}
               /\ e.actuation = "Pending" => id \in Registered(p)
BY DEF PlannedManager, AddPending, NewManager, Untracked, Registered

----------------------------------------------------------------------------
(* Between runs.                                                           *)

\* Nothing that a run remembers.
LEMMA NothingRemembered ==
    /\ NoRequest \in Request /\ NothingPlanned \in [Objects -> Resource \cup {Absent}]
    /\ NewManager \in Managers
    /\ \A id \in Objects : NothingPlanned[id] = Absent
    /\ \A id \in Objects : NewManager[id].strategy = "None"
<1>1. NoRequest \in Request
  BY DEF NoRequest, Request, Policies
<1> QED
  BY <1>1 DEF NothingPlanned, NewManager, Managers, Untracked

\* No run is under way at the start (Init).
LEMMA InitInv == Init => PipelineInv
<1> SUFFICES ASSUME Init PROVE PipelineInv
  OBVIOUS
<1>1. TypeOK
  <2>1. 0 \in 0 .. MaxRuns /\ 0 \in 0 .. MaxDrift
    BY PipelineAssumption
  <2>2. cluster \in [Keys -> Resource \cup {Absent}]
    BY DEF Init
  <2>3. queue \in Seq(Task)
    BY DEF Init
  <2>4. /\ stored \in {NoInventory} \cup {Stored(x) : x \in SUBSET Objects}
        /\ checked \in Objects \cup {NoObject} /\ nsCreated \in BOOLEAN
        /\ failure \in {"none", "NamespaceExists"} /\ runs \in 0 .. MaxRuns
        /\ drift \in 0 .. MaxDrift
    BY <2>1 DEF Init
  <2>5. /\ remaining \subseteq Objects /\ graph \subseteq Explicit \cup Implicit
        /\ refs \subseteq Objects /\ abandoned \subseteq Objects /\ invalid \subseteq Objects
    BY DEF Init
  <2>6. /\ request \in Request /\ planned \in [Objects -> Resource \cup {Absent}]
        /\ im \in Managers
    BY NothingRemembered DEF Init
  <2> QED
    BY <2>2, <2>3, <2>4, <2>5, <2>6 DEF TypeOK
<1>2. QueueInv /\ PendingInv /\ WaitedInv /\ StoredInv /\ OwnedInv
  BY DEF Init, QueueInv, PendingInv, WaitedInv, StoredInv, OwnedInv
<1>3. UIDsOfKeys /\ PlannedInv /\ RegisteredInv /\ AppliedInv /\ DeletedInv /\ AbandonedInv
  BY NothingRemembered
     DEF Init, UIDsOfKeys, PlannedInv, RegisteredInv, AppliedInv, DeletedInv, AbandonedInv
<1> QED
  BY <1>1, <1>2, <1>3 DEF PipelineInv

\* However a run ends, what it remembers is gone, and the cluster is as it was.
LEMMA ForgetKeeps ==
    ASSUME PipelineInv, Forget, UNCHANGED <<cluster, runs, drift>>,
           stored' \in {NoInventory} \cup {Stored(x) : x \in SUBSET Objects},
           failure' \in {"none", "NamespaceExists"}
    PROVE  PipelineInv'
<1>1. TypeOK'
  <2>1. cluster' \in [Keys -> Resource \cup {Absent}] /\ runs' \in 0 .. MaxRuns
        /\ drift' \in 0 .. MaxDrift
    BY DEF PipelineInv, TypeOK
  <2>2. queue' \in Seq(Task) /\ checked' \in Objects \cup {NoObject} /\ nsCreated' \in BOOLEAN
    <3>1. queue' \in Seq(Task)
      BY DEF Forget
    <3>2. checked' \in Objects \cup {NoObject}
      BY DEF Forget
    <3>3. nsCreated' \in BOOLEAN
      BY Zenon DEF Forget
    <3> QED
      BY <3>1, <3>2, <3>3
  <2>3. /\ remaining' \subseteq Objects /\ graph' \subseteq Explicit \cup Implicit
        /\ refs' \subseteq Objects /\ abandoned' \subseteq Objects /\ invalid' \subseteq Objects
    BY DEF Forget
  <2>4. /\ request' \in Request /\ planned' \in [Objects -> Resource \cup {Absent}]
        /\ im' \in Managers
    BY NothingRemembered DEF Forget
  <2> QED
    BY <2>1, <2>2, <2>3, <2>4 DEF TypeOK
<1>2. QueueInv' /\ PendingInv' /\ WaitedInv' /\ StoredInv' /\ OwnedInv'
  BY DEF Forget, QueueInv, PendingInv, WaitedInv, StoredInv, OwnedInv
<1>3. UIDsOfKeys'
  BY DEF PipelineInv, UIDsOfKeys
<1>4. PlannedInv' /\ RegisteredInv' /\ AppliedInv' /\ DeletedInv' /\ AbandonedInv'
  BY NothingRemembered
     DEF Forget, PlannedInv, RegisteredInv, AppliedInv, DeletedInv, AbandonedInv
<1> QED
  BY <1>1, <1>2, <1>3, <1>4 DEF PipelineInv

----------------------------------------------------------------------------
(* The start of a run.                                                     *)

\* A run starts with everything it will do ahead of it.
LEMMA StartRunKeeps ==
    ASSUME PipelineInv, NEW r \in Requests, NEW prune \in BOOLEAN, StartRun(r, prune),
           prune = (r.destroy \/ r.prune)
    PROVE  PipelineInv'
<1> DEFINE p == RunPlan(r, prune)
           inv == InvalidObjects(r)
           A == r.local \ inv
           P == PruneObjects(r) \ inv
           q == Build(p)
<1>1. TypeOK
  BY DEF PipelineInv
<1>2. /\ inv \in SUBSET Objects /\ r \in Request
      /\ RunGraph(r) \subseteq Explicit \cup Implicit
      /\ PruneObjects(r) \in SUBSET Objects /\ PruneObjects(r) \cap r.local = {}
      /\ p \in PlanType /\ OneSetEach(p)
      /\ p.destroy = r.destroy /\ p.prune = prune /\ p.dryRun = r.dryRun
      /\ p.applySets \in Seq(SUBSET A) /\ p.pruneSets \in Seq(SUBSET P)
      /\ Members(p.applySets) = A /\ Members(p.pruneSets) = P
  BY <1>1, RunPlanWell
<1>3. /\ request' = r /\ graph' = RunGraph(r) /\ invalid' = inv
      /\ planned' = [id \in Objects |->
                       IF id \in PruneObjects(r) THEN cluster[KeyOf[id]] ELSE Absent]
      /\ queue' = q /\ im' = PlannedManager(p) /\ refs' = stored.refs
      /\ remaining' = Head(queue').ids /\ checked' = NoObject /\ abandoned' = {}
      /\ nsCreated' = FALSE /\ failure' = "none" /\ runs < MaxRuns /\ runs' = runs + 1
      /\ UNCHANGED <<cluster, stored, drift>>
  BY DEF StartRun
<1>4. A \in SUBSET Objects /\ P \in SUBSET Objects
  BY <1>2 DEF Request
<1>5. /\ \A id \in PruneObjects(r) : cluster[KeyOf[id]] \in Resource /\ id \in stored.refs
      /\ \A id \in Objects : KeyOf[id] \in Keys
  <2>1. \A id \in Objects : KeyOf[id] \in Keys
    BY PipelineAssumption
  <2>2. \A k \in Keys : cluster[k] # Absent => cluster[k] \in Resource
    BY <1>1 DEF TypeOK
  <2>3. \A id \in PruneObjects(r) :
          id \in stored.refs /\ id \in Objects /\ cluster[KeyOf[id]] # Absent
    BY <1>2 DEF PruneObjects, Exists
  <2> QED
    BY <2>1, <2>2, <2>3
<1>6. /\ \A id \in Objects : planned'[id] # Absent <=> id \in PruneObjects(r)
      /\ \A id \in PruneObjects(r) : planned'[id] = cluster[KeyOf[id]]
      /\ planned' \in [Objects -> Resource \cup {Absent}]
  BY <1>2, <1>3, <1>5, AbsentOrNot
<1>7. Added' = A /\ ToPrune' = P /\ Pruned' = IF prune THEN P ELSE {}
  BY <1>2, <1>3, <1>6 DEF Added, ToPrune, Pruned, Prunes
<1> HIDE DEF p, q, inv, A, P
<1>8. /\ q \in Seq(RunTasks(A, IF prune THEN P ELSE {}))
      /\ q # <<>> /\ q[Len(q)] = InventoryTask
      /\ ~p.dryRun => WaitFollows(q)
      /\ ~p.destroy => Len(q) > 1 /\ q[1] = InventoryTask
  <2> DEFINE S == IF prune THEN P ELSE {}
  <2>1. S \in SUBSET Objects /\ (p.prune => p.pruneSets \in Seq(SUBSET S))
    BY <1>2, <1>4
  <2> HIDE DEF S
  <2>2. q \in Seq(RunTasks(A, S))
        /\ q # <<>> /\ q[Len(q)] = InventoryTask
        /\ (~p.dryRun => WaitFollows(q))
        /\ (~p.destroy => Len(q) > 1 /\ q[1] = InventoryTask)
    BY <1>2, <1>4, <2>1, BuildTasks DEF q
  <2> QED
    BY <2>2 DEF S
<1>9. q \in Seq(Task) /\ Len(q) \in Nat /\ Len(q) > 0 /\ Head(q) = q[1] /\ q[1] \in Task
  <2>1. q \in Seq(Task)
    BY <1>8 DEF RunTasks
  <2> QED
    BY <1>8, <2>1
<1>10. remaining' = q[1].ids /\ remaining' \subseteq Objects
  BY <1>3, <1>9 DEF Task
<1>11. TypeOK'
  <2>1. im' \in Managers
    BY <1>3, PlannedManagerType
  <2>2. runs' \in 0 .. MaxRuns
    BY <1>1, <1>3, PipelineAssumption DEF TypeOK
  <2>3. refs' \subseteq Objects
    BY <1>1, <1>3 DEF TypeOK, NoInventory, Stored
  <2> QED
    BY <1>1, <1>2, <1>3, <1>6, <1>9, <1>10, <2>1, <2>2, <2>3 DEF TypeOK
<1>12. QueueInv'
  BY <1>2, <1>3, <1>7, <1>8, <1>10 DEF QueueInv
<1>13. UIDsOfKeys' /\ PlannedInv'
  <2>1. UIDsOfKeys
    BY DEF PipelineInv
  <2>2. UIDsOfKeys'
    BY <1>3, <2>1 DEF UIDsOfKeys
  <2>3. \A id \in PruneObjects(r) :
          cluster[KeyOf[id]].uid \in UIDs /\ cluster[KeyOf[id]].uid[1] = KeyOf[id]
    BY <1>2, <1>5, <2>1, AbsentOrNot DEF UIDsOfKeys
  <2> QED
    BY <1>2, <1>3, <1>5, <1>6, <2>2, <2>3 DEF PlannedInv
<1>14. \A id \in Objects :
          /\ im'[id].strategy = (IF prune /\ id \in P THEN "Delete"
                                   ELSE IF id \in A THEN "Apply" ELSE "None")
          /\ im'[id].actuation \in {"Pending", "None"}
          /\ im'[id].actuation = "Pending" => id \in Registered(p)
  BY <1>2, <1>3, PlannedManagerIs
<1>15. RegisteredInv'
  <2>1. A \cap P = {}
    BY <1>2 DEF A, P
  <2> QED
    BY <1>3, <1>7, <1>8, <1>14, <2>1 DEF RegisteredInv
<1>16. PendingInv'
  <2> SUFFICES ASSUME NEW id \in Objects, im'[id].actuation = "Pending"
               PROVE  AheadIn(q, q[1].ids, id)
    BY <1>3, <1>10 DEF PendingInv
  <2>1. QueuedToActuate(q, id)
    BY <1>2, <1>14, BuildOrder DEF q
  <2>2. PICK i \in 1 .. Len(q) : q[i].action # "Wait" /\ id \in q[i].ids
    BY <2>1 DEF QueuedToActuate
  <2>3. q[i].action \in {"Apply", "Prune"}
    <3>1. q[i] \in RunTasks(A, IF prune THEN P ELSE {})
      BY <1>8
    <3> QED
      BY <2>2, <3>1 DEF RunTasks, Task
  <2>4. i = 1 \/ i \in 2 .. Len(q)
    BY <1>9
  <2> QED
    BY <2>2, <2>3, <2>4 DEF AheadIn
<1>17. WaitedInv' /\ AppliedInv' /\ DeletedInv' /\ AbandonedInv'
  BY <1>3, <1>14 DEF WaitedInv, AppliedInv, DeletedInv, AbandonedInv
<1>18. StoredInv'
  <2>1. r.destroy => A = {}
    BY PipelineAssumption DEF A
  <2>2. ~r.destroy => q[1].action = "Inventory" /\ Len(q) > 1
    BY <1>2, <1>8 DEF InventoryTask
  <2> QED
    BY <1>3, <1>7, <2>1, <2>2 DEF StoredInv
<1>19. OwnedInv'
  <2> SUFFICES ASSUME NEW k \in Keys, cluster[k].owner = "us", ~Kept(k)'
               PROVE  AsPlanned(k)'
    BY <1>3 DEF OwnedInv
  <2>1. ASSUME NEW id \in stored.refs, KeyOf[id] = k
        PROVE  id \in PruneObjects(r)
    <3>1. id \notin r.local
      BY <1>3, <2>1 DEF Kept
    <3>2. cluster[k] # Absent
      BY AbsentOrNot
    <3> QED
      BY <2>1, <3>1, <3>2 DEF PruneObjects, Exists
  <2> QED
    BY <1>3, <1>6, <2>1 DEF AsPlanned
<1> QED
  BY <1>11, <1>12, <1>13, <1>15, <1>16, <1>17, <1>18, <1>19 DEF PipelineInv

----------------------------------------------------------------------------
(* Steps that change the cluster.                                          *)

\* What a step may do to the cluster while a run is under way: no key gets a
\* UID something was planned to be deleted with, and only the run makes things
\* ours.
ClusterEffect ==
    /\ cluster' \in [Keys -> Resource \cup {Absent}]
    /\ \A k \in Keys :
          /\ cluster'[k] # Absent => cluster'[k].uid[1] = k
          /\ \/ cluster'[k].uid = cluster[k].uid
             \/ \A p \in Objects : planned[p] # Absent => cluster'[k].uid # planned[p].uid
          /\ cluster'[k].owner = "us" =>
                \/ cluster[k].owner = "us" /\ cluster'[k].uid = cluster[k].uid
                \/ IsInvNamespace(k) \/ Kept(k)

\* A step that leaves the cluster alone has no effect on it.
LEMMA NoEffect == PipelineInv /\ cluster' = cluster => ClusterEffect
BY DEF PipelineInv, TypeOK, UIDsOfKeys, ClusterEffect

\* Something with a UID nobody knows appears.
LEMMA FreshEffect ==
    ASSUME PipelineInv, NEW k \in Keys, NEW u \in FreshUIDs(k), NEW o \in Owners,
           cluster' = [cluster EXCEPT ![k] = [Owned(u) EXCEPT !.owner = o]],
           o = "us" => IsInvNamespace(k) \/ Kept(k)
    PROVE  ClusterEffect
<1> DEFINE x == [Owned(u) EXCEPT !.owner = o]
<1>1. u \in UIDs /\ u[1] = k /\ \A p \in Objects : u # planned[p].uid
  BY DEF FreshUIDs
<1>2. x \in Resource /\ x.uid = u /\ x.owner = o
  BY <1>1 DEF Owned, Resource
<1>3. cluster \in [Keys -> Resource \cup {Absent}] /\ UIDsOfKeys
  BY DEF PipelineInv, TypeOK
<1> HIDE DEF x
<1>4. cluster' \in [Keys -> Resource \cup {Absent}]
      /\ cluster'[k] = x /\ \A j \in Keys : j # k => cluster'[j] = cluster[j]
  BY <1>2, <1>3 DEF x
<1> QED
  BY <1>1, <1>2, <1>3, <1>4 DEF ClusterEffect, UIDsOfKeys

\* Something changes, or is marked, and stays what it is.
LEMMA ChangeEffect ==
    ASSUME PipelineInv, NEW k \in Keys, cluster[k] # Absent, NEW x \in Resource,
           x.uid = cluster[k].uid, cluster' = [cluster EXCEPT ![k] = x],
           x.owner = "us" => cluster[k].owner = "us" \/ IsInvNamespace(k) \/ Kept(k)
    PROVE  ClusterEffect
<1>1. cluster \in [Keys -> Resource \cup {Absent}] /\ UIDsOfKeys
  BY DEF PipelineInv, TypeOK
<1>2. cluster' \in [Keys -> Resource \cup {Absent}]
      /\ cluster'[k] = x /\ \A j \in Keys : j # k => cluster'[j] = cluster[j]
  BY <1>1
<1> QED
  BY <1>1, <1>2 DEF ClusterEffect, UIDsOfKeys

\* Something goes.
LEMMA GoneEffect ==
    ASSUME PipelineInv, NEW k \in Keys, cluster' = [cluster EXCEPT ![k] = Absent]
    PROVE  ClusterEffect
<1>1. /\ cluster \in [Keys -> Resource \cup {Absent}] /\ UIDsOfKeys
      /\ \A p \in Objects : planned[p] # Absent => planned[p].uid \in UIDs
  BY DEF PipelineInv, TypeOK, PlannedInv
<1>2. cluster' \in [Keys -> Resource \cup {Absent}]
      /\ cluster'[k] = Absent /\ \A j \in Keys : j # k => cluster'[j] = cluster[j]
  BY <1>1
<1> QED
  BY <1>1, <1>2, AbsentOrNot, UIDAssumption DEF ClusterEffect, UIDsOfKeys

\* What is known of the objects of the inventory goes on being true.
LEMMA OwnedKeeps ==
    ASSUME PipelineInv, ClusterEffect, UNCHANGED <<queue, request, refs, planned>>,
           \A id \in abandoned' \ abandoned :
              \/ planned[id].owner # "us"
              \/ cluster'[KeyOf[id]].owner # "us" \/ Kept(KeyOf[id])
    PROVE  OwnedInv'
<1> SUFFICES ASSUME queue # <<>>, ~request.dryRun, NEW k \in Keys, cluster'[k].owner = "us",
                    NEW x \in refs, KeyOf[x] = k, ~IsInvNamespace(k), ~Kept(k)
             PROVE  AsPlanned(k)'
  BY DEF OwnedInv, IsInvNamespace, Kept
<1>1. cluster[k].owner = "us" /\ cluster'[k].uid = cluster[k].uid
  BY DEF ClusterEffect
<1>2. AsPlanned(k)
  BY <1>1 DEF PipelineInv, OwnedInv
<1> QED
  BY <1>1, <1>2 DEF AsPlanned

\* Other actors, and the creation of the inventory's namespace, keep the
\* invariant.
LEMMA ClusterKeeps ==
    ASSUME PipelineInv, ClusterEffect, UNCHANGED planVars,
           UNCHANGED <<queue, remaining, refs, im, abandoned, stored, checked, failure, runs>>,
           nsCreated' \in BOOLEAN, drift' \in 0 .. MaxDrift
    PROVE  PipelineInv'
<1> USE DEF planVars
<1>1. TypeOK'
  BY DEF PipelineInv, TypeOK, ClusterEffect
<1>2. QueueInv' /\ PendingInv' /\ WaitedInv' /\ StoredInv'
  <2>1. Added' = Added /\ Pruned' = Pruned
    BY DEF Added, Pruned, Prunes, ToPrune
  <2> QED
    BY <2>1 DEF PipelineInv, QueueInv, PendingInv, WaitedInv, StoredInv
<1>3. UIDsOfKeys'
  BY DEF ClusterEffect, UIDsOfKeys
<1>4. PlannedInv' /\ RegisteredInv' /\ AbandonedInv'
  BY DEF PipelineInv, PlannedInv, RegisteredInv, AbandonedInv, Added, Pruned, Prunes, ToPrune
<1>5. \A id \in Objects : KeyOf[id] \in Keys
  BY PipelineAssumption
<1>6. AppliedInv'
  BY <1>5 DEF PipelineInv, AppliedInv, ClusterEffect
<1>7. DeletedInv'
  <2>1. \A id \in Objects : im[id].strategy = "Delete" => planned[id] # Absent
    BY DEF PipelineInv, RegisteredInv, Pruned, ToPrune
  <2> QED
    BY <1>5, <2>1 DEF PipelineInv, DeletedInv, ClusterEffect
<1>8. OwnedInv'
  BY OwnedKeeps
<1> QED
  BY <1>1, <1>2, <1>3, <1>4, <1>6, <1>7, <1>8 DEF PipelineInv

----------------------------------------------------------------------------
(* Steps that handle an object.                                            *)

\* The queue while a run is under way.
LEMMA QueueFacts ==
    ASSUME PipelineInv, queue # <<>>
    PROVE  /\ queue \in Seq(Task) /\ Len(queue) \in Nat /\ Len(queue) > 0
           /\ Head(queue) = queue[1]
           /\ \A i \in 1 .. Len(queue) : queue[i] \in RunTasks(Added, Pruned)
           /\ Added \subseteq Objects /\ Pruned \subseteq Objects
           /\ \A id \in Added \cup Pruned : im[id] \in ObjectStatus
           /\ \A id \in Objects : KeyOf[id] \in Keys
<1>1. queue \in Seq(Task) /\ queue \in Seq(RunTasks(Added, Pruned))
  BY DEF PipelineInv, TypeOK, QueueInv
<1>2. Added \subseteq Objects
  BY DEF PipelineInv, TypeOK, Added, Request
<1>3. Pruned \subseteq Objects
  BY DEF Pruned, ToPrune
<1>4. \A id \in Added \cup Pruned : im[id] \in ObjectStatus
  <2>1. \A id \in Objects : im[id] \in ObjectStatus \/ im[id] = Untracked
    BY DEF PipelineInv, TypeOK, Managers
  <2>2. Untracked.strategy = "None"
    BY DEF Untracked
  <2>3. \A id \in Added \cup Pruned : im[id].strategy \in {"Apply", "Delete"}
    BY <1>2, <1>3 DEF PipelineInv, RegisteredInv
  <2> QED
    BY <1>2, <1>3, <2>1, <2>2, <2>3
<1>5. \A id \in Objects : KeyOf[id] \in Keys
  BY PipelineAssumption
<1> QED
  BY <1>1, <1>2, <1>3, <1>4, <1>5

\* An object of an apply task is of the caller and valid, and in the inventory.
LEMMA ApplyFacts ==
    ASSUME PipelineInv, NEW id \in Objects, Handling("Apply", id)
    PROVE  /\ queue # <<>> /\ queue[1].action = "Apply" /\ id \in remaining
           /\ id \in Added /\ im[id].strategy = "Apply"
           /\ id \in refs \cap request.local /\ Kept(KeyOf[id])
           /\ (~request.dryRun => id \in stored.refs)
<1>1. queue # <<>> /\ queue[1].action = "Apply" /\ id \in remaining
  BY QueueFacts DEF Handling
<1>2. id \in queue[1].ids /\ queue[1] \in RunTasks(Added, Pruned)
  BY <1>1, QueueFacts DEF PipelineInv, QueueInv
<1>3. id \in Added
  BY <1>1, <1>2 DEF RunTasks
<1>4. im[id].strategy = "Apply"
  BY <1>1, <1>3 DEF PipelineInv, RegisteredInv
<1>5. Added \subseteq refs /\ (~request.dryRun => refs = stored.refs)
  BY <1>1 DEF PipelineInv, StoredInv
<1>6. id \in request.local
  BY <1>3 DEF Added
<1> QED
  BY <1>1, <1>3, <1>4, <1>5, <1>6 DEF Kept

\* An object of a prune task is of the inventory and not of the caller.
LEMMA PruneFacts ==
    ASSUME PipelineInv, NEW id \in Objects, Handling("Prune", id)
    PROVE  /\ queue # <<>> /\ queue[1].action = "Prune" /\ id \in remaining
           /\ id \in Pruned /\ im[id].strategy = "Delete"
           /\ planned[id] \in Resource /\ planned[id].uid \in UIDs
           /\ id \in refs \ request.local
<1>1. queue # <<>> /\ queue[1].action = "Prune" /\ id \in remaining
  BY QueueFacts DEF Handling
<1>2. id \in queue[1].ids /\ queue[1] \in RunTasks(Added, Pruned)
  BY <1>1, QueueFacts DEF PipelineInv, QueueInv
<1>3. id \in Pruned
  BY <1>1, <1>2 DEF RunTasks
<1>4. im[id].strategy = "Delete"
  BY <1>1, <1>3 DEF PipelineInv, RegisteredInv
<1>5. planned[id] # Absent
  BY <1>3 DEF Pruned, ToPrune
<1> QED
  BY <1>1, <1>3, <1>4, <1>5 DEF PipelineInv, PlannedInv, TypeOK

\* What handling an object registers: an outcome, with the UID it is about.
Outcome(id) ==
    LET e == im'[id]
    IN  /\ e \in ObjectStatus /\ e.strategy = im[id].strategy
        /\ e.actuation # "Pending" /\ e.reconcile = "Pending"
        /\ e.strategy = "Apply" /\ e.actuation = "Succeeded" /\ e.uid # NoUID =>
              e.uid[1] = KeyOf[id]
        /\ e.strategy = "Apply" /\ e.actuation = "Succeeded" /\ ~request.dryRun =>
              e.uid = cluster'[KeyOf[id]].uid
        /\ e.strategy = "Delete" /\ e.actuation = "Succeeded" => e.uid = planned[id].uid

\* Handling an object keeps the invariant.
LEMMA HandledKeeps ==
    ASSUME PipelineInv, NEW id \in Objects, Handling("Apply", id) \/ Handling("Prune", id),
           Handled(id), ClusterEffect,
           im' = [im EXCEPT ![id] = im'[id]], Outcome(id),
           abandoned' \subseteq Objects, \A x \in abandoned' : planned[x] # Absent,
           \A x \in abandoned' \ abandoned :
              \/ planned[x].owner # "us"
              \/ cluster'[KeyOf[x]].owner # "us" \/ Kept(KeyOf[x])
    PROVE  PipelineInv'
<1>0. /\ queue # <<>> /\ queue[1].action \in {"Apply", "Prune"} /\ id \in remaining
      /\ id \in Added \cup Pruned
  BY ApplyFacts, PruneFacts
<1>1. /\ remaining' = remaining \ {id} /\ checked' = NoObject
      /\ UNCHANGED <<stored, queue, request, graph, planned, invalid, refs, nsCreated,
                     failure, runs, drift>>
  BY DEF Handled, planVars
<1>2. /\ im \in Managers /\ im'[id] \in ObjectStatus
      /\ \A x \in Objects : x # id => im'[x] = im[x]
      /\ im' \in Managers
  <2>1. im \in [Objects -> ObjectStatus \cup {Untracked}]
    BY DEF PipelineInv, TypeOK, Managers
  <2>2. im'[id] \in ObjectStatus
    BY DEF Outcome
  <2> QED
    BY <2>1, <2>2 DEF Managers
<1>3. Added' = Added /\ Pruned' = Pruned
  BY <1>1 DEF Added, Pruned, Prunes, ToPrune
<1>4. TypeOK'
  BY <1>1, <1>2 DEF PipelineInv, TypeOK, ClusterEffect
<1>5. QueueInv' /\ StoredInv'
  BY <1>0, <1>1, <1>3 DEF PipelineInv, QueueInv, StoredInv
<1>6. UIDsOfKeys'
  BY DEF ClusterEffect, UIDsOfKeys
<1>7. PlannedInv' /\ AbandonedInv'
  BY <1>1 DEF PipelineInv, PlannedInv, AbandonedInv
<1>8. RegisteredInv'
  <2>1. \A x \in Objects : im'[x].strategy = im[x].strategy
    BY <1>2 DEF Outcome
  <2> QED
    BY <1>1, <1>3, <2>1 DEF PipelineInv, RegisteredInv
<1>9. PendingInv'
  <2> SUFFICES ASSUME NEW x \in Objects, im'[x].actuation = "Pending"
               PROVE  AheadIn(queue, remaining', x)
    BY <1>1 DEF PendingInv
  <2>1. x # id /\ im'[x] = im[x]
    BY <1>2 DEF Outcome
  <2>2. AheadIn(queue, remaining, x)
    BY <1>0, <2>1 DEF PipelineInv, PendingInv
  <2> QED
    BY <1>1, <2>1, <2>2 DEF AheadIn
<1>10. WaitedInv'
  <2> SUFFICES ASSUME ~request.dryRun, ~LateReports, NEW x \in Objects,
                      im'[x].actuation = "Succeeded", im'[x].reconcile = "Pending"
               PROVE  WaitIn(queue, x)
    BY <1>1 DEF WaitedInv
  <2>1. CASE x # id
    BY <1>0, <1>2, <2>1 DEF PipelineInv, WaitedInv
  <2>2. CASE x = id
    <3>1. id \in queue[1].ids /\ 1 \in 1 .. Len(queue) /\ Len(queue) \in Nat
      BY <1>0, QueueFacts DEF PipelineInv, QueueInv
    <3>2. WaitFollows(queue)
      BY <1>0 DEF PipelineInv, QueueInv
    <3>3. PICK j \in 1 + 1 .. Len(queue) :
              queue[j].action = "Wait" /\ queue[1].ids \subseteq queue[j].ids
      BY <1>0, <3>1, <3>2 DEF WaitFollows
    <3>4. j \in 1 .. Len(queue)
      BY <3>1, <3>3
    <3> QED
      BY <2>2, <3>1, <3>3, <3>4 DEF WaitIn
  <2> QED
    BY <2>1, <2>2
<1>11. \A x \in Objects : KeyOf[x] \in Keys
  BY PipelineAssumption
<1>12. AppliedInv'
  <2> SUFFICES ASSUME NEW x \in Objects, im'[x].strategy = "Apply", im'[x].actuation = "Succeeded"
               PROVE  /\ im'[x].uid # NoUID => im'[x].uid[1] = KeyOf[x]
                      /\ ~request.dryRun =>
                          \A p \in Objects :
                              /\ planned[p] # Absent /\ KeyOf[p] = KeyOf[x]
                              /\ cluster'[KeyOf[p]].uid = planned[p].uid
                              => im'[x].uid = planned[p].uid
    BY <1>1 DEF AppliedInv
  <2>1. CASE x = id
    BY <2>1 DEF Outcome
  <2>2. CASE x # id
    BY <1>2, <1>11, <2>2 DEF PipelineInv, AppliedInv, ClusterEffect
  <2> QED
    BY <2>1, <2>2
<1>13. DeletedInv'
  <2> SUFFICES ASSUME NEW x \in Objects, im'[x].strategy = "Delete", im'[x].actuation = "Succeeded"
               PROVE  /\ im'[x].uid = planned[x].uid /\ im'[x].reconcile # "Skipped"
                      /\ im'[x].reconcile = "Succeeded" =>
                            cluster'[KeyOf[x]].uid # planned[x].uid
    BY <1>1 DEF DeletedInv
  <2>1. CASE x = id
    BY <2>1 DEF Outcome
  <2>2. CASE x # id
    <3>1. planned[x] # Absent
      BY <1>2, <2>2 DEF PipelineInv, RegisteredInv, Pruned, ToPrune
    <3> QED
      BY <1>2, <1>11, <2>2, <3>1 DEF PipelineInv, DeletedInv, ClusterEffect
  <2> QED
    BY <2>1, <2>2
<1>14. OwnedInv'
  BY <1>1, OwnedKeeps
<1> QED
  BY <1>4, <1>5, <1>6, <1>7, <1>8, <1>9, <1>10, <1>12, <1>13, <1>14 DEF PipelineInv

----------------------------------------------------------------------------
(* Steps to the next task.                                                 *)

\* The next task, with all of its objects left; what was ahead is ahead.
LEMMA PopQueue ==
    ASSUME PipelineInv, Len(queue) > 1, Pop, UNCHANGED planVars,
           queue[1].action \in {"Apply", "Prune"} => remaining = {}
    PROVE  /\ queue # <<>> /\ queue' \in Seq(Task) /\ remaining' \subseteq Objects
           /\ QueueInv' /\ checked' = checked /\ queue' # <<>> /\ Len(queue) \in Nat
           /\ Added' = Added /\ Pruned' = Pruned
           /\ \A id : AheadIn(queue, remaining, id) => AheadIn(queue', remaining', id)
           /\ \A id : WaitIn(queue, id) =>
                WaitIn(queue', id) \/ (queue[1].action = "Wait" /\ id \in queue[1].ids)
<1>0. queue # <<>> /\ queue \in Seq(Task) /\ Len(queue) \in Nat
  <2>1. queue \in Seq(Task)
    BY DEF PipelineInv, TypeOK
  <2> QED
    BY <2>1
<1>1. Added' = Added /\ Pruned' = Pruned /\ request' = request
  BY DEF Added, Pruned, Prunes, ToPrune, planVars
<1> DEFINE T == RunTasks(Added, Pruned)
<1>2. queue \in Seq(T) /\ request \in Requests /\ queue[Len(queue)] = InventoryTask
      /\ (~request.dryRun => WaitFollows(queue))
  BY <1>0 DEF PipelineInv, QueueInv
<1>3. T \subseteq Task
  BY DEF RunTasks
<1> HIDE DEF T
<1>4. /\ queue' \in Seq(T) /\ Len(queue') = Len(queue) - 1 /\ queue' # <<>>
      /\ \A i \in 1 .. Len(queue') : queue'[i] = queue[i + 1]
  <2>1. queue' = Tail(queue)
    BY DEF Pop
  <2> QED
    BY <1>0, <1>2, <2>1
<1>5. remaining' = queue'[1].ids /\ queue'[1] \in T /\ checked' = checked
  BY <1>0, <1>4 DEF Pop
<1>6. queue' \in Seq(Task) /\ remaining' \subseteq Objects
  <2>1. queue'[1].ids \subseteq Objects
    BY <1>3, <1>5 DEF Task
  <2> QED
    BY <1>3, <1>4, <1>5, <2>1, WiderSeq
<1>7. queue'[Len(queue')] = InventoryTask
  BY <1>0, <1>2, <1>4
<1>8. ~request.dryRun => WaitFollows(queue')
  <2> SUFFICES ASSUME ~request.dryRun, NEW i \in 1 .. Len(queue'),
                      queue'[i].action \in {"Apply", "Prune"}
               PROVE  \E j \in i + 1 .. Len(queue') :
                         queue'[j].action = "Wait" /\ queue'[i].ids \subseteq queue'[j].ids
    BY DEF WaitFollows
  <2>1. i + 1 \in 1 .. Len(queue) /\ queue'[i] = queue[i + 1] /\ i \in Nat
    BY <1>0, <1>4
  <2>2. PICK j \in (i + 1) + 1 .. Len(queue) :
            queue[j].action = "Wait" /\ queue[i + 1].ids \subseteq queue[j].ids
    BY <1>2, <2>1 DEF WaitFollows
  <2>3. j - 1 \in i + 1 .. Len(queue') /\ j - 1 \in 1 .. Len(queue') /\ (j - 1) + 1 = j
    BY <1>0, <1>4, <2>1, <2>2
  <2>4. queue'[j - 1] = queue[j]
    BY <1>4, <2>3
  <2> QED
    BY <2>1, <2>2, <2>3, <2>4
<1>9. QueueInv'
  BY <1>1, <1>2, <1>4, <1>5, <1>7, <1>8 DEF QueueInv, T
<1>10. ASSUME NEW id, AheadIn(queue, remaining, id)
       PROVE  AheadIn(queue', remaining', id)
  <2>1. PICK i \in 2 .. Len(queue) : queue[i].action \in {"Apply", "Prune"} /\ id \in queue[i].ids
    BY <1>10 DEF AheadIn
  <2>2. i - 1 \in 1 .. Len(queue') /\ queue'[i - 1] = queue[i]
    BY <1>0, <1>4
  <2>3. CASE i = 2
    BY <1>5, <2>1, <2>2, <2>3 DEF AheadIn
  <2>4. CASE i # 2
    <3>1. i - 1 \in 2 .. Len(queue')
      BY <2>2, <2>4
    <3> QED
      BY <2>1, <2>2, <3>1 DEF AheadIn
  <2> QED
    BY <2>3, <2>4
<1>11. ASSUME NEW id, WaitIn(queue, id)
       PROVE  WaitIn(queue', id) \/ (queue[1].action = "Wait" /\ id \in queue[1].ids)
  <2>1. PICK i \in 1 .. Len(queue) : queue[i].action = "Wait" /\ id \in queue[i].ids
    BY <1>11 DEF WaitIn
  <2>2. CASE i = 1
    BY <2>1, <2>2
  <2>3. CASE i # 1
    <3>1. i - 1 \in 1 .. Len(queue') /\ queue'[i - 1] = queue[i]
      BY <1>0, <1>4, <2>3
    <3> QED
      BY <2>1, <3>1 DEF WaitIn
  <2> QED
    BY <2>2, <2>3
<1> QED
  BY <1>0, <1>1, <1>4, <1>5, <1>6, <1>9, <1>10, <1>11

\* An actuation task ends when all of its objects were handled.
LEMMA EndTaskKeeps == PipelineInv /\ EndTask => PipelineInv'
<1> SUFFICES ASSUME PipelineInv, EndTask PROVE PipelineInv'
  OBVIOUS
<1>1. /\ Len(queue) > 1 /\ Pop /\ remaining = {} /\ Head(queue).action \in {"Apply", "Prune"}
      /\ UNCHANGED <<request, graph, planned, invalid>>
      /\ UNCHANGED <<cluster, stored, refs, im, abandoned, nsCreated, failure, runs, drift>>
  BY DEF EndTask, planVars
<1>2. queue # <<>>
  <2>1. queue \in Seq(Task)
    BY DEF PipelineInv, TypeOK
  <2> QED
    BY <1>1, <2>1
<1>3. queue[1].action \in {"Apply", "Prune"}
  BY <1>1, <1>2, QueueFacts
<1>4. /\ queue' \in Seq(Task) /\ remaining' \subseteq Objects
      /\ QueueInv' /\ checked' = checked /\ queue' # <<>>
      /\ Added' = Added /\ Pruned' = Pruned
      /\ \A id : AheadIn(queue, remaining, id) => AheadIn(queue', remaining', id)
      /\ \A id : WaitIn(queue, id) =>
           WaitIn(queue', id) \/ (queue[1].action = "Wait" /\ id \in queue[1].ids)
  BY <1>1, PopQueue DEF planVars
<1>5. TypeOK'
  BY <1>1, <1>4 DEF PipelineInv, TypeOK
<1>6. UIDsOfKeys' /\ PlannedInv' /\ AppliedInv' /\ DeletedInv' /\ AbandonedInv'
  BY <1>1 DEF PipelineInv, UIDsOfKeys, PlannedInv, AppliedInv, DeletedInv, AbandonedInv
<1>8. RegisteredInv'
  BY <1>1, <1>2, <1>4 DEF PipelineInv, RegisteredInv
<1>9. PendingInv' /\ WaitedInv'
  BY <1>1, <1>2, <1>3, <1>4 DEF PipelineInv, PendingInv, WaitedInv
<1>10. StoredInv'
  BY <1>1, <1>2, <1>3, <1>4 DEF PipelineInv, StoredInv
<1>11. OwnedInv'
  BY <1>1, <1>2, NoEffect, OwnedKeeps DEF PipelineInv, OwnedInv, AsPlanned, Kept, IsInvNamespace
<1> QED
  BY <1>4, <1>5, <1>6, <1>8, <1>9, <1>10, <1>11 DEF PipelineInv

\* The inventory that is written has what the run applies (InvAddTask); a write
\* that fails ends the run.
LEMMA AddInventoryKeeps == PipelineInv /\ AddInventory => PipelineInv'
<1> SUFFICES ASSUME PipelineInv, AddInventory PROVE PipelineInv'
  OBVIOUS
<1> DEFINE union == refs \cup Added
<1>1. /\ Len(queue) > 1 /\ Head(queue).action = "Inventory"
      /\ UNCHANGED <<cluster, failure, runs, drift>>
  BY DEF AddInventory, Adding
<1>2. queue # <<>> /\ Head(queue) = queue[1]
  <2>1. queue \in Seq(Task)
    BY DEF PipelineInv, TypeOK
  <2> QED
    BY <1>1, <2>1
<1>3. union \in SUBSET Objects
  <2>1. refs \subseteq Objects
    BY DEF PipelineInv, TypeOK
  <2> QED
    BY <1>2, <2>1, QueueFacts
<1>4. CASE Forget /\ stored' \in {stored, Stored(union)}
  <2>1. stored \in {NoInventory} \cup {Stored(x) : x \in SUBSET Objects}
        /\ failure \in {"none", "NamespaceExists"}
    BY DEF PipelineInv, TypeOK
  <2> QED
    BY <1>1, <1>3, <1>4, <2>1, ForgetKeeps
<1>5. CASE /\ Pop /\ refs' = union
           /\ stored' = (IF request.dryRun THEN stored ELSE Stored(union))
           /\ UNCHANGED <<planVars, im, abandoned, nsCreated>>
  <2>1. /\ queue' \in Seq(Task) /\ remaining' \subseteq Objects
        /\ QueueInv' /\ checked' = checked /\ queue' # <<>>
        /\ Added' = Added /\ Pruned' = Pruned
        /\ \A id : AheadIn(queue, remaining, id) => AheadIn(queue', remaining', id)
        /\ \A id : WaitIn(queue, id) =>
             WaitIn(queue', id) \/ (queue[1].action = "Wait" /\ id \in queue[1].ids)
    BY <1>1, <1>2, <1>5, PopQueue
  <2>2. UNCHANGED <<request, graph, planned, invalid, im, abandoned, nsCreated>>
    BY <1>5 DEF planVars
  <2>3. Stored(union).refs = union /\ Added \subseteq union /\ refs \subseteq union
    BY DEF Stored
  <2>4. TypeOK'
    <3>1. refs' \subseteq Objects
      BY <1>3, <1>5
    <3>2. stored' \in {NoInventory} \cup {Stored(x) : x \in SUBSET Objects}
      BY <1>3, <1>5 DEF PipelineInv, TypeOK
    <3> QED
      BY <1>1, <2>1, <2>2, <3>1, <3>2 DEF PipelineInv, TypeOK
  <2>5. UIDsOfKeys' /\ PlannedInv' /\ AppliedInv' /\ DeletedInv' /\ AbandonedInv'
    BY <1>1, <1>5, <2>2
       DEF PipelineInv, UIDsOfKeys, PlannedInv, AppliedInv, DeletedInv, AbandonedInv
  <2>6. RegisteredInv'
    BY <1>2, <2>1, <2>2 DEF PipelineInv, RegisteredInv
  <2>7. PendingInv' /\ WaitedInv'
    BY <1>1, <1>2, <2>1, <2>2 DEF PipelineInv, PendingInv, WaitedInv
  <2>8. StoredInv'
    BY <1>5, <2>1, <2>2, <2>3 DEF StoredInv
  <2>9. OwnedInv'
    <3> SUFFICES ASSUME ~request.dryRun, NEW k \in Keys, cluster[k].owner = "us",
                        NEW x \in union, KeyOf[x] = k, ~IsInvNamespace(k),
                        ~\E id \in union \cap request.local : KeyOf[id] = k
                 PROVE  AsPlanned(k)'
      BY <1>1, <1>5, <2>2 DEF OwnedInv, Kept, IsInvNamespace
    <3>1. \A id \in Added : KeyOf[id] # k
      BY DEF Added
    <3>2. AsPlanned(k)
      BY <1>2, <3>1 DEF PipelineInv, OwnedInv, Kept
    <3> QED
      BY <1>1, <1>5, <2>2, <3>1, <3>2 DEF AsPlanned
  <2> QED
    BY <2>1, <2>4, <2>5, <2>6, <2>7, <2>8, <2>9 DEF PipelineInv
<1> QED
  BY <1>4, <1>5 DEF AddInventory

\* The end of a wait: an object that is found reconciled after its deletion is
\* not the one the run planned to delete any more (WaitTask).
LEMMA WaitForKeeps == PipelineInv /\ WaitFor => PipelineInv'
<1> SUFFICES ASSUME PipelineInv, WaitFor PROVE PipelineInv'
  OBVIOUS
<1>1. /\ Len(queue) > 1 /\ Head(queue).action = "Wait" /\ Pop
      /\ UNCHANGED <<request, graph, planned, invalid>> /\ UNCHANGED planVars
      /\ UNCHANGED <<cluster, stored, refs, abandoned, nsCreated, failure, runs, drift>>
  BY DEF WaitFor, planVars
<1>2. queue # <<>> /\ queue[1].action = "Wait"
  <2>1. queue \in Seq(Task)
    BY DEF PipelineInv, TypeOK
  <2> QED
    BY <1>1, <2>1
<1>3. /\ queue' \in Seq(Task) /\ remaining' \subseteq Objects
      /\ QueueInv' /\ checked' = checked /\ queue' # <<>>
      /\ Added' = Added /\ Pruned' = Pruned
      /\ \A id : AheadIn(queue, remaining, id) => AheadIn(queue', remaining', id)
      /\ \A id : WaitIn(queue, id) =>
           WaitIn(queue', id) \/ (queue[1].action = "Wait" /\ id \in queue[1].ids)
  BY <1>1, <1>2, PopQueue
<1>4. /\ remaining = queue[1].ids /\ remaining \subseteq Added \cup Pruned
      /\ \A id \in remaining : im[id] \in ObjectStatus
      /\ \A id \in Objects : KeyOf[id] \in Keys
  <2>1. remaining = queue[1].ids
    BY <1>2 DEF PipelineInv, QueueInv
  <2>2. queue[1] \in RunTasks(Added, Pruned)
    BY <1>1, <1>2, QueueFacts
  <2>3. remaining \subseteq Added \cup Pruned
    BY <1>2, <2>1, <2>2 DEF RunTasks
  <2> QED
    BY <1>2, <2>1, <2>3, QueueFacts
<1>5. PICK outcome \in [remaining -> Reconciles] :
         /\ \A id \in remaining : outcome[id] \in WaitOutcomes(id)
         /\ im' = [id \in Objects |->
                     IF id \in remaining THEN [im[id] EXCEPT !.reconcile = outcome[id]]
                       ELSE im[id]]
  BY DEF WaitFor
<1>6. /\ \A id \in Objects : id \notin remaining => im'[id] = im[id]
      /\ \A id \in remaining : id \in Objects =>
            /\ im'[id] \in ObjectStatus
            /\ im'[id].strategy = im[id].strategy /\ im'[id].actuation = im[id].actuation
            /\ im'[id].uid = im[id].uid /\ im'[id].reconcile = outcome[id]
  <2>1. \A id \in remaining : outcome[id] \in Reconciles
    BY <1>5
  <2> QED
    BY <1>4, <1>5, <2>1 DEF ObjectStatus
<1>7. TypeOK'
  <2>1. im' \in Managers
    <3>1. \A id \in Objects : im'[id] \in ObjectStatus \cup {Untracked}
      BY <1>6 DEF PipelineInv, TypeOK, Managers
    <3> QED
      BY <1>5, <3>1 DEF Managers
  <2> QED
    BY <1>1, <1>3, <2>1 DEF PipelineInv, TypeOK
<1>8. \A id \in Objects :
         /\ im'[id].strategy = im[id].strategy /\ im'[id].actuation = im[id].actuation
         /\ im'[id].uid = im[id].uid
  BY <1>6
<1>9. UIDsOfKeys' /\ PlannedInv' /\ AppliedInv' /\ AbandonedInv'
  BY <1>1, <1>8 DEF PipelineInv, UIDsOfKeys, PlannedInv, AppliedInv, AbandonedInv
<1>10. RegisteredInv'
  BY <1>2, <1>3, <1>8 DEF PipelineInv, RegisteredInv
<1>11. PendingInv'
  BY <1>2, <1>3, <1>8 DEF PipelineInv, PendingInv
<1>12. WaitedInv'
  <2> SUFFICES ASSUME ~request.dryRun, ~LateReports, NEW x \in Objects,
                      im'[x].actuation = "Succeeded", im'[x].reconcile = "Pending"
               PROVE  WaitIn(queue', x)
    BY <1>1 DEF WaitedInv
  <2>1. CASE x \in remaining
    BY <1>5, <1>6, <2>1 DEF WaitOutcomes
  <2>2. CASE x \notin remaining
    BY <1>2, <1>3, <1>4, <1>6, <2>2 DEF PipelineInv, WaitedInv
  <2> QED
    BY <2>1, <2>2
<1>13. DeletedInv'
  <2> SUFFICES ASSUME NEW x \in Objects, im'[x].strategy = "Delete", im'[x].actuation = "Succeeded"
               PROVE  /\ im'[x].uid = planned[x].uid /\ im'[x].reconcile # "Skipped"
                      /\ im'[x].reconcile = "Succeeded" =>
                            cluster[KeyOf[x]].uid # planned[x].uid
    BY <1>1 DEF DeletedInv
  <2>1. im[x].uid = planned[x].uid
    BY <1>8 DEF PipelineInv, DeletedInv
  <2>2. CASE x \notin remaining
    BY <1>6, <2>2 DEF PipelineInv, DeletedInv
  <2>3. CASE x \in remaining
    <3>1. planned[x] # Absent /\ planned[x].uid \in UIDs
      BY <1>8 DEF PipelineInv, RegisteredInv, PlannedInv, Pruned, ToPrune
    <3>2. im'[x].reconcile = "Succeeded" => Gone(x)
      BY <1>5, <1>6, <1>8, <2>3 DEF WaitOutcomes
    <3>3. Gone(x) => cluster[KeyOf[x]].uid # planned[x].uid
      BY <2>1, <3>1, AbsentOrNot, UIDAssumption DEF Gone, Exists
    <3>4. im'[x].reconcile # "Skipped"
      BY <1>5, <1>6, <1>8, <2>3 DEF WaitOutcomes
    <3> QED
      BY <1>8, <2>1, <3>2, <3>3, <3>4
  <2> QED
    BY <2>2, <2>3
<1>14. StoredInv'
  BY <1>1, <1>2, <1>3 DEF PipelineInv, StoredInv
<1>15. OwnedInv'
  BY <1>1, <1>2 DEF PipelineInv, OwnedInv, AsPlanned, Kept, IsInvNamespace
<1> QED
  BY <1>3, <1>7, <1>9, <1>10, <1>11, <1>12, <1>13, <1>14, <1>15 DEF PipelineInv

----------------------------------------------------------------------------
(* The steps that handle an object, one by one.                            *)

\* An outcome replaces the entry of its object.
LEMMA Registers ==
    ASSUME PipelineInv, NEW id \in Objects, NEW s \in Strategies, im[id].strategy = s,
           NEW a \in Actuations, a # "Pending", NEW u \in UIDs \cup {NoUID},
           im' = SetObjectStatus(im, id, s, a, u, 0)
    PROVE  /\ im' = [im EXCEPT ![id] = im'[id]]
           /\ im'[id] \in ObjectStatus /\ im'[id].strategy = s /\ im'[id].actuation = a
           /\ im'[id].reconcile = "Pending" /\ im'[id].uid = u
<1>1. im \in [Objects -> ObjectStatus \cup {Untracked}]
  BY DEF PipelineInv, TypeOK, Managers
<1>2. im'[id] = [strategy |-> s, actuation |-> a, reconcile |-> "Pending",
                 uid |-> u, gen |-> 0]
  BY <1>1 DEF SetObjectStatus
<1>3. im' = [im EXCEPT ![id] = im'[id]]
  BY <1>2 DEF SetObjectStatus
<1> QED
  BY <1>2, <1>3 DEF ObjectStatus, Reconciles

\* Neither a skip nor a failure is an outcome with a UID.
LEMMA UnsuccessfulOutcome ==
    ASSUME PipelineInv, NEW id \in Objects, NEW s \in Strategies, im[id].strategy = s,
           NEW a \in {"Skipped", "Failed"}, im' = AddUnsuccessful(im, s, a, id)
    PROVE  im' = [im EXCEPT ![id] = im'[id]] /\ Outcome(id)
<1>1. /\ im' = [im EXCEPT ![id] = im'[id]]
      /\ im'[id] \in ObjectStatus /\ im'[id].strategy = s /\ im'[id].actuation = a
      /\ im'[id].reconcile = "Pending"
  BY Registers DEF AddUnsuccessful, Actuations
<1> QED
  BY <1>1 DEF Outcome

\* A refusal leaves the cluster alone (RefuseApply, RefuseDelete).
LEMMA RefuseKeeps ==
    ASSUME PipelineInv, NEW id \in Objects, NEW a \in {"Failed", "Skipped"},
           RefuseApply(id, a) \/ RefuseDelete(id, a)
    PROVE  PipelineInv'
<1>1. Handled(id) /\ UNCHANGED <<cluster, abandoned>>
  BY DEF RefuseApply, RefuseDelete
<1>2. ClusterEffect
  BY <1>1, NoEffect
<1>3. abandoned' = abandoned /\ abandoned \subseteq Objects
      /\ \A x \in abandoned : planned[x] # Absent
  BY <1>1 DEF PipelineInv, TypeOK, AbandonedInv
<1>4. CASE RefuseApply(id, a)
  <2>1. Handling("Apply", id) /\ im' = AddUnsuccessful(im, "Apply", a, id)
    BY <1>4 DEF RefuseApply
  <2>2. im[id].strategy = "Apply"
    BY <2>1, ApplyFacts
  <2>3. im' = [im EXCEPT ![id] = im'[id]] /\ Outcome(id)
    BY <2>1, <2>2, UnsuccessfulOutcome DEF Strategies
  <2> QED
    BY <1>1, <1>2, <1>3, <2>1, <2>3, HandledKeeps
<1>5. CASE RefuseDelete(id, a)
  <2>1. Handling("Prune", id) /\ im' = AddUnsuccessful(im, "Delete", a, id)
    BY <1>5 DEF RefuseDelete
  <2>2. im[id].strategy = "Delete"
    BY <2>1, PruneFacts
  <2>3. im' = [im EXCEPT ![id] = im'[id]] /\ Outcome(id)
    BY <2>1, <2>2, UnsuccessfulOutcome DEF Strategies
  <2> QED
    BY <1>1, <1>2, <1>3, <2>1, <2>3, HandledKeeps
<1> QED
  BY <1>4, <1>5

\* The object is ours from now on, and was of the inventory before (ApplyTask,
\* after InvAddTask).
LEMMA ApplyObjectKeeps ==
    ASSUME PipelineInv, NEW id \in Objects, ApplyObject(id)
    PROVE  PipelineInv'
<1> DEFINE k == KeyOf[id]
<1>1. Handling("Apply", id) /\ Handled(id) /\ abandoned' = abandoned
  BY DEF ApplyObject
<1>2. id \in Added /\ im[id].strategy = "Apply" /\ Kept(k)
  BY <1>1, ApplyFacts
<1>3. k \in Keys
  BY PipelineAssumption
<1>4. cluster \in [Keys -> Resource \cup {Absent}] /\ UIDsOfKeys
  BY DEF PipelineInv, TypeOK
<1>5. abandoned \subseteq Objects /\ \A x \in abandoned : planned[x] # Absent
  BY DEF PipelineInv, TypeOK, AbandonedInv
<1>6. ClusterEffect
  <2>1. CASE request.dryRun
    <3>1. cluster' = cluster
      BY <2>1 DEF ApplyObject
    <3> QED
      BY <3>1, NoEffect
  <2>2. CASE ~request.dryRun /\ Exists(id)
    <3>1. cluster' = [cluster EXCEPT ![k].owner = "us"]
      BY <2>2 DEF ApplyObject
    <3>2. cluster[k] # Absent /\ cluster[k] \in Resource
      BY <1>3, <1>4, <2>2 DEF Exists
    <3>3. [cluster[k] EXCEPT !.owner = "us"] \in Resource
          /\ [cluster[k] EXCEPT !.owner = "us"].uid = cluster[k].uid
      BY <3>2 DEF Resource, Owners
    <3>4. cluster' = [cluster EXCEPT ![k] = [cluster[k] EXCEPT !.owner = "us"]]
      BY <3>1
    <3> QED
      BY <1>2, <1>3, <3>2, <3>3, <3>4, ChangeEffect
  <2>3. CASE ~request.dryRun /\ ~Exists(id)
    <3>1. PICK u \in FreshUIDs(k) : cluster' = [cluster EXCEPT ![k] = Owned(u)]
      BY <2>3 DEF ApplyObject
    <3>2. cluster' = [cluster EXCEPT ![k] = [Owned(u) EXCEPT !.owner = "us"]]
      BY <3>1 DEF Owned
    <3> QED
      BY <1>2, <1>3, <3>2, FreshEffect DEF Owners
  <2> QED
    BY <2>1, <2>2, <2>3
<1>7. CASE im' = AddUnsuccessful(im, "Apply", "Failed", id)
  <2>1. im' = [im EXCEPT ![id] = im'[id]] /\ Outcome(id)
    BY <1>2, <1>7, UnsuccessfulOutcome DEF Strategies
  <2> QED
    BY <1>1, <1>5, <1>6, <2>1, HandledKeeps
<1>8. ASSUME NEW x \in Resource \cup {Absent}, im' = AddSuccessfulApply(im, id, x.uid, 0),
             x # Absent => x.uid[1] = k, ~request.dryRun => x = cluster'[k]
      PROVE  PipelineInv'
  <2>1. x.uid \in UIDs \cup {NoUID} /\ (x.uid # NoUID => x.uid[1] = k)
    BY <1>8, AbsentOrNot
  <2>2. /\ im' = [im EXCEPT ![id] = im'[id]]
        /\ im'[id] \in ObjectStatus /\ im'[id].strategy = "Apply"
        /\ im'[id].actuation = "Succeeded"
        /\ im'[id].reconcile = "Pending" /\ im'[id].uid = x.uid
    <3>1. im' = SetObjectStatus(im, id, "Apply", "Succeeded", x.uid, 0)
      BY <1>8 DEF AddSuccessfulApply
    <3> QED
      BY <1>2, <2>1, <3>1, Registers DEF Strategies, Actuations
  <2>3. Outcome(id)
    BY <1>2, <1>8, <2>1, <2>2 DEF Outcome
  <2> QED
    BY <1>1, <1>5, <1>6, <2>2, <2>3, HandledKeeps
<1>9. CASE request.dryRun /\ im' = AddSuccessfulApply(im, id, cluster[k].uid, 0)
  <2>1. cluster[k] \in Resource \cup {Absent} /\ (cluster[k] # Absent => cluster[k].uid[1] = k)
    BY <1>3, <1>4 DEF UIDsOfKeys
  <2> QED
    BY <1>8, <1>9, <2>1
<1>10. CASE im' = AddSuccessfulApply(im, id, cluster'[k].uid, 0)
  <2>1. cluster'[k] \in Resource \cup {Absent}
        /\ (cluster'[k] # Absent => cluster'[k].uid[1] = k)
    BY <1>3, <1>6 DEF ClusterEffect
  <2> QED
    BY <1>8, <1>10, <2>1
<1> QED
  BY <1>7, <1>9, <1>10 DEF ApplyObject

\* The object is not ours any more when it is abandoned (handleDeletePrevention).
LEMMA KeepObjectKeeps ==
    ASSUME PipelineInv, NEW id \in Objects, KeepObject(id)
    PROVE  PipelineInv'
<1> DEFINE k == KeyOf[id]
<1>1. /\ Handling("Prune", id) /\ Handled(id)
      /\ \E a \in {"Skipped", "Failed"} : im' = AddUnsuccessful(im, "Delete", a, id)
  BY DEF KeepObject
<1>2. im[id].strategy = "Delete" /\ planned[id] # Absent
  <2>1. im[id].strategy = "Delete" /\ planned[id].uid \in UIDs
    BY <1>1, PruneFacts
  <2> QED
    BY <2>1, AbsentOrNot, UIDAssumption
<1>3. im' = [im EXCEPT ![id] = im'[id]] /\ Outcome(id)
  BY <1>1, <1>2, UnsuccessfulOutcome DEF Strategies
<1>4. k \in Keys /\ cluster \in [Keys -> Resource \cup {Absent}]
  BY PipelineAssumption DEF PipelineInv, TypeOK
<1>5. \/ cluster' = cluster /\ abandoned' = abandoned
      \/ cluster' = cluster /\ abandoned' = abandoned \cup {id} /\ planned[id].owner = "none"
      \/ /\ cluster[k] = planned[id] /\ cluster' = [cluster EXCEPT ![k].owner = "none"]
         /\ abandoned' \in {abandoned, abandoned \cup {id}}
  BY DEF KeepObject
<1>6. ClusterEffect
  <2>1. CASE cluster' = cluster
    BY <2>1, NoEffect
  <2>2. CASE cluster[k] = planned[id] /\ cluster' = [cluster EXCEPT ![k].owner = "none"]
    <3> DEFINE x == [cluster[k] EXCEPT !.owner = "none"]
    <3>1. cluster[k] \in Resource /\ cluster[k] # Absent
      BY <1>2, <1>4, <2>2
    <3>2. x \in Resource /\ x.uid = cluster[k].uid /\ x.owner = "none"
      BY <3>1 DEF Resource, Owners
    <3>3. cluster' = [cluster EXCEPT ![k] = x]
      BY <1>4, <2>2
    <3> HIDE DEF x
    <3> QED
      BY <1>4, <3>1, <3>2, <3>3, ChangeEffect
  <2> QED
    BY <1>5, <2>1, <2>2
<1>7. /\ abandoned' \subseteq Objects /\ \A x \in abandoned' : planned[x] # Absent
      /\ \A x \in abandoned' \ abandoned :
            \/ planned[x].owner # "us" \/ cluster'[KeyOf[x]].owner # "us"
  <2>1. abandoned \subseteq Objects /\ \A x \in abandoned : planned[x] # Absent
    BY DEF PipelineInv, TypeOK, AbandonedInv
  <2>2. abandoned' # abandoned => planned[id].owner = "none" \/ cluster'[k].owner = "none"
    <3>1. CASE cluster[k] = planned[id] /\ cluster' = [cluster EXCEPT ![k].owner = "none"]
      <4>1. cluster[k] \in Resource
        BY <1>2, <1>4, <3>1
      <4> QED
        BY <1>4, <3>1, <4>1 DEF Resource
    <3> QED
      BY <1>5, <3>1
  <2>3. abandoned' \in {abandoned, abandoned \cup {id}}
    BY <1>5
  <2> QED
    BY <1>2, <2>1, <2>2, <2>3
<1> QED
  BY <1>1, <1>3, <1>6, <1>7, HandledKeeps

\* The object is of the caller when it is abandoned: the caller knows it under
\* another identifier (CurrentUIDFilter).
LEMMA LeaveAppliedKeeps ==
    ASSUME PipelineInv, NEW id \in Objects, LeaveApplied(id)
    PROVE  PipelineInv'
<1>1. /\ Handling("Prune", id) /\ Handled(id) /\ JustApplied(id) /\ cluster' = cluster
      /\ im' = AddUnsuccessful(im, "Delete", "Skipped", id)
      /\ abandoned' \in {abandoned, abandoned \cup {id}}
  BY DEF LeaveApplied
<1>2. /\ queue # <<>> /\ queue[1].action = "Prune" /\ im[id].strategy = "Delete"
      /\ planned[id].uid \in UIDs
  BY <1>1, PruneFacts
<1>3. planned[id] # Absent
  BY <1>2, AbsentOrNot, UIDAssumption
<1>4. im' = [im EXCEPT ![id] = im'[id]] /\ Outcome(id)
  BY <1>1, <1>2, UnsuccessfulOutcome DEF Strategies
<1>5. Kept(KeyOf[id])
  <2>1. PICK x \in Objects :
            /\ im[x].strategy = "Apply" /\ im[x].actuation = "Succeeded"
            /\ im[x].uid = planned[id].uid /\ im[x].uid # NoUID
    BY <1>1 DEF JustApplied, AppliedResourceUIDs, WithActuation
  <2>2. KeyOf[x] = KeyOf[id]
    BY <1>3, <2>1 DEF PipelineInv, AppliedInv, PlannedInv
  <2>3. x \in Added
    BY <2>1 DEF PipelineInv, RegisteredInv
  <2>4. Added \subseteq refs
    BY <1>2 DEF PipelineInv, StoredInv
  <2> QED
    BY <2>2, <2>3, <2>4 DEF Kept, Added
<1>6. ClusterEffect
  BY <1>1, NoEffect
<1>7. /\ abandoned' \subseteq Objects /\ \A x \in abandoned' : planned[x] # Absent
      /\ \A x \in abandoned' \ abandoned : Kept(KeyOf[x])
  BY <1>1, <1>3, <1>5 DEF PipelineInv, TypeOK, AbandonedInv
<1> QED
  BY <1>1, <1>4, <1>6, <1>7, HandledKeeps

\* The deletion is that of the incarnation the run planned to delete
\* (Pruner.Prune).
LEMMA DeleteObjectKeeps ==
    ASSUME PipelineInv, NEW id \in Objects, DeleteObject(id)
    PROVE  PipelineInv'
<1> DEFINE k == KeyOf[id]
<1>1. Handling("Prune", id) /\ Handled(id) /\ abandoned' = abandoned
  BY DEF DeleteObject
<1>2. im[id].strategy = "Delete" /\ planned[id].uid \in UIDs
  BY <1>1, PruneFacts
<1>3. k \in Keys /\ cluster \in [Keys -> Resource \cup {Absent}]
  BY PipelineAssumption DEF PipelineInv, TypeOK
<1>4. \/ cluster' = cluster
      \/ /\ cluster[k].uid = planned[id].uid
         /\ \/ cluster' = [cluster EXCEPT ![k] = Absent]
            \/ cluster' = [cluster EXCEPT ![k].terminating = TRUE]
  BY DEF DeleteObject
<1>5. ClusterEffect
  <2>1. CASE cluster' = cluster
    BY <2>1, NoEffect
  <2>2. CASE cluster' = [cluster EXCEPT ![k] = Absent]
    BY <1>3, <2>2, GoneEffect
  <2>3. CASE /\ cluster[k].uid = planned[id].uid
             /\ cluster' = [cluster EXCEPT ![k].terminating = TRUE]
    <3> DEFINE x == [cluster[k] EXCEPT !.terminating = TRUE]
    <3>1. cluster[k] \in Resource /\ cluster[k] # Absent
      BY <1>2, <1>3, <2>3, AbsentOrNot, UIDAssumption
    <3>2. x \in Resource /\ x.uid = cluster[k].uid /\ x.owner = cluster[k].owner
      BY <3>1 DEF Resource
    <3>3. cluster' = [cluster EXCEPT ![k] = x]
      BY <1>3, <2>3
    <3> HIDE DEF x
    <3> QED
      BY <1>3, <3>1, <3>2, <3>3, ChangeEffect
  <2> QED
    BY <1>4, <2>1, <2>2, <2>3
<1>6. im' = [im EXCEPT ![id] = im'[id]] /\ Outcome(id)
  <2>1. CASE im' = AddUnsuccessful(im, "Delete", "Failed", id)
    BY <1>2, <2>1, UnsuccessfulOutcome DEF Strategies
  <2>2. CASE im' = AddSuccessfulDelete(im, id, planned[id].uid)
    <3>1. /\ im' = [im EXCEPT ![id] = im'[id]]
          /\ im'[id] \in ObjectStatus /\ im'[id].strategy = "Delete"
          /\ im'[id].actuation = "Succeeded"
          /\ im'[id].reconcile = "Pending" /\ im'[id].uid = planned[id].uid
      BY <1>2, <2>2, Registers DEF AddSuccessfulDelete, Strategies, Actuations
    <3> QED
      BY <1>2, <3>1 DEF Outcome
  <2> QED
    BY <2>1, <2>2 DEF DeleteObject
<1>7. abandoned \subseteq Objects /\ \A x \in abandoned : planned[x] # Absent
  BY DEF PipelineInv, TypeOK, AbandonedInv
<1> QED
  BY <1>1, <1>5, <1>6, <1>7, HandledKeeps

----------------------------------------------------------------------------
(* The other steps.                                                        *)

\* Only the call of an apply task is being prepared (CheckApply).
LEMMA CheckApplyKeeps ==
    ASSUME PipelineInv, NEW id \in Objects, CheckApply(id)
    PROVE  PipelineInv'
<1> USE DEF planVars
<1>1. /\ checked' = id
      /\ UNCHANGED <<cluster, stored, queue, remaining, request, graph, planned, invalid,
                     refs, im, abandoned, nsCreated, failure, runs, drift>>
  BY DEF CheckApply
<1>2. TypeOK'
  BY <1>1 DEF PipelineInv, TypeOK
<1>3. Added' = Added /\ Pruned' = Pruned
  BY <1>1 DEF Added, Pruned, Prunes, ToPrune
<1>4. QueueInv' /\ PendingInv' /\ WaitedInv' /\ StoredInv' /\ RegisteredInv'
  BY <1>1, <1>3 DEF PipelineInv, QueueInv, PendingInv, WaitedInv, StoredInv, RegisteredInv
<1>5. UIDsOfKeys' /\ PlannedInv' /\ AppliedInv' /\ DeletedInv' /\ AbandonedInv'
  BY <1>1 DEF PipelineInv, UIDsOfKeys, PlannedInv, AppliedInv, DeletedInv, AbandonedInv
<1>6. OwnedInv'
  BY <1>1, NoEffect, OwnedKeeps
<1> QED
  BY <1>2, <1>4, <1>5, <1>6 DEF PipelineInv

\* The one object that is made ours before it is in the inventory is the
\* inventory's namespace (createNamespace).
LEMMA CreateNamespaceKeeps == PipelineInv /\ CreateNamespace => PipelineInv'
<1> SUFFICES ASSUME PipelineInv, CreateNamespace PROVE PipelineInv'
  OBVIOUS
<1>1. UNCHANGED <<stored, runs, drift>>
  BY DEF CreateNamespace
<1>2. CASE failure' = "NamespaceExists" /\ Forget /\ UNCHANGED cluster
  <2>1. stored \in {NoInventory} \cup {Stored(x) : x \in SUBSET Objects}
    BY DEF PipelineInv, TypeOK
  <2> QED
    BY <1>1, <1>2, <2>1, ForgetKeeps
<1>3. CASE /\ \E u \in FreshUIDs(KeyOf[InvNamespace]) :
                 cluster' = [cluster EXCEPT ![KeyOf[InvNamespace]] = Owned(u)]
           /\ nsCreated' = TRUE
           /\ UNCHANGED <<queue, remaining, checked, planVars, refs, im, abandoned, failure>>
  <2> DEFINE k == KeyOf[InvNamespace]
  <2>1. InvNamespace \in Objects /\ InvNamespace # NoObject /\ k \in Keys
    <3>1. InvNamespace \in request.local
      BY DEF CreateNamespace, NeedsNamespace, Added
    <3>2. request.local \subseteq Objects
      BY DEF PipelineInv, TypeOK, Request
    <3> QED
      BY <3>1, <3>2, PipelineAssumption
  <2>2. PICK u \in FreshUIDs(k) : cluster' = [cluster EXCEPT ![k] = Owned(u)]
    BY <1>3
  <2>3. cluster' = [cluster EXCEPT ![k] = [Owned(u) EXCEPT !.owner = "us"]]
    BY <2>2 DEF Owned
  <2>4. IsInvNamespace(k)
    BY <2>1 DEF IsInvNamespace
  <2> HIDE DEF k
  <2>5. ClusterEffect
    BY <2>1, <2>3, <2>4, FreshEffect DEF Owners
  <2>6. nsCreated' \in BOOLEAN
    BY <1>3, Zenon
  <2>7. drift' \in 0 .. MaxDrift /\ UNCHANGED <<stored, runs>>
    BY <1>1 DEF PipelineInv, TypeOK
  <2> QED
    BY <1>3, <2>5, <2>6, <2>7, ClusterKeeps
<1> QED
  BY <1>2, <1>3 DEF CreateNamespace

\* A run that is over has written an inventory of objects or nothing
\* (FinishInventory, StopRun).
LEMMA EndKeeps == PipelineInv /\ (FinishInventory \/ StopRun) => PipelineInv'
<1> SUFFICES ASSUME PipelineInv, FinishInventory \/ StopRun PROVE PipelineInv'
  OBVIOUS
<1>1. Forget /\ UNCHANGED <<cluster, failure, runs, drift>>
  BY DEF FinishInventory, StopRun
<1>2. /\ stored \in {NoInventory} \cup {Stored(x) : x \in SUBSET Objects}
      /\ failure \in {"none", "NamespaceExists"} /\ refs \subseteq Objects
  BY DEF PipelineInv, TypeOK
<1>3. InventoryRefs \in SUBSET Objects
  BY <1>2 DEF InventoryRefs, WithActuation
<1>4. stored' \in {NoInventory} \cup {Stored(x) : x \in SUBSET Objects}
  <2>1. stored' \in {stored, NoInventory, Stored(InventoryRefs)}
    BY DEF FinishInventory, StopRun
  <2> QED
    BY <1>2, <1>3, <2>1
<1> QED
  BY <1>1, <1>2, <1>4, ForgetKeeps

\* Other actors make nothing ours (Drift), and what is being deleted goes at
\* last (FinalizersDone).
LEMMA OthersKeep ==
    ASSUME PipelineInv, NEW k \in Keys, Drift(k) \/ FinalizersDone(k)
    PROVE  PipelineInv'
<1>1. UNCHANGED planVars /\ nsCreated' = nsCreated
      /\ UNCHANGED <<queue, remaining, refs, im, abandoned, stored, checked, failure, runs>>
  BY DEF Drift, FinalizersDone, Untouched
<1>2. nsCreated' \in BOOLEAN
  BY <1>1 DEF PipelineInv, TypeOK
<1>3. drift' \in 0 .. MaxDrift
  BY PipelineAssumption DEF PipelineInv, TypeOK, Drift, FinalizersDone
<1>4. cluster \in [Keys -> Resource \cup {Absent}]
  BY DEF PipelineInv, TypeOK
<1>5. ClusterEffect
  <2>1. CASE cluster' = [cluster EXCEPT ![k] = Absent]
    BY <2>1, GoneEffect
  <2>2. CASE \E u \in FreshUIDs(k), o \in {"none", "other"} :
                cluster' = [cluster EXCEPT ![k] = [Owned(u) EXCEPT !.owner = o]]
    <3>1. PICK u \in FreshUIDs(k), o \in {"none", "other"} :
                cluster' = [cluster EXCEPT ![k] = [Owned(u) EXCEPT !.owner = o]]
      BY <2>2
    <3> QED
      BY <3>1, FreshEffect DEF Owners
  <2>3. CASE cluster[k] # Absent /\ cluster' = [cluster EXCEPT ![k].owner = "other"]
    <3> DEFINE x == [cluster[k] EXCEPT !.owner = "other"]
    <3>1. cluster[k] \in Resource
      BY <1>4, <2>3
    <3>2. x \in Resource /\ x.uid = cluster[k].uid /\ x.owner # "us"
      BY <3>1 DEF Resource, Owners
    <3>3. cluster' = [cluster EXCEPT ![k] = x]
      BY <1>4, <2>3
    <3> HIDE DEF x
    <3> QED
      BY <2>3, <3>2, <3>3, ChangeEffect
  <2>4. CASE cluster[k] # Absent /\ cluster' = [cluster EXCEPT ![k].keep = TRUE]
    <3> DEFINE x == [cluster[k] EXCEPT !.keep = TRUE]
    <3>1. cluster[k] \in Resource
      BY <1>4, <2>4
    <3>2. x \in Resource /\ x.uid = cluster[k].uid /\ x.owner = cluster[k].owner
      BY <3>1 DEF Resource
    <3>3. cluster' = [cluster EXCEPT ![k] = x]
      BY <1>4, <2>4
    <3> HIDE DEF x
    <3> QED
      BY <2>4, <3>2, <3>3, ChangeEffect
  <2> QED
    BY <2>1, <2>2, <2>3, <2>4 DEF Drift, FinalizersDone
<1> QED
  BY <1>1, <1>2, <1>3, <1>5, ClusterKeeps

\* A step that changes nothing.
LEMMA StutterKeeps == PipelineInv /\ UNCHANGED vars => PipelineInv'
<1> SUFFICES ASSUME PipelineInv, UNCHANGED vars PROVE PipelineInv'
  OBVIOUS
<1>1. /\ UNCHANGED planVars
      /\ UNCHANGED <<cluster, queue, remaining, refs, im, abandoned, stored, checked, failure,
                     runs, nsCreated, drift>>
  BY DEF vars
<1>2. nsCreated' \in BOOLEAN /\ drift' \in 0 .. MaxDrift
  BY <1>1 DEF PipelineInv, TypeOK
<1> QED
  BY <1>1, <1>2, NoEffect, ClusterKeeps

----------------------------------------------------------------------------
(* The invariant, and what it says.                                        *)

\* Every step keeps the invariant.
LEMMA PipelineStep == PipelineInv /\ [Next]_vars => PipelineInv'
<1> SUFFICES ASSUME PipelineInv, Next PROVE PipelineInv'
  BY StutterKeeps
<1>1. ASSUME NEW r \in Requests, RunApplier(r) \/ RunDestroyer(r)
      PROVE  PipelineInv'
  <2>1. r.destroy \in BOOLEAN /\ r.prune \in BOOLEAN
    BY PipelineAssumption DEF Request
  <2>2. CASE RunApplier(r)
    <3>1. StartRun(r, r.prune) /\ r.prune = (r.destroy \/ r.prune)
      BY <2>1, <2>2 DEF RunApplier
    <3> QED
      BY <2>1, <3>1, StartRunKeeps
  <2>3. CASE RunDestroyer(r)
    <3>1. StartRun(r, TRUE) /\ TRUE = (r.destroy \/ r.prune) /\ TRUE \in BOOLEAN
      BY <2>1, <2>3 DEF RunDestroyer
    <3> QED
      BY <3>1, StartRunKeeps
  <2> QED
    BY <1>1, <2>2, <2>3
<1>2. ASSUME NEW id \in Objects,
             \/ \E a \in {"Failed", "Skipped"} : RefuseApply(id, a) \/ RefuseDelete(id, a)
             \/ CheckApply(id) \/ ApplyObject(id) \/ KeepObject(id)
             \/ LeaveApplied(id) \/ DeleteObject(id)
      PROVE  PipelineInv'
  BY <1>2, RefuseKeeps, CheckApplyKeeps, ApplyObjectKeeps, KeepObjectKeeps,
     LeaveAppliedKeeps, DeleteObjectKeeps
<1> QED
  BY <1>1, <1>2, EndTaskKeeps, CreateNamespaceKeeps, AddInventoryKeeps, WaitForKeeps,
     EndKeeps, OthersKeep DEF Next, Run

\* The invariant holds of every behaviour.
LEMMA PipelineInvariant == Spec => []PipelineInv
BY InitInv, PipelineStep, PTL DEF Spec

\* TypeOK of every behaviour: the state of a run and of the cluster is of the
\* types that Applier.Run, Destroyer.Run and the tasks keep it in.
THEOREM PipelineTypeCorrect == Spec => []TypeOK
<1>1. PipelineInv => TypeOK
  BY DEF PipelineInv
<1> QED
  BY <1>1, PipelineInvariant, PTL

\* A dry run leaves the cluster and the stored inventory alone, in every task
\* and whatever it is asked to do (apply_task.go, prune.go:119-190,
\* inv_add_task.go:52-98, inv_set_task.go:160-190).
THEOREM DryRunTouchesNothingHolds == Spec => DryRunTouchesNothing
<1>1. PipelineInv /\ [Next]_vars
         => [request.dryRun =>
               /\ stored' = stored
               /\ cluster' # cluster =>
                     drift' # drift \/ \E k \in Keys : cluster[k].terminating]_vars
  <2> SUFFICES ASSUME PipelineInv, Next, request.dryRun
               PROVE  /\ stored' = stored
                      /\ cluster' # cluster =>
                            drift' # drift \/ \E k \in Keys : cluster[k].terminating
    OBVIOUS
  <2>1. ASSUME NEW r \in Requests, RunApplier(r) \/ RunDestroyer(r)
        PROVE  stored' = stored /\ cluster' = cluster
    BY <2>1 DEF RunApplier, RunDestroyer, StartRun
  <2>2. ASSUME NEW id \in Objects,
               \/ \E a \in {"Failed", "Skipped"} : RefuseApply(id, a) \/ RefuseDelete(id, a)
               \/ CheckApply(id) \/ ApplyObject(id) \/ KeepObject(id)
               \/ LeaveApplied(id) \/ DeleteObject(id)
        PROVE  stored' = stored /\ cluster' = cluster
    BY <2>2 DEF RefuseApply, RefuseDelete, CheckApply, ApplyObject, KeepObject,
                LeaveApplied, DeleteObject, Handled
  <2>3. EndTask \/ CreateNamespace \/ AddInventory \/ WaitFor \/ FinishInventory \/ StopRun
           => stored' = stored /\ cluster' = cluster
    BY DEF EndTask, CreateNamespace, NeedsNamespace, AddInventory, WaitFor,
           FinishInventory, StopRun
  <2>4. ASSUME NEW k \in Keys, Drift(k)
        PROVE  stored' = stored /\ drift' # drift
    <3>1. drift \in Int
      BY PipelineAssumption DEF PipelineInv, TypeOK
    <3> QED
      BY <2>4, <3>1 DEF Drift, Untouched
  <2>5. ASSUME NEW k \in Keys, FinalizersDone(k)
        PROVE  stored' = stored /\ cluster[k].terminating
    BY <2>5 DEF FinalizersDone, Untouched
  <2> QED
    BY <2>1, <2>2, <2>3, <2>4, <2>5 DEF Next, Run
<1> QED
  BY <1>1, PipelineInvariant, PTL DEF Spec, DryRunTouchesNothing

\* Only DeleteObject deletes, in a run that is not dry, an object that still has
\* the UID it was planned with.
LEMMA OnlyDeleteDeletes ==
    ASSUME PipelineInv, [Next]_vars, NEW k \in Deleted
    PROVE  \E id \in Objects :
              /\ DeleteObject(id) /\ KeyOf[id] = k
              /\ ~request.dryRun /\ cluster[k].uid = planned[id].uid
<1>1. /\ k \in Keys /\ remaining' # remaining /\ cluster[k] # Absent
      /\ cluster'[k] = Absent \/ (cluster'[k].terminating /\ ~cluster[k].terminating)
  BY DEF Deleted
<1>2. cluster' # cluster
  BY <1>1
<1>3. /\ cluster \in [Keys -> Resource \cup {Absent}]
      /\ \A id \in Objects : KeyOf[id] \in Keys
  BY PipelineAssumption DEF PipelineInv, TypeOK
<1>4. PICK id \in Objects : ApplyObject(id) \/ KeepObject(id) \/ DeleteObject(id)
  <2>1. Next
    BY <1>2 DEF vars
  <2>2. \A r \in Requests : ~RunApplier(r) /\ ~RunDestroyer(r)
    BY <1>2 DEF RunApplier, RunDestroyer, StartRun
  <2>3. ~EndTask /\ ~CreateNamespace /\ ~AddInventory /\ ~WaitFor /\ ~FinishInventory /\ ~StopRun
    BY <1>1, <1>2 DEF EndTask, CreateNamespace, AddInventory, WaitFor, FinishInventory, StopRun
  <2>4. \A j \in Keys : ~Drift(j) /\ ~FinalizersDone(j)
    BY <1>1 DEF Drift, FinalizersDone, Untouched
  <2>5. \A x \in Objects : /\ ~CheckApply(x) /\ ~LeaveApplied(x)
                           /\ \A a : ~RefuseApply(x, a) /\ ~RefuseDelete(x, a)
    BY <1>2 DEF CheckApply, LeaveApplied, RefuseApply, RefuseDelete
  <2> QED
    BY <2>1, <2>2, <2>3, <2>4, <2>5 DEF Next, Run
<1>5. ~ApplyObject(id)
  <2> SUFFICES ASSUME ApplyObject(id) PROVE FALSE
    OBVIOUS
  <2>1. CASE Exists(id)
    <3>1. cluster' = [cluster EXCEPT ![KeyOf[id]].owner = "us"]
      BY <1>2, <2>1 DEF ApplyObject
    <3>2. cluster[KeyOf[id]] \in Resource
      BY <1>3, <2>1 DEF Exists
    <3>3. cluster'[k] # Absent /\ cluster'[k].terminating = cluster[k].terminating
      BY <1>1, <1>3, <3>1, <3>2 DEF Resource, Absent
    <3> QED
      BY <1>1, <3>3
  <2>2. CASE ~Exists(id)
    <3>1. PICK u \in FreshUIDs(KeyOf[id]) : cluster' = [cluster EXCEPT ![KeyOf[id]] = Owned(u)]
      BY <1>2, <2>2 DEF ApplyObject
    <3>2. KeyOf[id] # k
      BY <1>1, <2>2 DEF Exists
    <3> QED
      BY <1>1, <1>3, <3>1, <3>2
  <2> QED
    BY <2>1, <2>2
<1>6. ~KeepObject(id)
  <2> SUFFICES ASSUME KeepObject(id) PROVE FALSE
    OBVIOUS
  <2>1. /\ cluster[KeyOf[id]] = planned[id] /\ planned[id].owner # "none"
        /\ cluster' = [cluster EXCEPT ![KeyOf[id]].owner = "none"]
    BY <1>2 DEF KeepObject
  <2>2. cluster[KeyOf[id]] \in Resource
    BY <1>3, <2>1, AbsentOrNot
  <2>3. cluster'[k].uid = cluster[k].uid /\ cluster'[k].terminating = cluster[k].terminating
    BY <1>1, <1>3, <2>1, <2>2 DEF Resource
  <2>4. cluster[k].uid # NoUID
    BY <1>1, <1>3, AbsentOrNot
  <2> QED
    BY <1>1, <2>3, <2>4, AbsentOrNot
<1>7. /\ ~request.dryRun /\ cluster[KeyOf[id]].uid = planned[id].uid
      /\ \A j \in Keys : j # KeyOf[id] => cluster'[j] = cluster[j]
  BY <1>2, <1>3, <1>4, <1>5, <1>6 DEF DeleteObject
<1> QED
  BY <1>1, <1>4, <1>5, <1>6, <1>7

\* What a run applied it does not delete, also under another identifier of the
\* same object (current-uids-filter.go:30-55).
THEOREM AppliedSurvivesRunHolds == Spec => AppliedSurvivesRun
<1>1. PipelineInv /\ [Next]_vars
         => [\A id \in WithActuation(im, "Apply", "Succeeded") : KeyOf[id] \notin Deleted]_vars
  <2> SUFFICES ASSUME PipelineInv, [Next]_vars,
                      NEW x \in WithActuation(im, "Apply", "Succeeded"), KeyOf[x] \in Deleted
               PROVE  FALSE
    OBVIOUS
  <2>1. PICK id \in Objects :
            /\ DeleteObject(id) /\ KeyOf[id] = KeyOf[x]
            /\ ~request.dryRun /\ cluster[KeyOf[x]].uid = planned[id].uid
    BY OnlyDeleteDeletes
  <2>2. Handling("Prune", id) /\ ~JustApplied(id)
    BY <2>1 DEF DeleteObject
  <2>3. planned[id].uid \in UIDs
    BY <2>2, PruneFacts
  <2>4. planned[id] # Absent /\ planned[id].uid # NoUID
    BY <2>3, AbsentOrNot, UIDAssumption
  <2>5. x \in Objects /\ im[x].strategy = "Apply" /\ im[x].actuation = "Succeeded"
    BY DEF WithActuation
  <2>6. im[x].uid = planned[id].uid
    BY <2>1, <2>4, <2>5 DEF PipelineInv, AppliedInv
  <2> QED
    BY <2>2, <2>4, <2>6 DEF JustApplied, AppliedResourceUIDs
<1> QED
  BY <1>1, PipelineInvariant, PTL DEF Spec, AppliedSurvivesRun

\* A related object that lets an object pass was actuated, and found reconciled
\* unless the run is dry (dependency-filter.go:104-203).
LEMMA PassMeans ==
    ASSUME NEW g, NEW m \in Managers, NEW bad, NEW dry \in BOOLEAN,
           NEW s \in Strategies, NEW id, NEW b \in Related(g, s, id),
           DependencyAnswers(g, m, bad, dry, s, id) \subseteq {"pass"}
    PROVE  /\ m[b].strategy = s /\ m[b].actuation = "Succeeded"
           /\ ~dry => m[b].reconcile = "Succeeded"
<1>1. b \in Objects
  BY DEF Related, Dependencies, Dependents
<1>2. FilterByRelationship(m, bad, dry, s, b) = "pass"
  BY DEF DependencyAnswers
<1>3. b \notin bad /\ Found(m, b) /\ m[b].strategy = s
  BY <1>2 DEF FilterByRelationship
<1>4. m[b] \in ObjectStatus
  BY <1>1, <1>3 DEF Managers, Found
<1>5. m[b].actuation = "Succeeded"
  BY <1>2, <1>3, <1>4 DEF FilterByRelationship, ObjectStatus, Actuations
<1>6. ~dry => m[b].reconcile = "Succeeded"
  BY <1>2, <1>3, <1>4, <1>5 DEF FilterByRelationship, ObjectStatus, Reconciles
<1> QED
  BY <1>3, <1>5, <1>6

\* When the run deletes an object, what depends on it is gone: not only actuated,
\* as in the manager, but in the cluster (dependency-filter.go:66-73,
\* solver.go:195-206).
THEOREM DependentsGoneFirstHolds == Spec => DependentsGoneFirst
<1>1. PipelineInv /\ [Next]_vars
         => [\A id \in remaining \ remaining' : KeyOf[id] \in Deleted =>
               \A a \in Dependents(graph, id) :
                   /\ a \notin request.local
                   /\ cluster[KeyOf[a]].uid # planned[a].uid]_vars
  <2> SUFFICES ASSUME PipelineInv, [Next]_vars,
                      NEW x \in remaining \ remaining', KeyOf[x] \in Deleted,
                      NEW a \in Dependents(graph, x)
               PROVE  /\ a \notin request.local
                      /\ cluster[KeyOf[a]].uid # planned[a].uid
    OBVIOUS
  <2>1. PICK id \in Objects : DeleteObject(id) /\ ~request.dryRun
    BY OnlyDeleteDeletes
  <2>2. x = id /\ Answers("Delete", id) \subseteq {"pass"} /\ Handling("Prune", id)
    BY <2>1 DEF DeleteObject, Handled
  <2>3. im \in Managers /\ request.dryRun \in BOOLEAN
    BY DEF PipelineInv, TypeOK, Request
  <2>4. a \in Related(graph, "Delete", id)
    BY <2>2 DEF Related
  <2>5. im[a].strategy = "Delete" /\ im[a].actuation = "Succeeded" /\ im[a].reconcile = "Succeeded"
    BY <2>1, <2>2, <2>3, <2>4, PassMeans DEF Answers, Strategies
  <2>6. a \in Objects
    BY DEF Dependents
  <2>7. planned[a] # Absent
    BY <2>5, <2>6 DEF PipelineInv, RegisteredInv, Pruned, ToPrune
  <2> QED
    BY <2>5, <2>6, <2>7 DEF PipelineInv, PlannedInv, DeletedInv
<1> QED
  BY <1>1, PipelineInvariant, PTL DEF Spec, DependentsGoneFirst

----------------------------------------------------------------------------
(* What is ours is tracked.                                                *)

\* Only an apply task makes an object ours that was not, one the inventory has,
\* and the inventory add task the namespace of the inventory.
LEMMA OnlyApplyOwns ==
    ASSUME PipelineInv, [Next]_vars, NEW k \in Keys, cluster'[k].owner = "us",
           cluster[k].owner # "us", ~IsInvNamespace(k)
    PROVE  stored' = stored /\ k \in Tracked
<1>1. cluster' # cluster /\ cluster \in [Keys -> Resource \cup {Absent}]
  BY DEF PipelineInv, TypeOK
<1>2. Next
  BY <1>1 DEF vars
<1>3. \A r \in Requests : ~RunApplier(r) /\ ~RunDestroyer(r)
  BY <1>1 DEF RunApplier, RunDestroyer, StartRun
<1>4. ~EndTask /\ ~AddInventory /\ ~WaitFor /\ ~FinishInventory /\ ~StopRun
  BY <1>1 DEF EndTask, AddInventory, WaitFor, FinishInventory, StopRun
<1>5. \A x \in Objects : /\ ~CheckApply(x) /\ ~LeaveApplied(x)
                         /\ \A a : ~RefuseApply(x, a) /\ ~RefuseDelete(x, a)
  BY <1>1 DEF CheckApply, LeaveApplied, RefuseApply, RefuseDelete
<1>6. ASSUME NEW j \in Keys, NEW x \in Resource \cup {Absent}, x.owner # "us",
             cluster' = [cluster EXCEPT ![j] = x]
      PROVE  FALSE
  BY <1>1, <1>6
<1>7. ASSUME NEW j \in Keys, cluster[j] \in Resource, NEW o \in {"none", "other"},
             cluster' = [cluster EXCEPT ![j].owner = o]
      PROVE  FALSE
  BY <1>1, <1>7 DEF Resource
<1>8. ~CreateNamespace
  <2> SUFFICES ASSUME CreateNamespace PROVE FALSE
    OBVIOUS
  <2>1. PICK u \in FreshUIDs(KeyOf[InvNamespace]) :
           cluster' = [cluster EXCEPT ![KeyOf[InvNamespace]] = Owned(u)]
    BY <1>1 DEF CreateNamespace
  <2>2. InvNamespace # NoObject
    <3>1. InvNamespace \in request.local
      BY DEF CreateNamespace, NeedsNamespace, Added
    <3>2. request.local \subseteq Objects
      BY DEF PipelineInv, TypeOK, Request
    <3> QED
      BY <3>1, <3>2, PipelineAssumption
  <2>3. k # KeyOf[InvNamespace]
    BY <2>2 DEF IsInvNamespace
  <2> QED
    BY <1>1, <2>1, <2>3
<1>9. \A j \in Keys : ~Drift(j) /\ ~FinalizersDone(j)
  <2> SUFFICES ASSUME NEW j \in Keys, Drift(j) \/ FinalizersDone(j) PROVE FALSE
    OBVIOUS
  <2>1. cluster' # [cluster EXCEPT ![j] = Absent]
    BY <1>6, AbsentOrNot
  <2>2. ASSUME NEW u \in FreshUIDs(j), NEW o \in {"none", "other"},
               cluster' = [cluster EXCEPT ![j] = [Owned(u) EXCEPT !.owner = o]]
        PROVE  FALSE
    <3>1. [Owned(u) EXCEPT !.owner = o] \in Resource /\ [Owned(u) EXCEPT !.owner = o].owner # "us"
      BY DEF Owned, Resource, Owners, FreshUIDs
    <3> QED
      BY <1>6, <2>2, <3>1
  <2>3. cluster[j] # Absent => cluster' # [cluster EXCEPT ![j].owner = "other"]
    BY <1>1, <1>7
  <2>4. cluster[j] # Absent => cluster' # [cluster EXCEPT ![j].keep = TRUE]
    BY <1>1 DEF Resource
  <2> QED
    BY <2>1, <2>2, <2>3, <2>4 DEF Drift, FinalizersDone
<1>10. \A id \in Objects : ~KeepObject(id) /\ ~DeleteObject(id)
  <2> SUFFICES ASSUME NEW id \in Objects, KeepObject(id) \/ DeleteObject(id) PROVE FALSE
    OBVIOUS
  <2>1. KeyOf[id] \in Keys
    BY PipelineAssumption
  <2>2. planned[id].uid \in UIDs
    BY PruneFacts DEF KeepObject, DeleteObject
  <2>3. CASE KeepObject(id)
    <3>1. cluster[KeyOf[id]] = planned[id] /\ cluster' = [cluster EXCEPT ![KeyOf[id]].owner = "none"]
      BY <1>1, <2>3 DEF KeepObject
    <3>2. cluster[KeyOf[id]] \in Resource
      BY <1>1, <2>1, <2>2, <3>1, AbsentOrNot, UIDAssumption
    <3> QED
      BY <1>7, <2>1, <3>1, <3>2
  <2>4. CASE DeleteObject(id)
    <3>1. /\ cluster[KeyOf[id]].uid = planned[id].uid
          /\ \/ cluster' = [cluster EXCEPT ![KeyOf[id]] = Absent]
             \/ cluster' = [cluster EXCEPT ![KeyOf[id]].terminating = TRUE]
      BY <1>1, <2>4 DEF DeleteObject
    <3>2. cluster[KeyOf[id]] \in Resource
      BY <1>1, <2>1, <2>2, <3>1, AbsentOrNot, UIDAssumption
    <3>3. cluster' # [cluster EXCEPT ![KeyOf[id]] = Absent]
      BY <1>6, <2>1, AbsentOrNot
    <3> QED
      BY <1>1, <2>1, <3>1, <3>2, <3>3 DEF Resource
  <2> QED
    BY <2>3, <2>4
<1>11. PICK id \in Objects : ApplyObject(id)
  BY <1>2, <1>3, <1>4, <1>5, <1>8, <1>9, <1>10 DEF Next, Run
<1>12. /\ Handling("Apply", id) /\ ~request.dryRun /\ stored' = stored
       /\ \E x : cluster' = [cluster EXCEPT ![KeyOf[id]] = x]
  BY <1>1, <1>11 DEF ApplyObject, Handled
<1>13. k = KeyOf[id]
  BY <1>1, <1>12
<1>14. id \in stored.refs
  BY <1>12, ApplyFacts
<1> QED
  BY <1>12, <1>13, <1>14 DEF Tracked

\* A queue of one task is a queue of the run under way.
LEMMA LastTask == \A q \in Seq(Task) : Len(q) = 1 => q # <<>>
OBVIOUS

\* The inventory that a run writes at its end has every object of ours that the
\* stored one has, except what is left out (updateInventory): no object of the
\* run is without outcome, and of those that are not in it anymore, those that
\* were deleted are gone and those that were abandoned are the caller's, or not
\* ours.
LEMMA LastInventoryTracks ==
    ASSUME PipelineInv, Len(queue) = 1, ~request.dryRun, NEW k \in Keys, cluster[k].owner = "us",
           ~IsInvNamespace(k), NEW id \in stored.refs, KeyOf[id] = k
    PROVE  \E x \in InventoryRefs \cup LeftOut : KeyOf[x] = k
<1>1. /\ queue # <<>> /\ queue[1].action = "Inventory"
      /\ \A x : ~AheadIn(queue, remaining, x) /\ ~WaitIn(queue, x)
  <2>1. queue \in Seq(Task) /\ queue # <<>>
    <3>1. queue \in Seq(Task)
      BY DEF PipelineInv, TypeOK
    <3> QED
      BY <3>1, LastTask, Zenon
  <2>2. queue[1] = InventoryTask
    BY <2>1 DEF PipelineInv, QueueInv
  <2>3. queue[1].action = "Inventory"
    BY <2>2 DEF InventoryTask
  <2>4. \A i \in 2 .. Len(queue) : FALSE
    OBVIOUS
  <2>5. \A i \in 1 .. Len(queue) : queue[i].action # "Wait"
    BY <2>3
  <2> QED
    BY <2>1, <2>3, <2>4, <2>5 DEF AheadIn, WaitIn
<1>2. /\ refs = stored.refs /\ refs \subseteq Objects
      /\ \A x \in Objects : im[x].actuation # "Pending"
      /\ ~LateReports => \A x \in Objects :
            im[x].actuation = "Succeeded" => im[x].reconcile # "Pending"
  BY <1>1 DEF PipelineInv, TypeOK, StoredInv, PendingInv, WaitedInv
<1>3. \A x \in Added \cup Pruned : im[x] \in ObjectStatus
  BY <1>1, QueueFacts
<1>4. CASE Kept(k)
  <2>1. PICK x \in refs \cap request.local : KeyOf[x] = k
    BY <1>4 DEF Kept
  <2>2. x \in invalid => x \in InventoryRefs
    BY <2>1 DEF InventoryRefs
  <2>3. ASSUME x \notin invalid
        PROVE  x \in InventoryRefs
    <3>1. x \in Objects /\ x \in Added
      BY <1>2, <2>1, <2>3 DEF Added
    <3>2. im[x].strategy = "Apply" /\ im[x] \in ObjectStatus
      BY <1>1, <1>3, <3>1 DEF PipelineInv, RegisteredInv
    <3>3. im[x].actuation \in {"Succeeded", "Skipped", "Failed"}
      BY <1>2, <3>1, <3>2 DEF ObjectStatus, Actuations
    <3>4. x \notin abandoned
      BY <2>1, <3>1 DEF PipelineInv, AbandonedInv, PlannedInv
    <3> QED
      BY <2>1, <3>1, <3>2, <3>3, <3>4 DEF InventoryRefs, WithActuation
  <2> QED
    BY <2>1, <2>2, <2>3
<1>5. CASE AsPlanned(k)
  <2>1. id \in Objects /\ id \in refs /\ id \notin abandoned
        /\ planned[id].owner = "us" /\ planned[id].uid = cluster[k].uid
    BY <1>2, <1>5 DEF AsPlanned
  <2>2. planned[id] # Absent
    BY <2>1, AbsentOrNot
  <2>3. id \in invalid => id \in InventoryRefs
    BY <2>1 DEF InventoryRefs
  <2>4. CASE ~Prunes
    BY <2>1, <2>2, <2>4 DEF LeftOut, Prunes
  <2>5. ASSUME id \notin invalid, Prunes
        PROVE  id \in InventoryRefs \cup LeftOut
    <3>1. id \in Pruned
      BY <2>1, <2>2, <2>5 DEF Pruned, ToPrune
    <3>2. im[id].strategy = "Delete" /\ im[id] \in ObjectStatus
      BY <1>1, <1>3, <2>1, <3>1 DEF PipelineInv, RegisteredInv
    <3>3. im[id].actuation \in {"Succeeded", "Skipped", "Failed"}
      BY <1>2, <2>1, <3>2 DEF ObjectStatus, Actuations
    <3>4. CASE im[id].actuation = "Succeeded"
      <4>1. im[id].reconcile \notin {"Succeeded", "Skipped"}
        BY <2>1, <3>2, <3>4 DEF PipelineInv, DeletedInv
      <4>2. CASE im[id].reconcile \in {"Failed", "Timeout"}
        BY <2>1, <4>2 DEF InventoryRefs, WithReconcile
      <4>3. CASE im[id].reconcile = "Pending"
        BY <1>2, <2>1, <2>5, <3>2, <3>4, <4>3
           DEF LeftOut, Prunes, WithActuation, WithReconcile
      <4> QED
        BY <3>2, <4>1, <4>2, <4>3 DEF ObjectStatus, Reconciles
    <3>5. CASE im[id].actuation \in {"Skipped", "Failed"}
      BY <2>1, <3>2, <3>5 DEF InventoryRefs, WithActuation
    <3> QED
      BY <3>3, <3>4, <3>5
  <2> QED
    BY <2>1, <2>3, <2>4, <2>5
<1>6. IsInvNamespace(k) \/ Kept(k) \/ AsPlanned(k)
  BY <1>1, <1>2 DEF PipelineInv, OwnedInv
<1> QED
  BY <1>4, <1>5, <1>6

\* As long as an inventory is stored, what is ours and tracked goes on being
\* tracked, whatever fails, stops or is reported late and whatever the runs are
\* asked for (inv_set_task.go:69-70), except for what updateInventory leaves
\* out: deletes that are pending again, and nothing else of a run that prunes.
THEOREM OwnedStaysTrackedHolds == Spec => OwnedStaysTrackedButLeftOut
<1>1. PipelineInv /\ [Next]_vars
         => [stored' # NoInventory =>
               NewlyUntracked \subseteq {KeyOf[id] : id \in LeftOut}]_vars
  <2> SUFFICES ASSUME PipelineInv, Next, stored' # NoInventory, NEW k \in Keys,
                      cluster'[k].owner = "us", k \notin Tracked', ~IsInvNamespace(k),
                      ~\E id \in LeftOut : KeyOf[id] = k
               PROVE  cluster[k].owner = "us" /\ k \notin Tracked
    BY DEF NewlyUntracked, OwnedKeys, IsInvNamespace
  <2>1. cluster[k].owner = "us"
    <3> SUFFICES ASSUME cluster[k].owner # "us" PROVE FALSE
      OBVIOUS
    <3>1. stored' = stored /\ k \in Tracked
      BY OnlyApplyOwns
    <3> QED
      BY <3>1 DEF Tracked
  <2>2. ASSUME k \in Tracked
        PROVE  FALSE
    <3>1. stored' # stored
      BY <2>2 DEF Tracked
    <3>2. PICK id \in stored.refs : KeyOf[id] = k
      BY <2>2 DEF Tracked
    <3>3. AddInventory \/ FinishInventory
      <4>1. \A r \in Requests : ~RunApplier(r) /\ ~RunDestroyer(r)
        BY <3>1 DEF RunApplier, RunDestroyer, StartRun
      <4>2. ~EndTask /\ ~CreateNamespace /\ ~WaitFor /\ ~StopRun
        BY <3>1 DEF EndTask, CreateNamespace, WaitFor, StopRun
      <4>3. \A x \in Objects :
               /\ ~CheckApply(x) /\ ~LeaveApplied(x) /\ ~ApplyObject(x) /\ ~KeepObject(x)
               /\ ~DeleteObject(x) /\ \A a : ~RefuseApply(x, a) /\ ~RefuseDelete(x, a)
        BY <3>1 DEF CheckApply, LeaveApplied, ApplyObject, KeepObject, DeleteObject,
                    RefuseApply, RefuseDelete, Handled
      <4>4. \A j \in Keys : ~Drift(j) /\ ~FinalizersDone(j)
        BY <3>1 DEF Drift, FinalizersDone, Untouched
      <4> QED
        BY <4>1, <4>2, <4>3, <4>4 DEF Next, Run
    <3>4. CASE AddInventory
      <4>1. ~request.dryRun /\ stored' = Stored(refs \cup Added) /\ Len(queue) > 1
        BY <3>1, <3>4 DEF AddInventory, Adding
      <4>2. queue # <<>>
        <5>1. queue \in Seq(Task)
          BY DEF PipelineInv, TypeOK
        <5> QED
          BY <4>1, <5>1
      <4>3. refs = stored.refs
        BY <4>1, <4>2 DEF PipelineInv, StoredInv
      <4>4. id \in stored'.refs
        BY <3>2, <4>1, <4>3 DEF Stored
      <4> QED
        BY <3>2, <4>4 DEF Tracked
    <3>5. CASE FinishInventory
      <4>1. /\ ~request.dryRun /\ stored' = Stored(InventoryRefs) /\ Len(queue) = 1
            /\ cluster' = cluster
        BY <3>1, <3>5 DEF FinishInventory
      <4>2. PICK x \in InventoryRefs : KeyOf[x] = k
        BY <2>1, <3>2, <4>1, LastInventoryTracks
      <4>3. x \in stored'.refs
        BY <4>1, <4>2 DEF Stored
      <4> QED
        BY <4>2, <4>3 DEF Tracked
    <3> QED
      BY <3>3, <3>4, <3>5
  <2> QED
    BY <2>1, <2>2
<1> QED
  BY <1>1, PipelineInvariant, PTL DEF Spec, OwnedStaysTrackedButLeftOut
=============================================================================
