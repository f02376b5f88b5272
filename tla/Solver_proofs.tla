---------------------------- MODULE Solver_proofs ----------------------------
(***************************************************************************)
(* The layers of a graph and the queue of a run, for every finite set of   *)
(* objects, graph and plan: what the recursive SortLayers is, and the      *)
(* lemmas about the operators of InventoryManager and Solver that the      *)
(* proofs about runs rest on.                                              *)
(***************************************************************************)
EXTENDS Solver, FiniteSetTheorems, NaturalsInduction, SequenceTheorems, TLAPS

(* The layers of a graph.                                                  *)

\* Induction over the natural numbers, stated with a set so that it can be used
\* with any property.
LEMMA SetInduction ==
    ASSUME NEW B \in SUBSET Nat, 0 \in B, \A n \in B : n + 1 \in B
    PROVE  B = Nat
<1>1. SUFFICES ASSUME Nat \ B # {} PROVE FALSE
  OBVIOUS
<1>2. PICK m \in Nat \ B : \A k \in Nat \ B : <<k, m>> \notin OpToRel(<, Nat)
  BY <1>1, WFMin, NatLessThanWellFounded
<1>3. m \in Nat /\ m \notin B
  OBVIOUS
<1>4. m - 1 \in Nat /\ m - 1 < m
  BY <1>3
<1>5. m - 1 \in B
  BY <1>2, <1>3, <1>4 DEF OpToRel
<1>6. (m - 1) + 1 \in B
  BY <1>5
<1> QED
  BY <1>3, <1>6

----------------------------------------------------------------------------

\* What is left after the leaves are taken off, layer by layer: the function
\* that SortLayers applies to all objects (graph.go:146-177).
LayersStep(f, rest, g) ==
    IF Leaves(rest, g) = {} THEN <<>> ELSE <<Leaves(rest, g)>> \o f[rest \ Leaves(rest, g)]

LayersOf(V, g) == CHOOSE f : f = [rest \in SUBSET V |-> LayersStep(f, rest, g)]

\* SortLayers is that function at the set of all objects (graph.go:146).
LEMMA SortLayersOf ==
    ASSUME NEW V, NEW g
    PROVE  SortLayers(V, g) = LayersOf(V, g)[V]
BY DEF SortLayers, LayersOf, LayersStep

\* A round leaves fewer objects (graph.go:157-163).
LEMMA FewerLeft ==
    ASSUME NEW V, IsFiniteSet(V), NEW g, NEW rest \in SUBSET V, Leaves(rest, g) # {}
    PROVE  /\ Leaves(rest, g) \subseteq rest
           /\ rest \ Leaves(rest, g) \in SUBSET V
           /\ Cardinality(rest) \in Nat /\ Cardinality(rest \ Leaves(rest, g)) \in Nat
           /\ Cardinality(rest \ Leaves(rest, g)) < Cardinality(rest)
<1>1. Leaves(rest, g) \subseteq rest
  BY DEF Leaves
<1>2. IsFiniteSet(rest)
  BY FS_Subset
<1>3. rest \ Leaves(rest, g) \in SUBSET rest /\ rest \ Leaves(rest, g) # rest
  BY <1>1
<1>4. /\ IsFiniteSet(rest \ Leaves(rest, g))
      /\ Cardinality(rest \ Leaves(rest, g)) <= Cardinality(rest)
      /\ Cardinality(rest) # Cardinality(rest \ Leaves(rest, g))
  BY <1>2, <1>3, FS_Subset
<1>5. Cardinality(rest) \in Nat /\ Cardinality(rest \ Leaves(rest, g)) \in Nat
  BY <1>2, <1>4, FS_CardinalityType
<1> QED
  BY <1>1, <1>3, <1>4, <1>5

\* The sort ends: its recursion has a solution on every finite set of objects
\* (graph.go:146-177).
LEMMA LayersExist ==
    ASSUME NEW V, IsFiniteSet(V), NEW g
    PROVE  LayersOf(V, g) = [rest \in SUBSET V |-> LayersStep(LayersOf(V, g), rest, g)]
<1> DEFINE UpTo(n) == {rest \in SUBSET V : Cardinality(rest) <= n}
           Solved(n) == \E f : f = [rest \in UpTo(n) |-> LayersStep(f, rest, g)]
           B == {n \in Nat : Solved(n)}
<1>0. \A rest \in SUBSET V : Cardinality(rest) \in Nat
  BY FS_Subset, FS_CardinalityType
<1>1. 0 \in B
  <2> DEFINE f == [rest \in UpTo(0) |-> <<>>]
  <2>1. ASSUME NEW rest \in UpTo(0) PROVE Leaves(rest, g) = {}
    <3>1. rest \in SUBSET V /\ Cardinality(rest) <= 0
      OBVIOUS
    <3>2. Leaves(rest, g) # {} =>
            /\ Cardinality(rest) \in Nat /\ Cardinality(rest \ Leaves(rest, g)) \in Nat
            /\ Cardinality(rest \ Leaves(rest, g)) < Cardinality(rest)
      BY <3>1, FewerLeft
    <3> QED
      BY <3>1, <3>2
  <2>2. f = [rest \in UpTo(0) |-> LayersStep(f, rest, g)]
    BY <2>1 DEF LayersStep
  <2> QED
    BY <2>2
<1>2. ASSUME NEW n \in B PROVE n + 1 \in B
  <2>1. PICK f : f = [rest \in UpTo(n) |-> LayersStep(f, rest, g)]
    OBVIOUS
  <2> DEFINE h == [rest \in UpTo(n + 1) |->
                     IF rest \in UpTo(n) THEN f[rest] ELSE LayersStep(f, rest, g)]
  <2>2. ASSUME NEW rest \in UpTo(n + 1)
        PROVE  h[rest] = LayersStep(h, rest, g)
    <3>1. h[rest] = LayersStep(f, rest, g)
      BY <2>1
    <3>2. CASE Leaves(rest, g) = {}
      BY <3>1, <3>2 DEF LayersStep
    <3>3. CASE Leaves(rest, g) # {}
      <4> DEFINE next == rest \ Leaves(rest, g)
      <4>1. next \in UpTo(n) /\ next \in UpTo(n + 1)
        <5>1. rest \in SUBSET V /\ Cardinality(rest) <= n + 1 /\ n \in Nat
          OBVIOUS
        <5>2. /\ next \in SUBSET V
              /\ Cardinality(rest) \in Nat /\ Cardinality(next) \in Nat
              /\ Cardinality(next) < Cardinality(rest)
          BY <3>3, <5>1, FewerLeft
        <5>3. Cardinality(next) <= n /\ Cardinality(next) <= n + 1
          BY <5>1, <5>2
        <5> QED
          BY <5>2, <5>3
      <4>2. h[next] = f[next]
        BY <4>1
      <4> QED
        BY <3>1, <3>3, <4>2 DEF LayersStep
    <3> QED
      BY <3>2, <3>3
  <2>3. h = [rest \in UpTo(n + 1) |-> LayersStep(h, rest, g)]
    BY <2>2
  <2>4. Solved(n + 1)
    BY <2>3
  <2>5. n + 1 \in Nat
    OBVIOUS
  <2> QED
    BY <2>4, <2>5
<1>3. B = Nat
  <2> HIDE DEF B
  <2>1. B \in SUBSET Nat
    BY DEF B
  <2> QED
    BY <1>1, <1>2, <2>1, SetInduction
<1>4. Solved(Cardinality(V)) /\ UpTo(Cardinality(V)) = SUBSET V
  BY <1>0, <1>3, FS_Subset, FS_CardinalityType
<1>5. \E f : f = [rest \in SUBSET V |-> LayersStep(f, rest, g)]
  BY <1>4
<1> QED
  BY <1>5 DEF LayersOf

\* The layers of the objects that are left: no more once there is no leaf, else
\* the leaves and then the layers of the others (graph.go:150-177).
LEMMA LayersUnfold ==
    ASSUME NEW V, IsFiniteSet(V), NEW g, NEW rest \in SUBSET V
    PROVE  LayersOf(V, g)[rest] =
             IF Leaves(rest, g) = {} THEN <<>>
               ELSE <<Leaves(rest, g)>> \o LayersOf(V, g)[rest \ Leaves(rest, g)]
<1> DEFINE f == LayersOf(V, g)
<1>1. f = [r \in SUBSET V |-> LayersStep(f, r, g)]
  BY LayersExist
<1> HIDE DEF f
<1>2. f[rest] = LayersStep(f, rest, g)
  BY <1>1
<1> QED
  BY <1>2 DEF LayersStep, f

\* What the layers of the objects rest are: sets of these objects, no object in
\* two of them, and what an object depends on, if it is in rest, in an earlier one.
LayersWell(layers, rest, g) ==
    /\ layers \in Seq(SUBSET rest)
    /\ \A i, j \in 1 .. Len(layers) : i # j => layers[i] \cap layers[j] = {}
    /\ \A j \in 1 .. Len(layers) : \A v \in layers[j], w \in rest :
          <<v, w>> \in g => \E i \in 1 .. j - 1 : w \in layers[i]

\* A round puts the leaves in front of the layers of the others.
LEMMA LeavesInFront ==
    ASSUME NEW rest, NEW g, NEW layers,
           LayersWell(layers, rest \ Leaves(rest, g), g)
    PROVE  LayersWell(<<Leaves(rest, g)>> \o layers, rest, g)
<1> DEFINE L == Leaves(rest, g)
           all == <<L>> \o layers
<1>1. L \subseteq rest
  BY DEF Leaves
<1>2. layers \in Seq(SUBSET (rest \ L))
  BY DEF LayersWell
<1>3. layers \in Seq(SUBSET rest) /\ <<L>> \in Seq(SUBSET rest)
  <2>1. SUBSET (rest \ L) \subseteq SUBSET rest
    BY <1>1
  <2> QED
    BY <1>1, <1>2, <2>1
<1>4. /\ all \in Seq(SUBSET rest)
      /\ Len(all) = Len(layers) + 1 /\ Len(layers) \in Nat
      /\ all[1] = L /\ \A i \in 1 .. Len(layers) : all[i + 1] = layers[i]
  BY <1>3
<1>5. \A i \in 2 .. Len(all) :
          i - 1 \in 1 .. Len(layers) /\ all[i] = layers[i - 1] /\ all[i] \subseteq rest \ L
  BY <1>2, <1>4
<1>6. ASSUME NEW i \in 1 .. Len(all), NEW j \in 1 .. Len(all), i # j
      PROVE  all[i] \cap all[j] = {}
  <2>1. CASE i = 1
    BY <1>4, <1>5, <1>6, <2>1
  <2>2. CASE j = 1
    BY <1>4, <1>5, <1>6, <2>2
  <2>3. CASE i # 1 /\ j # 1
    <3>1. i \in 2 .. Len(all) /\ j \in 2 .. Len(all)
      BY <1>4, <2>3
    <3>2. /\ i - 1 \in 1 .. Len(layers) /\ all[i] = layers[i - 1]
          /\ j - 1 \in 1 .. Len(layers) /\ all[j] = layers[j - 1]
      BY <1>5, <3>1
    <3>3. i - 1 # j - 1
      BY <1>6
    <3> QED
      BY <3>2, <3>3 DEF LayersWell
  <2> QED
    BY <2>1, <2>2, <2>3
<1>7. ASSUME NEW j \in 1 .. Len(all), NEW v \in all[j], NEW w \in rest, <<v, w>> \in g
      PROVE  \E i \in 1 .. j - 1 : w \in all[i]
  <2>1. CASE j = 1
    <3>1. v \in L
      BY <1>4, <1>7, <2>1
    <3>2. w \notin rest
      BY <1>7, <3>1 DEF Leaves
    <3> QED
      BY <3>2
  <2>2. CASE j # 1
    <3>1. j - 1 \in 1 .. Len(layers) /\ v \in layers[j - 1]
      BY <1>4, <1>5, <1>7, <2>2
    <3>2. CASE w \in L
      <4>1. 1 \in 1 .. j - 1
        BY <3>1
      <4> QED
        BY <1>4, <3>2, <4>1
    <3>3. CASE w \notin L
      <4>1. PICK i \in 1 .. (j - 1) - 1 : w \in layers[i]
        BY <1>7, <3>1, <3>3 DEF LayersWell
      <4>2. i + 1 \in 1 .. j - 1 /\ w \in all[i + 1]
        BY <1>4, <3>1, <4>1
      <4> QED
        BY <4>2
    <3> QED
      BY <3>2, <3>3
  <2> QED
    BY <2>1, <2>2
<1> QED
  BY <1>4, <1>6, <1>7 DEF LayersWell

\* What SortLayers returns, by induction on the number of objects that are left.
LEMMA LayersAreWell ==
    ASSUME NEW V, IsFiniteSet(V), NEW g
    PROVE  \A rest \in SUBSET V : LayersWell(LayersOf(V, g)[rest], rest, g)
<1> DEFINE Well(n) == \A rest \in SUBSET V :
                        Cardinality(rest) <= n => LayersWell(LayersOf(V, g)[rest], rest, g)
           B == {n \in Nat : Well(n)}
<1>0. \A rest \in SUBSET V : Cardinality(rest) \in Nat
  BY FS_Subset, FS_CardinalityType
<1>1. ASSUME NEW rest \in SUBSET V, Leaves(rest, g) = {}
      PROVE  LayersWell(LayersOf(V, g)[rest], rest, g)
  <2>1. LayersOf(V, g)[rest] = <<>>
    BY <1>1, LayersUnfold
  <2>2. LayersWell(<<>>, rest, g)
    BY DEF LayersWell
  <2> QED
    BY <2>1, <2>2
<1>2. 0 \in B
  <2>1. ASSUME NEW rest \in SUBSET V, Cardinality(rest) <= 0
        PROVE  LayersWell(LayersOf(V, g)[rest], rest, g)
    <3>1. Leaves(rest, g) # {} =>
            /\ Cardinality(rest) \in Nat /\ Cardinality(rest \ Leaves(rest, g)) \in Nat
            /\ Cardinality(rest \ Leaves(rest, g)) < Cardinality(rest)
      BY FewerLeft
    <3>2. Leaves(rest, g) = {}
      BY <2>1, <3>1
    <3> QED
      BY <1>1, <3>2
  <2> QED
    BY <2>1
<1>3. ASSUME NEW n \in B PROVE n + 1 \in B
  <2>1. n \in Nat /\ Well(n)
    OBVIOUS
  <2>2. ASSUME NEW rest \in SUBSET V, Cardinality(rest) <= n + 1
        PROVE  LayersWell(LayersOf(V, g)[rest], rest, g)
    <3>1. CASE Leaves(rest, g) # {}
      <4> DEFINE next == rest \ Leaves(rest, g)
      <4>1. /\ next \in SUBSET V
            /\ Cardinality(rest) \in Nat /\ Cardinality(next) \in Nat
            /\ Cardinality(next) < Cardinality(rest)
        BY <3>1, FewerLeft
      <4>2. Cardinality(next) <= n
        BY <2>1, <2>2, <4>1
      <4>3. LayersWell(LayersOf(V, g)[next], next, g)
        BY <2>1, <4>1, <4>2
      <4>4. LayersOf(V, g)[rest] = <<Leaves(rest, g)>> \o LayersOf(V, g)[next]
        BY <3>1, LayersUnfold
      <4> QED
        BY <4>3, <4>4, LeavesInFront
    <3> QED
      BY <1>1, <3>1
  <2>3. n + 1 \in Nat /\ Well(n + 1)
    BY <2>1, <2>2
  <2> QED
    BY <2>3
<1>4. B = Nat
  <2> HIDE DEF B
  <2>1. B \in SUBSET Nat
    BY DEF B
  <2> QED
    BY <1>2, <1>3, <2>1, SetInduction
<1>5. ASSUME NEW rest \in SUBSET V
      PROVE  LayersWell(LayersOf(V, g)[rest], rest, g)
  <2>1. Cardinality(rest) \in B
    BY <1>0, <1>4
  <2>2. Well(Cardinality(rest)) /\ Cardinality(rest) <= Cardinality(rest)
    BY <1>0, <2>1
  <2> QED
    BY <2>2
<1> QED
  BY <1>5

\* The layers of a sorted graph: disjoint sets of the objects, each after what
\* its objects depend on; so nothing is applied before what it depends on, and
\* no object is in two tasks, whatever the annotations say (graph.go:146-177).
THEOREM SortLayersWell ==
    ASSUME NEW V, IsFiniteSet(V), NEW g
    PROVE  LayersWell(SortLayers(V, g), V, g)
BY LayersAreWell, SortLayersOf

----------------------------------------------------------------------------
(* The manager, the plan and the queue.                                    *)

\* Setting the reconcile status of one object keeps the manager well formed.
LEMMA SetReconcileType ==
    ASSUME NEW m \in Managers, NEW id \in Objects, NEW r \in Reconciles
    PROVE  SetReconcile(m, id, r) \in Managers
BY DEF SetReconcile, Managers, Found, ObjectStatus, Untracked

\* So does the registration of an actuation outcome.
LEMMA SetObjectStatusType ==
    ASSUME NEW m \in Managers, NEW id \in Objects, NEW s \in Strategies,
           NEW act \in Actuations, NEW uid \in UIDs \cup {NoUID}, NEW gen \in Nat
    PROVE  SetObjectStatus(m, id, s, act, uid, gen) \in Managers
BY DEF SetObjectStatus, Managers, ObjectStatus, Reconciles

\* ... and the registration of the plan.
LEMMA AddPendingType ==
    ASSUME NEW m \in Managers, NEW s \in Strategies, NEW ids
    PROVE  AddPending(m, s, ids) \in Managers
BY DEF AddPending, Managers, ObjectStatus, Actuations, Reconciles

\* So the manager is well formed when a run starts.
LEMMA PlannedManagerType ==
    ASSUME NEW p PROVE PlannedManager(p) \in Managers
<1>1. NewManager \in Managers
  BY DEF NewManager, Managers
<1>2. "Apply" \in Strategies /\ "Delete" \in Strategies
  BY DEF Strategies
<1> QED
  BY <1>1, <1>2, AddPendingType DEF PlannedManager

\* The tasks that are only about objects of S.
TaskOn(S) == {t \in Task : t.ids \subseteq S}

\* The objects a plan registers with the manager.
Registered(p) ==
    Members(p.applySets) \cup (IF p.prune THEN Members(p.pruneSets) ELSE {})

\* Both shapes of the apply and prune part of the queue hold only tasks, and
\* only tasks about the objects of the sets they are made of.
LEMMA ActuateAndWaitType ==
    ASSUME NEW p \in PlanType, NEW S \in SUBSET Objects,
           NEW sets \in Seq(SUBSET S),
           NEW action \in {"Apply", "Prune"},
           NEW cond \in {"AllCurrent", "AllNotFound"}
    PROVE  ActuateAndWait(action, cond, sets, p) \in Seq(TaskOn(S))
<1>1. Len(sets) \in Nat /\ \A i \in 1 .. Len(sets) : sets[i] \in SUBSET S
  OBVIOUS
<1>2. p.timeout \in BOOLEAN
  BY DEF PlanType
<1>3. CASE p.dryRun
  <2>1. \A i \in 1 .. Len(sets) : ActuationTask(action, sets[i]) \in TaskOn(S)
    BY <1>1 DEF ActuationTask, Task, TaskOn
  <2> QED
    BY <1>1, <1>3, <2>1 DEF ActuateAndWait
<1>4. CASE ~p.dryRun
  <2> DEFINE f(i) == IF i % 2 = 1
                       THEN ActuationTask(action, sets[(i + 1) \div 2])
                       ELSE WaitTaskFor(cond, sets[i \div 2], p.timeout)
  <2>1. ASSUME NEW i \in 1 .. 2 * Len(sets), i % 2 = 1
        PROVE  f(i) \in TaskOn(S)
    <3>1. (i + 1) \div 2 \in 1 .. Len(sets)
      BY <1>1, <2>1
    <3> QED
      BY <1>1, <2>1, <3>1 DEF ActuationTask, Task, TaskOn
  <2>2. ASSUME NEW i \in 1 .. 2 * Len(sets), i % 2 # 1
        PROVE  f(i) \in TaskOn(S)
    <3>1. i \div 2 \in 1 .. Len(sets)
      BY <1>1, <2>2
    <3> QED
      BY <1>1, <1>2, <2>2, <3>1 DEF WaitTaskFor, Task, TaskOn
  <2>3. \A i \in 1 .. 2 * Len(sets) : f(i) \in TaskOn(S)
    BY <2>1, <2>2
  <2>4. 2 * Len(sets) \in Nat
    BY <1>1
  <2>5. ActuateAndWait(action, cond, sets, p) = [i \in 1 .. 2 * Len(sets) |-> f(i)]
    BY <1>4 DEF ActuateAndWait
  <2> QED
    BY <2>3, <2>4, <2>5
<1> QED
  BY <1>3, <1>4

\* The sets of a plan contain only registered objects.
LEMMA MembersType ==
    ASSUME NEW sets \in Seq(SUBSET Objects)
    PROVE  Members(sets) \subseteq Objects /\ sets \in Seq(SUBSET Members(sets))
<1>1. \A i \in DOMAIN sets : sets[i] \subseteq Objects
  OBVIOUS
<1>2. Members(sets) \subseteq Objects
  BY <1>1 DEF Members
<1>3. \A i \in DOMAIN sets : sets[i] \subseteq Members(sets)
  BY DEF Members
<1>4. Len(sets) \in Nat /\ DOMAIN sets = 1 .. Len(sets)
      /\ sets = [i \in 1 .. Len(sets) |-> sets[i]]
  OBVIOUS
<1> QED
  BY <1>2, <1>3, <1>4

\* The queue Build makes of a plan is a sequence of tasks about objects the
\* plan registers.
LEMMA BuildType ==
    ASSUME NEW p \in PlanType
    PROVE  Build(p) \in Seq(TaskOn(Registered(p)))
<1> DEFINE A == Members(p.applySets)
           P == Members(p.pruneSets)
<1>1. <<InventoryTask>> \in Seq(TaskOn(Registered(p)))
      /\ <<>> \in Seq(TaskOn(Registered(p)))
  BY DEF InventoryTask, Task, TaskOn
<1>2. p.applySets \in Seq(SUBSET Objects) /\ p.pruneSets \in Seq(SUBSET Objects)
  BY DEF PlanType
<1>3. /\ A \in SUBSET Objects /\ p.applySets \in Seq(SUBSET A)
      /\ P \in SUBSET Objects /\ p.pruneSets \in Seq(SUBSET P)
  BY <1>2, MembersType
<1>4. ReverseSetList(p.pruneSets) \in Seq(SUBSET P)
  BY <1>3 DEF ReverseSetList
<1>5. ActuateAndWait("Apply", "AllCurrent", p.applySets, p) \in Seq(TaskOn(A))
  BY <1>3, ActuateAndWaitType
<1>6. ActuateAndWait("Prune", "AllNotFound", ReverseSetList(p.pruneSets), p)
        \in Seq(TaskOn(P))
  BY <1>3, <1>4, ActuateAndWaitType
<1>7. TaskOn(A) \subseteq TaskOn(Registered(p))
  BY DEF TaskOn, Registered
<1>8. p.prune => TaskOn(P) \subseteq TaskOn(Registered(p))
  BY DEF TaskOn, Registered
<1>9. ActuateAndWait("Apply", "AllCurrent", p.applySets, p)
        \in Seq(TaskOn(Registered(p)))
  BY <1>5, <1>7
<1>10. p.prune => ActuateAndWait("Prune", "AllNotFound", ReverseSetList(p.pruneSets), p)
                    \in Seq(TaskOn(Registered(p)))
  BY <1>6, <1>8
<1> HIDE DEF A, P
<1> QED
  BY <1>1, <1>9, <1>10 DEF Build

\* Every object a plan registers has an entry in the manager.
LEMMA RegisteredFound ==
    ASSUME NEW p \in PlanType, NEW id \in Objects, id \in Registered(p)
    PROVE  Found(PlannedManager(p), id)
BY DEF Registered, PlannedManager, AddPending, Found, Untracked

----------------------------------------------------------------------------
(* The queue that Build makes.                                             *)

\* Both tasks actuate, or both wait.
SameKind(t, u) == t.action = "Wait" <=> u.action = "Wait"

\* A task of q is about id.
QueuedToActuate(q, id) == \E i \in 1 .. Len(q) : q[i].action # "Wait" /\ id \in q[i].ids
QueuedToWait(q, id)    == \E i \in 1 .. Len(q) : q[i].action = "Wait" /\ id \in q[i].ids

\* No object is in two tasks of one kind.
Distinct(q) ==
    \A i, j \in 1 .. Len(q) : i # j /\ SameKind(q[i], q[j]) => q[i].ids \cap q[j].ids = {}

\* A sequence over a set is one over a larger set.
LEMMA WiderSeq ==
    ASSUME NEW S, NEW T, S \subseteq T, NEW s \in Seq(S) PROVE s \in Seq(T)
OBVIOUS

\* Queues about different objects put together.
LEMMA ConcatDistinct ==
    ASSUME NEW A, NEW B, A \cap B = {}, NEW s \in Seq(TaskOn(A)), NEW t \in Seq(TaskOn(B)),
           Distinct(s), Distinct(t)
    PROVE  Distinct(s \o t)
<1> SUFFICES ASSUME NEW i \in 1 .. Len(s \o t), NEW j \in 1 .. Len(s \o t), i # j,
                    SameKind((s \o t)[i], (s \o t)[j])
             PROVE  (s \o t)[i].ids \cap (s \o t)[j].ids = {}
  BY DEF Distinct
<1>1. /\ Len(s) \in Nat /\ Len(t) \in Nat /\ Len(s \o t) = Len(s) + Len(t)
      /\ \A k \in 1 .. Len(s) : (s \o t)[k] = s[k] /\ s[k] \in TaskOn(A)
      /\ \A k \in 1 .. Len(t) : t[k] \in TaskOn(B)
  OBVIOUS
<1>2. \A k \in 1 .. Len(s \o t) : k > Len(s) => (s \o t)[k] = t[k - Len(s)] /\ k - Len(s) \in 1 .. Len(t)
  BY <1>1
<1>3. CASE i <= Len(s) /\ j <= Len(s)
  BY <1>1, <1>3 DEF Distinct
<1>4. CASE i > Len(s) /\ j > Len(s)
  <2>1. /\ i - Len(s) \in 1 .. Len(t) /\ j - Len(s) \in 1 .. Len(t)
        /\ i - Len(s) # j - Len(s)
    BY <1>1, <1>2, <1>4
  <2> QED
    BY <1>2, <1>4, <2>1 DEF Distinct
<1>5. CASE i <= Len(s) /\ j > Len(s)
  <2>1. (s \o t)[i] \in TaskOn(A) /\ (s \o t)[j] \in TaskOn(B)
    BY <1>1, <1>2, <1>5
  <2> QED
    BY <2>1 DEF TaskOn
<1>6. CASE i > Len(s) /\ j <= Len(s)
  <2>1. (s \o t)[i] \in TaskOn(B) /\ (s \o t)[j] \in TaskOn(A)
    BY <1>1, <1>2, <1>6
  <2> QED
    BY <2>1 DEF TaskOn
<1> QED
  BY <1>1, <1>3, <1>4, <1>5, <1>6

\* What is queued in one of two queues is queued in both together.
LEMMA ConcatQueued ==
    ASSUME NEW s \in Seq(Task), NEW t \in Seq(Task), NEW id
    PROVE  QueuedToActuate(s, id) \/ QueuedToActuate(t, id) => QueuedToActuate(s \o t, id)
<1>1. /\ Len(s) \in Nat /\ Len(t) \in Nat /\ Len(s \o t) = Len(s) + Len(t)
      /\ \A k \in 1 .. Len(s) : (s \o t)[k] = s[k]
      /\ \A k \in 1 .. Len(t) : (s \o t)[k + Len(s)] = t[k]
  OBVIOUS
<1>2. ASSUME QueuedToActuate(s, id) PROVE QueuedToActuate(s \o t, id)
  <2>1. PICK k \in 1 .. Len(s) : s[k].action # "Wait" /\ id \in s[k].ids
    BY <1>2 DEF QueuedToActuate
  <2>2. k \in 1 .. Len(s \o t) /\ (s \o t)[k] = s[k]
    BY <1>1
  <2> QED
    BY <2>1, <2>2 DEF QueuedToActuate
<1>3. ASSUME QueuedToActuate(t, id) PROVE QueuedToActuate(s \o t, id)
  <2>1. PICK k \in 1 .. Len(t) : t[k].action # "Wait" /\ id \in t[k].ids
    BY <1>3 DEF QueuedToActuate
  <2>2. k + Len(s) \in 1 .. Len(s \o t) /\ (s \o t)[k + Len(s)] = t[k]
    BY <1>1
  <2> QED
    BY <2>1, <2>2 DEF QueuedToActuate
<1> QED
  BY <1>2, <1>3

\* One actuation task, and at most one wait, for each of a list of sets.
LEMMA ActuateAndWaitOrder ==
    ASSUME NEW p \in PlanType, NEW sets \in Seq(SUBSET Objects),
           \A i, j \in DOMAIN sets : i # j => sets[i] \cap sets[j] = {},
           NEW action \in {"Apply", "Prune"}, NEW cond
    PROVE  /\ Distinct(ActuateAndWait(action, cond, sets, p))
           /\ \A id \in Members(sets) : QueuedToActuate(ActuateAndWait(action, cond, sets, p), id)
<1> DEFINE q == ActuateAndWait(action, cond, sets, p)
<1> SUFFICES Distinct(q) /\ \A id \in Members(sets) : QueuedToActuate(q, id)
  OBVIOUS
<1>1. Len(sets) \in Nat /\ DOMAIN sets = 1 .. Len(sets)
  OBVIOUS
<1>2. CASE p.dryRun
  <2>1. q = [i \in 1 .. Len(sets) |-> ActuationTask(action, sets[i])]
    BY <1>2 DEF ActuateAndWait
  <2>2. /\ Len(q) = Len(sets)
        /\ \A i \in 1 .. Len(sets) : q[i].ids = sets[i] /\ q[i].action # "Wait"
    BY <1>1, <2>1 DEF ActuationTask
  <2> HIDE DEF q
  <2> QED
    BY <1>1, <2>2 DEF Distinct, QueuedToActuate, Members
<1>3. CASE ~p.dryRun
  <2>1. q = [i \in 1 .. 2 * Len(sets) |->
              IF i % 2 = 1
                THEN ActuationTask(action, sets[(i + 1) \div 2])
                ELSE WaitTaskFor(cond, sets[i \div 2], p.timeout)]
    BY <1>3 DEF ActuateAndWait
  <2>2. Len(q) = 2 * Len(sets)
    BY <1>1, <2>1
  <2>3. \A i \in 1 .. Len(q) :
          /\ i % 2 = 1 => q[i].ids = sets[(i + 1) \div 2] /\ q[i].action # "Wait"
          /\ i % 2 # 1 => q[i].ids = sets[i \div 2] /\ q[i].action = "Wait"
    BY <2>1, <2>2 DEF ActuationTask, WaitTaskFor
  <2> HIDE DEF q
  <2>4. Distinct(q)
    <3> SUFFICES ASSUME NEW i \in 1 .. Len(q), NEW j \in 1 .. Len(q), i # j, SameKind(q[i], q[j])
                 PROVE  q[i].ids \cap q[j].ids = {}
      BY DEF Distinct
    <3>1. CASE i % 2 = 1 /\ j % 2 = 1
      <4>1. /\ (i + 1) \div 2 \in 1 .. Len(sets) /\ (j + 1) \div 2 \in 1 .. Len(sets)
            /\ (i + 1) \div 2 # (j + 1) \div 2
        BY <1>1, <2>2, <3>1
      <4> QED
        BY <1>1, <2>3, <3>1, <4>1
    <3>2. CASE i % 2 # 1 /\ j % 2 # 1
      <4>1. /\ i \div 2 \in 1 .. Len(sets) /\ j \div 2 \in 1 .. Len(sets)
            /\ i \div 2 # j \div 2
        BY <1>1, <2>2, <3>2
      <4> QED
        BY <1>1, <2>3, <3>2, <4>1
    <3> QED
      BY <2>3, <3>1, <3>2 DEF SameKind
  <2>5. ASSUME NEW id \in Members(sets) PROVE QueuedToActuate(q, id)
    <3>1. PICK k \in 1 .. Len(sets) : id \in sets[k]
      BY <1>1 DEF Members
    <3>2. 2 * k - 1 \in 1 .. Len(q) /\ (2 * k - 1) % 2 = 1 /\ ((2 * k - 1) + 1) \div 2 = k
      BY <1>1, <2>2
    <3> QED
      BY <2>3, <3>1, <3>2 DEF QueuedToActuate
  <2> QED
    BY <2>4, <2>5
<1> QED
  BY <1>2, <1>3

\* The queue of a plan has one task of a kind for an object, and an actuation
\* of everything the plan registers.
LEMMA BuildOrder ==
    ASSUME NEW p \in PlanType, OneSetEach(p)
    PROVE  Distinct(Build(p)) /\ \A id \in Registered(p) : QueuedToActuate(Build(p), id)
<1> DEFINE A == Members(p.applySets)
           P == Members(p.pruneSets)
           first == IF p.destroy THEN <<>> ELSE <<InventoryTask>>
           apply == ActuateAndWait("Apply", "AllCurrent", p.applySets, p)
           reversed == ReverseSetList(p.pruneSets)
           prune == IF p.prune THEN ActuateAndWait("Prune", "AllNotFound", reversed, p) ELSE <<>>
           last == <<InventoryTask>>
<1>1. p.applySets \in Seq(SUBSET Objects) /\ p.pruneSets \in Seq(SUBSET Objects)
  BY DEF PlanType
<1>2. /\ A \in SUBSET Objects /\ p.applySets \in Seq(SUBSET A)
      /\ P \in SUBSET Objects /\ p.pruneSets \in Seq(SUBSET P)
  BY <1>1, MembersType
<1>3. /\ reversed \in Seq(SUBSET Objects) /\ reversed \in Seq(SUBSET P)
      /\ DOMAIN reversed = 1 .. Len(p.pruneSets)
      /\ \A i \in 1 .. Len(p.pruneSets) : reversed[i] = p.pruneSets[Len(p.pruneSets) + 1 - i]
  BY <1>1, <1>2 DEF ReverseSetList
<1>4. \A i, j \in DOMAIN reversed : i # j => reversed[i] \cap reversed[j] = {}
  <2> SUFFICES ASSUME NEW i \in 1 .. Len(p.pruneSets), NEW j \in 1 .. Len(p.pruneSets), i # j
               PROVE  reversed[i] \cap reversed[j] = {}
    BY <1>3
  <2>1. /\ Len(p.pruneSets) + 1 - i \in DOMAIN p.pruneSets
        /\ Len(p.pruneSets) + 1 - j \in DOMAIN p.pruneSets
        /\ Len(p.pruneSets) + 1 - i # Len(p.pruneSets) + 1 - j
    BY <1>1
  <2> QED
    BY <1>3, <2>1 DEF OneSetEach
<1>5. ASSUME NEW id \in P PROVE id \in Members(reversed)
  <2>1. PICK k \in 1 .. Len(p.pruneSets) : id \in p.pruneSets[k]
    BY <1>1 DEF Members
  <2>2. /\ Len(p.pruneSets) + 1 - k \in 1 .. Len(p.pruneSets)
        /\ Len(p.pruneSets) + 1 - (Len(p.pruneSets) + 1 - k) = k
    BY <1>1
  <2>3. id \in reversed[Len(p.pruneSets) + 1 - k]
    BY <1>3, <2>1, <2>2
  <2> QED
    BY <1>3, <2>2, <2>3 DEF Members
<1>6. /\ apply \in Seq(TaskOn(A)) /\ Distinct(apply)
      /\ \A id \in A : QueuedToActuate(apply, id)
  BY <1>1, <1>2, ActuateAndWaitType, ActuateAndWaitOrder DEF OneSetEach
<1>7. /\ prune \in Seq(TaskOn(P)) /\ Distinct(prune)
      /\ p.prune => \A id \in P : QueuedToActuate(prune, id)
  <2>1. CASE p.prune
    BY <1>2, <1>3, <1>4, <1>5, <2>1, ActuateAndWaitType, ActuateAndWaitOrder
  <2>2. CASE ~p.prune
    BY <2>2 DEF Distinct
  <2> QED
    BY <2>1, <2>2
<1>8. /\ first \in Seq(TaskOn({})) /\ Distinct(first)
      /\ last \in Seq(TaskOn({})) /\ Distinct(last)
  <2>1. InventoryTask \in TaskOn({})
    BY DEF TaskOn, Task, InventoryTask
  <2>2. /\ <<>> \in Seq(TaskOn({})) /\ <<InventoryTask>> \in Seq(TaskOn({}))
        /\ Len(<<>>) = 0 /\ Len(<<InventoryTask>>) = 1
    BY <2>1
  <2>3. Distinct(<<>>) /\ Distinct(<<InventoryTask>>)
    BY <2>2 DEF Distinct
  <2> QED
    BY <2>2, <2>3
<1>9. Build(p) = ((first \o apply) \o prune) \o last
  BY DEF Build
<1>10. A \cap P = {}
  BY DEF OneSetEach
<1> HIDE DEF A, P, first, apply, reversed, prune, last
<1>11. Distinct(first \o apply) /\ first \o apply \in Seq(TaskOn(A))
  <2>1. TaskOn({}) \subseteq TaskOn(A)
    BY DEF TaskOn
  <2>2. first \in Seq(TaskOn(A))
    BY <1>8, <2>1
  <2> QED
    BY <1>6, <1>8, <2>2, ConcatDistinct
<1>12. Distinct((first \o apply) \o prune) /\ (first \o apply) \o prune \in Seq(TaskOn(A \cup P))
  <2>1. TaskOn(A) \subseteq TaskOn(A \cup P) /\ TaskOn(P) \subseteq TaskOn(A \cup P)
    BY DEF TaskOn
  <2>2. first \o apply \in Seq(TaskOn(A \cup P)) /\ prune \in Seq(TaskOn(A \cup P))
    BY <1>7, <1>11, <2>1, WiderSeq
  <2>3. (first \o apply) \o prune \in Seq(TaskOn(A \cup P))
    BY <2>2
  <2> QED
    BY <1>7, <1>10, <1>11, <2>3, ConcatDistinct
<1>13. Distinct(Build(p))
  BY <1>8, <1>9, <1>12, ConcatDistinct
<1>14. /\ first \in Seq(Task) /\ apply \in Seq(Task) /\ prune \in Seq(Task) /\ last \in Seq(Task)
       /\ first \o apply \in Seq(Task) /\ (first \o apply) \o prune \in Seq(Task)
  <2>1. TaskOn({}) \subseteq Task /\ TaskOn(A) \subseteq Task /\ TaskOn(P) \subseteq Task
    BY DEF TaskOn
  <2>2. first \in Seq(Task) /\ apply \in Seq(Task) /\ prune \in Seq(Task) /\ last \in Seq(Task)
    BY <1>6, <1>7, <1>8, <2>1
  <2> QED
    BY <2>2
<1>15. ASSUME NEW id \in Registered(p) PROVE QueuedToActuate(Build(p), id)
  <2>1. id \in A \/ (p.prune /\ id \in P)
    BY DEF Registered, A, P
  <2>2. QueuedToActuate(apply, id) \/ QueuedToActuate(prune, id)
    BY <1>6, <1>7, <2>1
  <2>3. QueuedToActuate(first \o apply, id) \/ QueuedToActuate(prune, id)
    BY <1>14, <2>2, ConcatQueued
  <2>4. QueuedToActuate((first \o apply) \o prune, id)
    BY <1>14, <2>3, ConcatQueued
  <2> QED
    BY <1>9, <1>14, <2>4, ConcatQueued
<1> QED
  BY <1>13, <1>15

----------------------------------------------------------------------------
(* HydrateSetList: the sets of a plan.                                     *)

\* The loop of HydrateSetList over the layers (depends.go:68-81).
HydrateStep(f, i, layers, objs) ==
    IF i = 0 THEN <<>>
      ELSE IF layers[i] \cap objs = {} THEN f[i - 1]
      ELSE Append(f[i - 1], layers[i] \cap objs)

Hydrated(layers, objs) ==
    CHOOSE f : f = [i \in 0 .. Len(layers) |-> HydrateStep(f, i, layers, objs)]

\* HydrateSetList is what the loop has kept after the last layer.
LEMMA HydrateSetListOf ==
    ASSUME NEW layers, NEW objs
    PROVE  HydrateSetList(layers, objs) = Hydrated(layers, objs)[Len(layers)]
BY DEF HydrateSetList, Hydrated, HydrateStep

\* The loop comes to an end after any number of layers.
LEMMA HydratedExists ==
    ASSUME NEW layers, NEW objs, Len(layers) \in Nat
    PROVE  \A i \in 0 .. Len(layers) :
              Hydrated(layers, objs)[i] = HydrateStep(Hydrated(layers, objs), i, layers, objs)
<1> DEFINE Solved(n) == \E f : f = [i \in 0 .. n |-> HydrateStep(f, i, layers, objs)]
           B == {n \in Nat : Solved(n)}
<1>1. 0 \in B
  <2> DEFINE f == [i \in 0 .. 0 |-> <<>>]
  <2>1. f = [i \in 0 .. 0 |-> HydrateStep(f, i, layers, objs)]
    BY DEF HydrateStep
  <2> QED
    BY <2>1
<1>2. ASSUME NEW n \in B PROVE n + 1 \in B
  <2>1. n \in Nat /\ \E f : f = [i \in 0 .. n |-> HydrateStep(f, i, layers, objs)]
    OBVIOUS
  <2>2. PICK f : f = [i \in 0 .. n |-> HydrateStep(f, i, layers, objs)]
    BY <2>1
  <2> DEFINE h == [i \in 0 .. n + 1 |->
                     IF i \in 0 .. n THEN f[i] ELSE HydrateStep(f, i, layers, objs)]
  <2>3. ASSUME NEW i \in 0 .. n + 1 PROVE h[i] = HydrateStep(h, i, layers, objs)
    <3>1. h[i] = HydrateStep(f, i, layers, objs)
      BY <2>2
    <3>2. CASE i = 0
      BY <3>1, <3>2 DEF HydrateStep
    <3>3. CASE i # 0
      <4>1. i - 1 \in 0 .. n /\ i - 1 \in 0 .. n + 1
        BY <2>1, <3>3
      <4>2. h[i - 1] = f[i - 1]
        BY <4>1
      <4> QED
        BY <3>1, <3>3, <4>2 DEF HydrateStep
    <3> QED
      BY <3>2, <3>3
  <2>4. h = [i \in 0 .. n + 1 |-> HydrateStep(h, i, layers, objs)]
    BY <2>3
  <2>5. Solved(n + 1) /\ n + 1 \in Nat
    BY <2>1, <2>4
  <2> QED
    BY <2>5
<1>3. B = Nat
  <2> HIDE DEF B
  <2>1. B \in SUBSET Nat
    BY DEF B
  <2> QED
    BY <1>1, <1>2, <2>1, SetInduction
<1>4. Solved(Len(layers))
  BY <1>3
<1> DEFINE f == Hydrated(layers, objs)
<1>5. f = [i \in 0 .. Len(layers) |-> HydrateStep(f, i, layers, objs)]
  BY <1>4 DEF Hydrated
<1> HIDE DEF f
<1>6. \A i \in 0 .. Len(layers) : f[i] = HydrateStep(f, i, layers, objs)
  BY <1>5
<1> QED
  BY <1>6 DEF f

\* What is kept of the first n layers: their objects that are in objs, in sets
\* without common objects if the layers have none.
KeptWell(kept, n, layers, objs) ==
    /\ kept \in Seq(SUBSET objs)
    /\ Members(kept) = (UNION {layers[i] : i \in 1 .. n}) \cap objs
    /\ (\A i, j \in 1 .. Len(layers) : i # j => layers[i] \cap layers[j] = {})
         => \A i, j \in 1 .. Len(kept) : i # j => kept[i] \cap kept[j] = {}

\* One more layer with objects to keep.
LEMMA KeptAppend ==
    ASSUME NEW layers, NEW objs, NEW n \in Nat, Len(layers) \in Nat, n + 1 <= Len(layers),
           NEW kept, KeptWell(kept, n, layers, objs)
    PROVE  KeptWell(Append(kept, layers[n + 1] \cap objs), n + 1, layers, objs)
<1> DEFINE s == layers[n + 1] \cap objs
           all == Append(kept, s)
<1>0. kept \in Seq(SUBSET objs) /\ s \in SUBSET objs
  BY DEF KeptWell
<1>1. /\ all \in Seq(SUBSET objs) /\ Len(kept) \in Nat /\ Len(all) = Len(kept) + 1
      /\ DOMAIN kept = 1 .. Len(kept) /\ DOMAIN all = 1 .. Len(kept) + 1
      /\ all[Len(kept) + 1] = s
      /\ \A i \in 1 .. Len(kept) : all[i] = kept[i]
  BY <1>0
<1> HIDE DEF all, s
<1>2. Members(all) = Members(kept) \cup s
  <2>1. \A x : x \in Members(all) <=> \E i \in 1 .. Len(kept) + 1 : x \in all[i]
    BY <1>1 DEF Members
  <2>2. \A x : x \in Members(kept) <=> \E i \in 1 .. Len(kept) : x \in kept[i]
    BY <1>1 DEF Members
  <2>3. \A i \in 1 .. Len(kept) + 1 : i \in 1 .. Len(kept) \/ i = Len(kept) + 1
    BY <1>1
  <2>4. /\ Len(kept) + 1 \in 1 .. Len(kept) + 1
        /\ \A i \in 1 .. Len(kept) : i \in 1 .. Len(kept) + 1
    BY <1>1
  <2> QED
    BY <1>1, <2>1, <2>2, <2>3, <2>4
<1>3. Members(all) = (UNION {layers[i] : i \in 1 .. n + 1}) \cap objs
  <2>1. \A i \in 1 .. n + 1 : i \in 1 .. n \/ i = n + 1
    OBVIOUS
  <2>2. n + 1 \in 1 .. n + 1 /\ \A i \in 1 .. n : i \in 1 .. n + 1
    OBVIOUS
  <2>3. Members(kept) = (UNION {layers[i] : i \in 1 .. n}) \cap objs
    BY DEF KeptWell
  <2> QED
    BY <1>2, <2>1, <2>2, <2>3 DEF s
<1>4. ASSUME \A i, j \in 1 .. Len(layers) : i # j => layers[i] \cap layers[j] = {},
             NEW i \in 1 .. Len(all), NEW j \in 1 .. Len(all), i # j
      PROVE  all[i] \cap all[j] = {}
  <2>1. Members(kept) \cap s = {}
    <3>1. \A k \in 1 .. n : k \in 1 .. Len(layers) /\ n + 1 \in 1 .. Len(layers) /\ k # n + 1
      OBVIOUS
    <3>2. Members(kept) = (UNION {layers[k] : k \in 1 .. n}) \cap objs
      BY DEF KeptWell
    <3> QED
      BY <1>4, <3>1, <3>2 DEF s
  <2>2. \A k \in 1 .. Len(kept) : all[k] \subseteq Members(kept)
    BY <1>1 DEF Members
  <2>3. CASE i \in 1 .. Len(kept) /\ j \in 1 .. Len(kept)
    BY <1>1, <1>4, <2>3 DEF KeptWell
  <2>4. CASE i = Len(kept) + 1
    <3>1. j \in 1 .. Len(kept)
      BY <1>1, <1>4, <2>4
    <3> QED
      BY <1>1, <2>1, <2>2, <2>4, <3>1
  <2>5. CASE j = Len(kept) + 1
    <3>1. i \in 1 .. Len(kept)
      BY <1>1, <1>4, <2>5
    <3> QED
      BY <1>1, <2>1, <2>2, <2>5, <3>1
  <2> QED
    BY <1>1, <2>3, <2>4, <2>5
<1>5. KeptWell(all, n + 1, layers, objs)
  BY <1>1, <1>3, <1>4 DEF KeptWell
<1> QED
  BY <1>5 DEF all, s

\* Nothing that is asked for and sorted is lost, and nothing else is kept
\* (depends.go:52-85).
LEMMA HydrateWell ==
    ASSUME NEW V, NEW layers \in Seq(V), NEW objs
    PROVE  KeptWell(HydrateSetList(layers, objs), Len(layers), layers, objs)
<1> DEFINE f == Hydrated(layers, objs)
           B == {n \in Nat : n <= Len(layers) => KeptWell(f[n], n, layers, objs)}
<1>0. Len(layers) \in Nat
  OBVIOUS
<1> HIDE DEF f
<1>1. \A i \in 0 .. Len(layers) : f[i] = HydrateStep(f, i, layers, objs)
  BY <1>0, HydratedExists DEF f
<1>2. 0 \in B
  <2>1. f[0] = HydrateStep(f, 0, layers, objs)
    BY <1>0, <1>1
  <2>2. f[0] = <<>>
    BY <2>1 DEF HydrateStep
  <2>3. KeptWell(<<>>, 0, layers, objs)
    BY DEF KeptWell, Members
  <2> QED
    BY <2>2, <2>3
<1>3. ASSUME NEW n \in B PROVE n + 1 \in B
  <2>1. SUFFICES ASSUME n + 1 <= Len(layers) PROVE KeptWell(f[n + 1], n + 1, layers, objs)
    OBVIOUS
  <2>2. n \in Nat /\ KeptWell(f[n], n, layers, objs)
    BY <1>0, <2>1
  <2>3. f[n + 1] = IF layers[n + 1] \cap objs = {} THEN f[n]
                     ELSE Append(f[n], layers[n + 1] \cap objs)
    <3>1. n + 1 \in 0 .. Len(layers) /\ n + 1 # 0 /\ (n + 1) - 1 = n
      BY <1>0, <2>1, <2>2
    <3>2. f[n + 1] = HydrateStep(f, n + 1, layers, objs)
      BY <1>1, <3>1
    <3> QED
      BY <3>1, <3>2 DEF HydrateStep
  <2>4. CASE layers[n + 1] \cap objs = {}
    <3>1. \A i \in 1 .. n + 1 : i \in 1 .. n \/ i = n + 1
      BY <2>2
    <3>2. \A i \in 1 .. n : i \in 1 .. n + 1
      BY <2>2
    <3>3. (UNION {layers[i] : i \in 1 .. n + 1}) \cap objs = (UNION {layers[i] : i \in 1 .. n}) \cap objs
      BY <2>4, <3>1, <3>2
    <3> QED
      BY <2>2, <2>3, <2>4, <3>3 DEF KeptWell
  <2>5. CASE layers[n + 1] \cap objs # {}
    BY <1>0, <2>1, <2>2, <2>3, <2>5, KeptAppend
  <2> QED
    BY <2>4, <2>5
<1>4. B = Nat
  <2> HIDE DEF B
  <2>1. B \in SUBSET Nat
    BY DEF B
  <2> QED
    BY <1>2, <1>3, <2>1, SetInduction
<1>5. KeptWell(f[Len(layers)], Len(layers), layers, objs)
  BY <1>0, <1>4
<1> QED
  BY <1>5, HydrateSetListOf DEF f

----------------------------------------------------------------------------
(* The tasks of a queue, by their kind.                                    *)

\* The tasks of a run that applies objects of A and prunes objects of P.
RunTasks(A, P) ==
    {t \in Task :
        /\ t.action = "Apply" => t.ids \subseteq A
        /\ t.action = "Prune" => t.ids \subseteq P
        /\ t.action = "Wait" => t.ids \subseteq A \cup P
        /\ t.action = "Inventory" => t.ids = {}}

\* What is actuated is waited for later in the queue.
WaitFollows(q) ==
    \A i \in 1 .. Len(q) : q[i].action \in {"Apply", "Prune"} =>
        \E j \in i + 1 .. Len(q) : q[j].action = "Wait" /\ q[i].ids \subseteq q[j].ids

\* Two queues whose actuations are waited for, one after the other.
LEMMA ConcatWaits ==
    ASSUME NEW s \in Seq(Task), NEW t \in Seq(Task), WaitFollows(s), WaitFollows(t)
    PROVE  WaitFollows(s \o t)
<1>1. /\ Len(s) \in Nat /\ Len(t) \in Nat /\ Len(s \o t) = Len(s) + Len(t)
      /\ \A k \in 1 .. Len(s) : (s \o t)[k] = s[k]
      /\ \A k \in 1 .. Len(t) : (s \o t)[k + Len(s)] = t[k]
  OBVIOUS
<1> SUFFICES ASSUME NEW i \in 1 .. Len(s \o t), (s \o t)[i].action \in {"Apply", "Prune"}
             PROVE  \E j \in i + 1 .. Len(s \o t) :
                       (s \o t)[j].action = "Wait" /\ (s \o t)[i].ids \subseteq (s \o t)[j].ids
  BY DEF WaitFollows
<1>2. CASE i <= Len(s)
  <2>1. i \in 1 .. Len(s) /\ (s \o t)[i] = s[i]
    BY <1>1, <1>2
  <2>2. PICK j \in i + 1 .. Len(s) : s[j].action = "Wait" /\ s[i].ids \subseteq s[j].ids
    BY <2>1 DEF WaitFollows
  <2>3. j \in i + 1 .. Len(s \o t) /\ (s \o t)[j] = s[j]
    BY <1>1, <2>1, <2>2
  <2> QED
    BY <2>1, <2>2, <2>3
<1>3. CASE i > Len(s)
  <2> DEFINE k == i - Len(s)
  <2>1. k \in 1 .. Len(t) /\ k + Len(s) = i
    BY <1>1, <1>3
  <2>2. (s \o t)[i] = t[k]
    BY <1>1, <2>1
  <2>3. PICK j \in k + 1 .. Len(t) : t[j].action = "Wait" /\ t[k].ids \subseteq t[j].ids
    BY <2>1, <2>2 DEF WaitFollows
  <2>4. j \in 1 .. Len(t) /\ j + Len(s) \in i + 1 .. Len(s \o t)
    BY <1>1, <2>1, <2>3
  <2>5. (s \o t)[j + Len(s)] = t[j]
    BY <1>1, <2>4
  <2> QED
    BY <2>2, <2>3, <2>4, <2>5
<1> QED
  BY <1>1, <1>2, <1>3

\* The tasks for a list of sets of A, each actuation with its wait.
LEMMA ActuateAndWaitTasks ==
    ASSUME NEW p \in PlanType, NEW A \in SUBSET Objects, NEW P \in SUBSET Objects,
           NEW action \in {"Apply", "Prune"}, NEW cond \in {"AllCurrent", "AllNotFound"},
           NEW sets \in Seq(SUBSET IF action = "Apply" THEN A ELSE P)
    PROVE  /\ ActuateAndWait(action, cond, sets, p) \in Seq(RunTasks(A, P))
           /\ ~p.dryRun => WaitFollows(ActuateAndWait(action, cond, sets, p))
<1> DEFINE S == IF action = "Apply" THEN A ELSE P
           q == ActuateAndWait(action, cond, sets, p)
<1>0. S \in SUBSET Objects /\ sets \in Seq(SUBSET S) /\ S \subseteq A \cup P
  OBVIOUS
<1> HIDE DEF q
<1>1. q \in Seq(TaskOn(S))
  BY <1>0, ActuateAndWaitType DEF q
<1>2. Len(sets) \in Nat
  OBVIOUS
<1>3. CASE p.dryRun
  <2>1. q = [i \in 1 .. Len(sets) |-> ActuationTask(action, sets[i])]
    BY <1>3 DEF ActuateAndWait, q
  <2>2. Len(q) = Len(sets) /\ \A i \in 1 .. Len(q) : q[i].action = action /\ q[i] \in TaskOn(S)
    BY <1>1, <1>2, <2>1 DEF ActuationTask
  <2>3. \A i \in 1 .. Len(q) : q[i] \in RunTasks(A, P)
    BY <2>2 DEF RunTasks, TaskOn
  <2>4. q \in Seq(RunTasks(A, P))
    BY <1>2, <2>1, <2>2, <2>3
  <2> QED
    BY <1>3, <2>4 DEF q
<1>4. CASE ~p.dryRun
  <2>1. q = [i \in 1 .. 2 * Len(sets) |->
              IF i % 2 = 1
                THEN ActuationTask(action, sets[(i + 1) \div 2])
                ELSE WaitTaskFor(cond, sets[i \div 2], p.timeout)]
    BY <1>4 DEF ActuateAndWait, q
  <2>2. Len(q) = 2 * Len(sets) /\ 2 * Len(sets) \in Nat
    BY <1>2, <2>1
  <2>3. \A i \in 1 .. Len(q) :
          /\ i % 2 = 1 => q[i].ids = sets[(i + 1) \div 2] /\ q[i].action = action
          /\ i % 2 # 1 => q[i].ids = sets[i \div 2] /\ q[i].action = "Wait"
    BY <2>1, <2>2 DEF ActuationTask, WaitTaskFor
  <2>4. \A i \in 1 .. Len(q) : q[i] \in TaskOn(S)
    BY <1>1
  <2>5. \A i \in 1 .. Len(q) : q[i] \in RunTasks(A, P)
    BY <1>0, <2>3, <2>4 DEF RunTasks, TaskOn
  <2>6. q \in Seq(RunTasks(A, P))
    BY <2>1, <2>2, <2>5
  <2>7. ASSUME NEW i \in 1 .. Len(q), q[i].action \in {"Apply", "Prune"}
        PROVE  \E j \in i + 1 .. Len(q) : q[j].action = "Wait" /\ q[i].ids \subseteq q[j].ids
    <3>1. i % 2 = 1
      BY <2>3, <2>7
    <3>2. /\ i + 1 \in 1 .. Len(q) /\ i + 1 \in i + 1 .. Len(q) /\ (i + 1) % 2 # 1
      BY <1>2, <2>2, <3>1
    <3>3. q[i].ids = sets[(i + 1) \div 2] /\ q[i + 1].ids = sets[(i + 1) \div 2]
          /\ q[i + 1].action = "Wait"
      BY <2>3, <3>1, <3>2
    <3> QED
      BY <3>2, <3>3
  <2>8. WaitFollows(q)
    BY <2>7 DEF WaitFollows
  <2> QED
    BY <2>6, <2>8 DEF q
<1> QED
  BY <1>3, <1>4

\* The queue of a plan: tasks for its sets, each actuation with its wait, and
\* the inventory tasks at its ends (solver.go:160-213).
LEMMA BuildTasks ==
    ASSUME NEW p \in PlanType, NEW A \in SUBSET Objects, NEW P \in SUBSET Objects,
           p.applySets \in Seq(SUBSET A), p.prune => p.pruneSets \in Seq(SUBSET P)
    PROVE  /\ Build(p) \in Seq(RunTasks(A, P))
           /\ Build(p) # <<>> /\ Build(p)[Len(Build(p))] = InventoryTask
           /\ ~p.dryRun => WaitFollows(Build(p))
           /\ ~p.destroy => Len(Build(p)) > 1 /\ Build(p)[1] = InventoryTask
<1> DEFINE first == IF p.destroy THEN <<>> ELSE <<InventoryTask>>
           apply == ActuateAndWait("Apply", "AllCurrent", p.applySets, p)
           reversed == ReverseSetList(p.pruneSets)
           prune == IF p.prune THEN ActuateAndWait("Prune", "AllNotFound", reversed, p) ELSE <<>>
           last == <<InventoryTask>>
           T == RunTasks(A, P)
<1>1. p.prune => reversed \in Seq(SUBSET P)
  BY DEF ReverseSetList
<1>2. apply \in Seq(T) /\ (~p.dryRun => WaitFollows(apply))
  BY ActuateAndWaitTasks
<1>3. prune \in Seq(T) /\ (~p.dryRun => WaitFollows(prune))
  <2>1. CASE p.prune
    BY <1>1, <2>1, ActuateAndWaitTasks
  <2>2. CASE ~p.prune
    BY <2>2 DEF WaitFollows
  <2> QED
    BY <2>1, <2>2
<1>4. InventoryTask \in T /\ InventoryTask.action = "Inventory"
  BY DEF InventoryTask, RunTasks, Task
<1>5. /\ first \in Seq(T) /\ last \in Seq(T)
      /\ WaitFollows(first) /\ WaitFollows(last)
      /\ Len(last) = 1 /\ last[1] = InventoryTask
      /\ ~p.destroy => Len(first) = 1 /\ first[1] = InventoryTask
  <2>1. WaitFollows(<<InventoryTask>>) /\ WaitFollows(<<>>)
    <3>1. \A i \in 1 .. Len(<<InventoryTask>>) : <<InventoryTask>>[i] = InventoryTask
      OBVIOUS
    <3> QED
      BY <1>4, <3>1 DEF WaitFollows
  <2> QED
    BY <1>4, <2>1
<1>6. Build(p) = ((first \o apply) \o prune) \o last
  BY DEF Build
<1>7. T \subseteq Task
  BY DEF RunTasks
<1> HIDE DEF first, apply, reversed, prune, last, T
<1> DEFINE s == first \o apply
           t == s \o prune
<1>8. s \in Seq(T) /\ t \in Seq(T) /\ t \o last \in Seq(T)
  BY <1>2, <1>3, <1>5
<1>9. ~p.dryRun => WaitFollows(t \o last)
  <2>1. /\ first \in Seq(Task) /\ apply \in Seq(Task) /\ prune \in Seq(Task)
        /\ last \in Seq(Task) /\ s \in Seq(Task) /\ t \in Seq(Task)
    BY <1>2, <1>3, <1>5, <1>7, <1>8, WiderSeq
  <2>2. ~p.dryRun => WaitFollows(s)
    BY <1>2, <1>5, <2>1, ConcatWaits
  <2>3. ~p.dryRun => WaitFollows(t)
    BY <1>3, <2>1, <2>2, ConcatWaits
  <2> HIDE DEF s, t
  <2> QED
    BY <1>5, <2>1, <2>3, ConcatWaits
<1>10. /\ Len(t) \in Nat /\ Len(t \o last) = Len(t) + 1
       /\ (t \o last)[Len(t) + 1] = InventoryTask
  <2> HIDE DEF t
  <2>0. t \in Seq(T) /\ last \in Seq(T)
    BY <1>5, <1>8
  <2>1. Len(t) \in Nat /\ Len(t \o last) = Len(t) + Len(last)
    BY <2>0
  <2>2. (t \o last)[Len(t) + 1] = last[1]
    BY <1>5, <2>0, <2>1
  <2> QED
    BY <1>5, <2>1, <2>2
<1>11. ~p.destroy => Len(t \o last) > 1 /\ (t \o last)[1] = InventoryTask
  <2>1. /\ Len(s) = Len(first) + Len(apply) /\ Len(apply) \in Nat /\ Len(prune) \in Nat
        /\ Len(first) = 1 => s[1] = first[1]
    BY <1>2, <1>3, <1>5
  <2>2. Len(first) = 1 => Len(t) >= 1 /\ t[1] = s[1]
    <3> HIDE DEF s
    <3> QED
      BY <1>3, <1>8, <2>1
  <2>3. Len(t) >= 1 => (t \o last)[1] = t[1]
    <3> HIDE DEF t
    <3> QED
      BY <1>5, <1>8
  <2> QED
    BY <1>5, <1>10, <2>1, <2>2, <2>3
<1> QED
  <2>1. Build(p) = t \o last
    BY <1>6
  <2> HIDE DEF t
  <2> QED
    BY <2>1, <1>8, <1>9, <1>10, <1>11 DEF T

----------------------------------------------------------------------------
(* The plan of a sorted graph.                                             *)

\* p applies the sorted objects of A and prunes those of P, each in one set.
PlanWell(p, layers, A, P) ==
    /\ p \in PlanType
    /\ OneSetEach(p)
    /\ p.applySets \in Seq(SUBSET A) /\ Members(p.applySets) = Members(layers) \cap A
    /\ p.pruneSets \in Seq(SUBSET P) /\ Members(p.pruneSets) = Members(layers) \cap P

\* SortedPlan puts every sorted object it is given into one set, and nothing
\* else: what a run applies or prunes is neither lost nor handled twice
\* (depends.go:57-85, prune.go:242-244, solver.go:142-149).
THEOREM SortedPlanWell ==
    ASSUME NEW V \in SUBSET Objects, IsFiniteSet(V), NEW g, NEW invalid \in SUBSET Objects,
           NEW applyObjs \in SUBSET Objects, NEW pruneObjs \in SUBSET Objects,
           applyObjs \cap pruneObjs = {}
    PROVE  PlanWell(SortedPlan(SortLayers(V, g), applyObjs, pruneObjs, invalid),
                    SortLayers(V, g), applyObjs \ invalid, pruneObjs \ invalid)
<1> DEFINE p == SortedPlan(SortLayers(V, g), applyObjs, pruneObjs, invalid)
<1> DEFINE layers == SortLayers(V, g)
           A == applyObjs \ invalid
           P == pruneObjs \ invalid
<1>1. LayersWell(layers, V, g)
  BY SortLayersWell
<1> HIDE DEF layers
<1>2. /\ layers \in Seq(SUBSET V) /\ DOMAIN layers = 1 .. Len(layers)
      /\ \A i, j \in 1 .. Len(layers) : i # j => layers[i] \cap layers[j] = {}
  BY <1>1 DEF LayersWell
<1>3. Members(layers) = UNION {layers[i] : i \in 1 .. Len(layers)}
  BY <1>2 DEF Members
<1>4. KeptWell(HydrateSetList(layers, A), Len(layers), layers, A)
      /\ KeptWell(HydrateSetList(layers, P), Len(layers), layers, P)
  BY <1>2, HydrateWell
<1>5. /\ p.applySets = HydrateSetList(layers, A) /\ p.pruneSets = HydrateSetList(layers, P)
      /\ p = [applySets |-> p.applySets, pruneSets |-> p.pruneSets, invalid |-> invalid,
              destroy |-> FALSE, prune |-> TRUE, dryRun |-> FALSE, timeout |-> TRUE]
  BY DEF SortedPlan, layers
<1> HIDE DEF p
<1>6. /\ p.applySets \in Seq(SUBSET A) /\ p.pruneSets \in Seq(SUBSET P)
      /\ Members(p.applySets) = Members(layers) \cap A
      /\ Members(p.pruneSets) = Members(layers) \cap P
      /\ \A i, j \in 1 .. Len(p.applySets) : i # j => p.applySets[i] \cap p.applySets[j] = {}
      /\ \A i, j \in 1 .. Len(p.pruneSets) : i # j => p.pruneSets[i] \cap p.pruneSets[j] = {}
  BY <1>2, <1>3, <1>4, <1>5 DEF KeptWell
<1>7. p \in PlanType
  <2>1. p.applySets \in Seq(SUBSET Objects) /\ p.pruneSets \in Seq(SUBSET Objects)
    <3>1. SUBSET A \subseteq SUBSET Objects /\ SUBSET P \subseteq SUBSET Objects
      OBVIOUS
    <3> HIDE DEF A, P
    <3> QED
      BY <1>6, <3>1, WiderSeq
  <2>2. \A a, b \in Seq(SUBSET Objects) :
          [applySets |-> a, pruneSets |-> b, invalid |-> invalid,
           destroy |-> FALSE, prune |-> TRUE, dryRun |-> FALSE, timeout |-> TRUE] \in PlanType
    BY DEF PlanType
  <2> QED
    BY <1>5, <2>1, <2>2
<1>8. OneSetEach(p)
  <2>1. DOMAIN p.applySets = 1 .. Len(p.applySets) /\ DOMAIN p.pruneSets = 1 .. Len(p.pruneSets)
    BY <1>6
  <2>2. A \cap P = {}
    OBVIOUS
  <2> HIDE DEF A, P
  <2> QED
    BY <1>6, <2>1, <2>2 DEF OneSetEach
<1> QED
  BY <1>6, <1>7, <1>8 DEF layers, p, PlanWell

----------------------------------------------------------------------------
(* What a task can wait for.                                               *)

\* An inventory task has no objects to come to, and the waits of a plan with
\* timeouts have one.
TimedTasks(timeout) ==
    {t \in Task :
        /\ t.action = "Inventory" => t.ids = {}
        /\ t.action = "Wait" => t.timeout = timeout}

\* ActuateAndWait passes the timeout of the plan on to each wait.
LEMMA ActuateAndWaitTimed ==
    ASSUME NEW p \in PlanType, NEW sets \in Seq(SUBSET Objects),
           NEW action \in {"Apply", "Prune"},
           NEW cond \in {"AllCurrent", "AllNotFound"}
    PROVE  ActuateAndWait(action, cond, sets, p) \in Seq(TimedTasks(p.timeout))
<1> DEFINE q == ActuateAndWait(action, cond, sets, p)
<1>1. q \in Seq(TaskOn(Objects))
  BY ActuateAndWaitType
<1>2. \A i \in 1 .. Len(q) : /\ q[i].action # "Inventory"
                             /\ q[i].action = "Wait" => q[i].timeout = p.timeout
  <2>1. Len(sets) \in Nat
    OBVIOUS
  <2>2. CASE p.dryRun
    BY <2>1, <2>2 DEF ActuateAndWait, ActuationTask
  <2>3. CASE ~p.dryRun
    <3>1. q = [i \in 1 .. 2 * Len(sets) |->
                IF i % 2 = 1
                  THEN ActuationTask(action, sets[(i + 1) \div 2])
                  ELSE WaitTaskFor(cond, sets[i \div 2], p.timeout)]
      BY <2>3 DEF ActuateAndWait
    <3> HIDE DEF q
    <3>2. Len(q) = 2 * Len(sets)
      BY <2>1, <3>1
    <3> QED
      BY <3>1, <3>2 DEF ActuationTask, WaitTaskFor
  <2> QED
    BY <2>2, <2>3
<1> HIDE DEF q
<1>3. \A i \in 1 .. Len(q) : q[i] \in TimedTasks(p.timeout)
  BY <1>1, <1>2 DEF TaskOn, TimedTasks
<1>4. q \in Seq(TimedTasks(p.timeout))
  BY <1>1, <1>3
<1> QED
  BY <1>4 DEF q

\* So does Build.
LEMMA BuildTimed ==
    ASSUME NEW p \in PlanType
    PROVE  Build(p) \in Seq(TimedTasks(p.timeout))
<1> DEFINE T == TimedTasks(p.timeout)
           apply == ActuateAndWait("Apply", "AllCurrent", p.applySets, p)
           prune == ActuateAndWait("Prune", "AllNotFound", ReverseSetList(p.pruneSets), p)
<1>1. p.applySets \in Seq(SUBSET Objects) /\ p.pruneSets \in Seq(SUBSET Objects)
  BY DEF PlanType
<1>2. ReverseSetList(p.pruneSets) \in Seq(SUBSET Objects)
  BY <1>1 DEF ReverseSetList
<1>3. apply \in Seq(T) /\ prune \in Seq(T)
  BY <1>1, <1>2, ActuateAndWaitTimed
<1>4. <<InventoryTask>> \in Seq(T) /\ <<>> \in Seq(T)
  BY DEF InventoryTask, Task, TimedTasks
<1> HIDE DEF T, apply, prune
<1>5. Build(p) = (IF p.destroy THEN <<>> ELSE <<InventoryTask>>)
                   \o apply \o (IF p.prune THEN prune ELSE <<>>) \o <<InventoryTask>>
  BY DEF Build, apply, prune
<1>6. Build(p) \in Seq(T)
  BY <1>3, <1>4, <1>5
<1> QED
  BY <1>6 DEF T
=============================================================================
