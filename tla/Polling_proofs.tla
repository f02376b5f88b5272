--------------------------- MODULE Polling_proofs ---------------------------
(***************************************************************************)
(* Proofs about the status rules, for every object, and about the status   *)
(* command, for every command and any cluster.                             *)
(***************************************************************************)
EXTENDS Polling, FiniteSetTheorems, NaturalsInduction, SequenceTheorems, WellFoundedInduction, TLAPS

(* Compute and Augment.                                                    *)

\* The rule of checkGenericProperties for a condition.
GenericRule(c) ==
    IF c.status # "True" THEN "none"
    ELSE IF c.type = "Reconciling" THEN "InProgress"
    ELSE IF c.type = "Stalled" THEN "Failed" ELSE "none"

GenericHits(u) == {i \in DOMAIN u.conds : GenericRule(u.conds[i]) # "none"}

\* A set of numbers that is not empty has a least one.
LEMMA LeastOne ==
    ASSUME NEW S \in SUBSET Nat, S # {}
    PROVE  \E i \in S : \A j \in S : i <= j
<1>1. PICK m \in S : \A k \in S : <<k, m>> \notin OpToRel(<, Nat)
  BY WFMin, NatLessThanWellFounded
<1>2. \A k \in S : ~(k < m)
  BY <1>1 DEF OpToRel
<1> QED
  BY <1>2

\* The generic rules, without the operator parameter of FirstCond.
LEMMA GenericUnfolds ==
    ASSUME NEW u, NEW n \in Nat, DOMAIN u.conds = 1 .. n, ~u.del, ~GenerationPending(u)
    PROVE  /\ GenericHits(u) = {} => checkGenericProperties(u) = "none"
           /\ GenericHits(u) # {} =>
                 \E i \in GenericHits(u) : /\ \A j \in GenericHits(u) : i <= j
                                           /\ checkGenericProperties(u) = GenericRule(u.conds[i])
<1> DEFINE hits == GenericHits(u)
           least == CHOOSE i \in hits : \A j \in hits : i <= j
<1>1. checkGenericProperties(u) =
         IF hits = {} THEN "none" ELSE GenericRule(u.conds[least])
  BY DEF checkGenericProperties, checkGeneration, FirstCond, GenericHits, GenericRule
<1>2. hits \in SUBSET Nat
  BY DEF GenericHits
<1>3. hits # {} => least \in hits /\ \A j \in hits : least <= j
  <2> HIDE DEF hits
  <2> QED
    BY <1>2, LeastOne
<1> QED
  BY <1>1, <1>3

\* The sequence of a set of one, and of none.
LEMMA SetToSeqSmall ==
    /\ SetToSeq({}) = << >>
    /\ \A x : SetToSeq({x}) = << x >>
<1>1. SetToSeq({}) = << >>
  <2>1. Cardinality({}) = 0
    BY FS_EmptySet
  <2>2. [x \in 1 .. 0 |-> x] \in [1 .. 0 -> {}] /\ IsInjective([x \in 1 .. 0 |-> x])
    BY DEF IsInjective
  <2>3. SetToSeq({}) \in [1 .. 0 -> {}]
    BY <2>1, <2>2 DEF SetToSeq
  <2>4. SetToSeq({}) \in Seq({}) /\ Len(SetToSeq({})) = 0
    BY <2>3
  <2> QED
    BY <2>4
<1>2. ASSUME NEW x PROVE SetToSeq({x}) = << x >>
  <2>1. Cardinality({x}) = 1
    BY FS_Singleton
  <2>2. << x >> \in [1 .. 1 -> {x}] /\ IsInjective(<< x >>)
    BY DEF IsInjective
  <2>3. \A f \in [1 .. 1 -> {x}] : f = << x >>
    OBVIOUS
  <2> QED
    BY <2>1, <2>2, <2>3 DEF SetToSeq
<1> QED
  BY <1>1, <1>2

\* A sequence with one more element.
LEMMA OneMore ==
    ASSUME NEW C, NEW s \in Seq(C), NEW x \in C
    PROVE  /\ DOMAIN (s \o << x >>) = 1 .. Len(s) + 1
           /\ \A i \in 1 .. Len(s) : (s \o << x >>)[i] = s[i]
           /\ (s \o << x >>)[Len(s) + 1] = x
<1>1. << x >> \in Seq(C) /\ Len(<< x >>) = 1 /\ << x >>[1] = x
  OBVIOUS
<1>2. s \o << x >> \in Seq(C) /\ Len(s \o << x >>) = Len(s) + 1
  BY <1>1, ConcatProperties
<1>3. Len(s) \in Nat
  OBVIOUS
<1> QED
  BY <1>1, <1>2, <1>3, ConcatProperties

\* The object a is u with n conditions and the condition set: where its type is,
\* it is set, and where it is not, it is added at the end.
IsSetIn(a, u, n, set) ==
    /\ a = [u EXCEPT !.conds = a.conds]
    /\ n \in Nat /\ DOMAIN u.conds = 1 .. n
    /\ \E m \in Nat : n <= m /\ DOMAIN a.conds = 1 .. m
    /\ \A i \in 1 .. n : a.conds[i] = IF u.conds[i].type = set.type THEN set ELSE u.conds[i]
    /\ \A i \in DOMAIN a.conds : i > n => a.conds[i] = set
    /\ \E i \in DOMAIN a.conds : a.conds[i] = set

\* Augment with one standard condition t.
LEMMA AugmentConds ==
    ASSUME NEW u, IsObject(u), NEW t, Standard(Compute(u)) = {t}
    PROVE  IsSetIn(Augment(u), u, Len(u.conds), Cond(t, "True", "kstatus"))
<1>0. SUFFICES ASSUME NEW a, a = Augment(u), NEW n, n = Len(u.conds),
                      NEW set, set = Cond(t, "True", "kstatus")
               PROVE  IsSetIn(a, u, n, set)
  OBVIOUS
<1> USE DEF IsSetIn
<1>t. set.type = t
  BY <1>0 DEF Cond
<1> DEFINE present == {c.type : c \in Range(u.conds)}
           updated == [i \in DOMAIN u.conds |-> IF u.conds[i].type \in {t}
                          THEN Cond(u.conds[i].type, "True", "kstatus") ELSE u.conds[i]]
           extra == SetToSeq({Cond(x, "True", "kstatus") : x \in {t} \ present})
<1>1. a = [u EXCEPT !.conds = updated \o extra]
  BY <1>0 DEF Augment
<1>2. u = [kind |-> u.kind, del |-> u.del, gen |-> u.gen, obs |-> u.obs, conds |-> u.conds, f |-> u.f]
      /\ u.conds \in Seq(Range(u.conds))
  BY DEF IsObject
<1>3. n \in Nat /\ DOMAIN u.conds = 1 .. n
  BY <1>0, <1>2
<1>4. updated = [i \in 1 .. n |-> IF u.conds[i].type = t THEN set ELSE u.conds[i]]
  BY <1>0, <1>3
<1>5. updated \in Seq(Range(u.conds) \cup {set}) /\ Len(updated) = n
  <2>1. \A i \in 1 .. n : updated[i] \in Range(u.conds) \cup {set}
    BY <1>2, <1>3, <1>4 DEF Range
  <2> HIDE DEF updated
  <2> QED
    BY <1>3, <1>4, <2>1
<1>6. a.conds = updated \o extra
  <2> HIDE DEF updated, extra
  <2> QED
    BY <1>1, <1>2
<1>7. a = [u EXCEPT !.conds = a.conds]
  BY <1>1, <1>6
<1>8. CASE t \in present
  <2>1. extra = << >>
    <3>1. {Cond(x, "True", "kstatus") : x \in {t} \ present} = {}
      BY <1>8
    <3> QED
      BY <3>1, SetToSeqSmall
  <2>2. PICK i \in 1 .. n : u.conds[i].type = t
    BY <1>3, <1>8 DEF Range
  <2> HIDE DEF updated, extra
  <2>3. a.conds = updated
    BY <1>5, <1>6, <2>1
  <2>4. DOMAIN a.conds = 1 .. n
    BY <1>4, <2>3
  <2>5. a.conds[i] = set
    BY <1>4, <2>2, <2>3
  <2> QED
    BY <1>t, <1>3, <1>4, <1>7, <2>2, <2>3, <2>4, <2>5
<1>9. CASE t \notin present
  <2>1. extra = << set >>
    <3>1. {Cond(x, "True", "kstatus") : x \in {t} \ present} = {set}
      BY <1>0, <1>9
    <3> QED
      BY <3>1, SetToSeqSmall
  <2> HIDE DEF updated, extra
  <2>2. a.conds = updated \o << set >>
    BY <1>6, <2>1
  <2>3. /\ DOMAIN a.conds = 1 .. n + 1
        /\ \A i \in 1 .. n : a.conds[i] = updated[i]
        /\ a.conds[n + 1] = set
    BY <1>5, <2>2, OneMore
  <2>4. n + 1 \in Nat /\ n <= n + 1 /\ n + 1 \in 1 .. n + 1
    BY <1>3
  <2>5. \A i \in 1 .. n + 1 : i > n => i = n + 1
    BY <1>3
  <2> QED
    BY <1>t, <1>3, <1>4, <1>7, <2>3, <2>4, <2>5
<1> QED
  BY <1>8, <1>9

\* What Augment writes is what Compute would say of it, for every object.
LEMMA ComputeOfAugment ==
    ASSUME NEW u, IsObject(u)
    PROVE  /\ \A type \in Standard(Compute(u)) : HasCond(Augment(u), type, "True")
           /\ Compute(Augment(u)) = Compute(u)
<1>1. u = [kind |-> u.kind, del |-> u.del, gen |-> u.gen, obs |-> u.obs, conds |-> u.conds, f |-> u.f]
      /\ u.conds \in Seq(Range(u.conds))
  BY DEF IsObject
<1>2. CASE Standard(Compute(u)) = {}
  <2> DEFINE present == {c.type : c \in Range(u.conds)}
             updated == [i \in DOMAIN u.conds |-> IF u.conds[i].type \in {}
                            THEN Cond(u.conds[i].type, "True", "kstatus") ELSE u.conds[i]]
             extra == SetToSeq({Cond(x, "True", "kstatus") : x \in {} \ present})
  <2>1. Augment(u) = [u EXCEPT !.conds = updated \o extra]
    BY <1>2 DEF Augment
  <2>2. updated = u.conds
    BY <1>1
  <2>3. extra = << >>
    <3>1. {Cond(x, "True", "kstatus") : x \in {} \ present} = {}
      OBVIOUS
    <3> QED
      BY <3>1, SetToSeqSmall
  <2>4. updated \o extra = u.conds
    <3> HIDE DEF updated, extra
    <3> QED
      BY <1>1, <2>2, <2>3
  <2>5. Augment(u) = u
    <3>1. Augment(u) = [u EXCEPT !.conds = u.conds]
      BY <2>1, <2>4
    <3> QED
      BY <1>1, <3>1
  <2> QED
    BY <1>2, <2>5
<1>3. ASSUME NEW t, Standard(Compute(u)) = {t},
             \/ t = "Reconciling" /\ Compute(u) = "InProgress"
             \/ t = "Stalled" /\ Compute(u) = "Failed"
      PROVE  /\ \A type \in Standard(Compute(u)) : HasCond(Augment(u), type, "True")
             /\ Compute(Augment(u)) = Compute(u)
  <2> DEFINE a == Augment(u)
             n == Len(u.conds)
             set == Cond(t, "True", "kstatus")
  <2>0. IsSetIn(a, u, n, set)
    BY <1>3, AugmentConds
  <2>t. set.type = t
    BY DEF Cond
  <2>1. /\ a = [u EXCEPT !.conds = a.conds]
        /\ n \in Nat /\ DOMAIN u.conds = 1 .. n
        /\ \E m \in Nat : n <= m /\ DOMAIN a.conds = 1 .. m
        /\ \A i \in 1 .. n : a.conds[i] = IF u.conds[i].type = t THEN set ELSE u.conds[i]
        /\ \A i \in DOMAIN a.conds : i > n => a.conds[i] = set
        /\ \E i \in DOMAIN a.conds : a.conds[i] = set
    <3> HIDE DEF a, n, set
    <3> QED
      BY <2>0, <2>t DEF IsSetIn
  <2> HIDE DEF a, n
  <2>2. a.del = u.del /\ a.gen = u.gen /\ a.obs = u.obs
    BY <1>1, <2>1
  <2>3. set.type = t /\ set.status = "True" /\ GenericRule(set) = Compute(u) /\ Compute(u) # "none"
    BY <1>3 DEF Cond, GenericRule
  <2>4. HasCond(a, t, "True")
    BY <2>1, <2>3 DEF HasCond, Range
  <2>5. ~u.del
    BY <1>3 DEF Compute, checkGenericProperties
  <2>6. CASE GenerationPending(u)
    <3>1. checkGenericProperties(u) = "InProgress" /\ checkGenericProperties(a) = "InProgress"
      BY <2>2, <2>5, <2>6 DEF checkGenericProperties, checkGeneration, GenerationPending
    <3> QED
      BY <1>3, <2>4, <3>1 DEF Compute, a
  <2>7. CASE ~GenerationPending(u)
    <3>1. ~a.del /\ ~GenerationPending(a)
      BY <2>2, <2>5, <2>7 DEF GenerationPending
    <3>2. PICK m \in Nat : n <= m /\ DOMAIN a.conds = 1 .. m
      BY <2>1
    <3>3. GenericHits(a) # {}
      BY <2>1, <2>3 DEF GenericHits
    <3>4. PICK i \in GenericHits(a) : /\ \A j \in GenericHits(a) : i <= j
                                      /\ checkGenericProperties(a) = GenericRule(a.conds[i])
      BY <3>1, <3>2, <3>3, GenericUnfolds
    <3>5. CASE a.conds[i] = set
      <4>1. checkGenericProperties(a) = Compute(u)
        BY <2>3, <3>4, <3>5
      <4> QED
        BY <1>3, <2>3, <2>4, <4>1 DEF Compute, a
    <3>6. CASE a.conds[i] # set
      <4>1. i \in 1 .. n /\ a.conds[i] = u.conds[i] /\ u.conds[i].type # t
        BY <2>1, <3>2, <3>6 DEF GenericHits
      <4>2. i \in GenericHits(u)
        BY <2>1, <3>4, <4>1 DEF GenericHits
      <4>3. PICK j \in GenericHits(u) : /\ \A k \in GenericHits(u) : j <= k
                                        /\ checkGenericProperties(u) = GenericRule(u.conds[j])
        BY <2>1, <2>5, <2>7, <4>2, GenericUnfolds
      <4>4. GenericRule(u.conds[j]) # "none" /\ j \in 1 .. n
        BY <2>1 DEF GenericHits
      <4>5. Compute(u) = GenericRule(u.conds[j])
        BY <4>3, <4>4 DEF Compute
      <4>6. u.conds[j].type = t
        BY <1>3, <4>5 DEF GenericRule
      <4>7. a.conds[j] = set /\ j \in DOMAIN a.conds
        BY <2>1, <3>2, <4>4, <4>6
      <4>8. j \in GenericHits(a)
        BY <2>3, <4>7 DEF GenericHits
      <4>9. i <= j /\ j <= i
        BY <3>4, <4>2, <4>3, <4>8
      <4> QED
        BY <3>2, <4>1, <4>4, <4>6, <4>9
    <3> QED
      BY <3>5, <3>6
  <2> QED
    BY <2>6, <2>7
<1>4. \/ Standard(Compute(u)) = {}
      \/ \E t : /\ Standard(Compute(u)) = {t}
               /\ \/ t = "Reconciling" /\ Compute(u) = "InProgress"
                  \/ t = "Stalled" /\ Compute(u) = "Failed"
  BY DEF Standard
<1> QED
  BY <1>2, <1>3, <1>4

----------------------------------------------------------------------------
(* The objects of the cluster.                                             *)

\* The other object is one of the samples, and the conditions that the
\* controller writes are conditions.
WorldInv ==
    /\ \E c \in Commands : cmd \in Loaded(c)
    /\ other.obj = Absent \/ IsObject(other.obj)
    /\ written.conds \in Seq(Range(written.conds))

\* What a controller writes.
LEMMA StatusConds == StatusNow.conds \in Seq(Range(StatusNow.conds))
<1>1. ASSUME NEW x, NEW y PROVE << x, y >> \in Seq(Range(<< x, y >>))
  BY DEF Range
<1>2. << >> \in Seq(Range(<< >>))
  OBVIOUS
<1>3. \E x, y : StatusNow.conds = IF kind = "Deployment" THEN << x, y >> ELSE << >>
  BY DEF StatusNow
<1> QED
  BY <1>1, <1>2, <1>3

\* What the cluster reports for the workload is an object.
LEMMA WorkloadIsObject ==
    ASSUME WorldInv
    PROVE  IsObject(WorkloadObject)
BY DEF WorldInv, WorkloadObject, IsObject

\* The cluster starts with types that fit.
LEMMA WorldInvInit == Init => WorldInv
<1> SUFFICES ASSUME Init PROVE WorldInv
  OBVIOUS
<1>1. written.conds = << >>
  BY DEF Init, RolloutInit, NoStatus
<1>2. << >> \in Seq(Range(<< >>))
  OBVIOUS
<1>3. PICK c \in Commands : cmd \in Loaded(c)
  BY DEF Init
<1>4. other.obj \in Samples[cmd.other] \cup {Absent}
  BY DEF Init
<1>5. other.obj = Absent \/ IsObject(other.obj)
  BY <1>3, <1>4, PollAssumption
<1> QED
  BY <1>1, <1>2, <1>3, <1>5 DEF WorldInv

\* Only the cluster changes the objects, and the command stays what it is.
LEMMA WorldInvStep ==
    ASSUME WorldInv, [Next]_vars
    PROVE  WorldInv'
<1>1. cmd' = cmd
  BY DEF Next, Poller, Validate, SyncLists, PollReads, PollEnds, Waits, Collector, Update,
         SendsError, Reports, Observes, Returns, DeadlineOrInterrupt, World, OtherChanges, vars
<1>2. CASE UNCHANGED worldVars
  <2>1. other' = other /\ written' = written
    BY <1>2 DEF worldVars, rolloutVars
  <2> QED
    BY <1>1, <2>1 DEF WorldInv
<1>3. CASE RolloutNext /\ UNCHANGED other
  <2>1. written' = written \/ written' = StatusNow
    BY <1>3 DEF RolloutNext, UserUpdates, ControllerObserves, ControllerWrites, ControllerCreates,
                ControllerDeletes, PodStarts, PodCrashes, PodChanges
  <2>2. written'.conds \in Seq(Range(written'.conds))
    BY <2>1, StatusConds DEF WorldInv
  <2> QED
    BY <1>1, <1>3, <2>2 DEF WorldInv
<1>4. CASE OtherChanges
  <2>1. written' = written
    BY <1>4 DEF OtherChanges, rolloutVars
  <2>2. other'.obj \in Samples[cmd.other] \cup {Absent}
    BY <1>4 DEF OtherChanges
  <2>3. other'.obj = Absent \/ IsObject(other'.obj)
    BY <2>2, PollAssumption DEF WorldInv
  <2> QED
    BY <1>1, <2>1, <2>3 DEF WorldInv
<1> QED
  BY <1>2, <1>3, <1>4
     DEF Next, Poller, Validate, SyncLists, PollReads, PollEnds, Waits, Collector, Update,
         SendsError, Reports, Observes, Returns, DeadlineOrInterrupt, World, vars

\* The types of the cluster are an invariant.
LEMMA WorldInvariant == Spec => []WorldInv
<1>1. Init => WorldInv
  BY WorldInvInit
<1>2. WorldInv /\ [Next]_vars => WorldInv'
  BY WorldInvStep
<1> QED
  BY <1>1, <1>2, PTL DEF Spec

\* Of every object of the cluster, in every state: the standard conditions that
\* Augment writes are those of its status, and Compute comes to the same result
\* with them (status.go:101-149, 186-241).
THEOREM AugmentAgreesHolds == Spec => []AugmentAgrees
<1>1. WorldInv => AugmentAgrees
  BY ComputeOfAugment, WorkloadIsObject DEF AugmentAgrees, WorldInv
<1> QED
  BY <1>1, WorldInvariant, PTL

----------------------------------------------------------------------------
(* What a status reader returns.                                           *)

\* A rule comes to one of the statuses or to an error.
LEMMA ComputeValues ==
    ASSUME NEW u
    PROVE  Compute(u) \in Statuses \cup {"error", "none"}
<1>1. checkGenericProperties(u) \in Statuses \cup {"none"}
  BY DEF checkGenericProperties, FirstCond, Statuses
<1>2. stsConditions(u) \in Statuses
  BY DEF stsConditions, CurrentUnless, Statuses
<1>3. deploymentConditions(u) \in Statuses
  BY DEF deploymentConditions, CurrentUnless, Statuses
<1>4. replicasetConditions(u) \in Statuses /\ daemonsetConditions(u) \in Statuses
  BY DEF replicasetConditions, daemonsetConditions, CurrentUnless, Statuses
<1>5. pvcConditions(u) \in Statuses /\ serviceConditions(u) \in Statuses
  BY DEF pvcConditions, serviceConditions, CurrentUnless, Statuses
<1>6. podConditions(u) \in Statuses \cup {"error", "none"}
  BY DEF podConditions, FirstCond, Statuses
<1>7. jobConditions(u) \in Statuses \cup {"none"}
  BY DEF jobConditions, FirstCond, CurrentUnless, Statuses
<1>8. CRDConditions(u) \in Statuses \cup {"none"}
  BY DEF CRDConditions, FirstCond, Statuses
<1>9. checkReadyCondition(u) \in Statuses \cup {"none"}
  BY DEF checkReadyCondition, FirstCond, Statuses
<1>10. "Current" \in Statuses
  BY DEF Statuses
<1>11. Legacy(u) \in Statuses \cup {"error", "none"}
  BY <1>2, <1>3, <1>4, <1>5, <1>6, <1>7, <1>8, <1>9, <1>10 DEF Legacy
<1> QED
  BY <1>1, <1>11 DEF Compute

\* Only the errors of a rate limiter and of a context end a pass, and what a
\* reader returns is never the mark of what was not sent yet.
LEMMA ReadStatusValues ==
    ASSUME NEW id, NEW c, NEW m, NEW g
    PROVE  /\ ReadStatus(id, c, m, g).st = "stop" => ReadStatus(id, c, m, g).err \in {"rate", "deadline"}
           /\ ReadStatus(id, c, m, g) # Unsent
<1> DEFINE Fine(s) == (s.st = "stop" => s.err \in {"rate", "deadline"}) /\ s.st # "unsent"
<1>1. \A e, gen : Fine(Failed(e, gen))
  BY DEF Failed
<1>2. \A e, u : Fine(FailedObject(e, u))
  BY <1>1 DEF FailedObject
<1>3. ASSUME NEW u, NEW st \in Statuses \cup {"error", "none"} PROVE Fine(Status(u, st))
  BY DEF Status, Statuses
<1>4. \A u : Fine(GenericStatus(u))
  BY <1>2, <1>3, ComputeValues DEF GenericStatus
<1>5. \A u : Fine(PodController(u, c, g))
  <2> SUFFICES ASSUME NEW u PROVE Fine(PodController(u, c, g))
    OBVIOUS
  <2>1. "Failed" \in Statuses
    BY DEF Statuses
  <2>2. \/ \E e : PodController(u, c, g) = FailedObject(e, u)
        \/ PodController(u, c, g) = Status(u, "Failed")
        \/ PodController(u, c, g) = Status(u, Compute(u))
    BY DEF PodController
  <2> HIDE DEF Fine
  <2> QED
    BY <1>2, <1>3, <2>1, <2>2, ComputeValues
<1>6. \A u : Fine(DeploymentStatus(u, c, g))
  BY <1>2, <1>4 DEF DeploymentStatus
<1>7. Fine(StatusForObject(id, c, g))
  <2> HIDE DEF Fine
  <2> QED
    BY <1>4, <1>5, <1>6 DEF StatusForObject, ReplicaSetStatus, StatefulSetStatus
<1>8. Fine([Unpolled EXCEPT !.st = "NotFound"])
  BY DEF Unpolled
<1>9. Fine(ReadStatus(id, c, m, g))
  <2> HIDE DEF Fine
  <2> QED
    BY <1>1, <1>7, <1>8 DEF ReadStatus
<1>10. Unsent.st = "unsent"
  BY DEF Unsent, Unpolled
<1> QED
  BY <1>9, <1>10

----------------------------------------------------------------------------
(* Errors and the end of the command.                                      *)

\* The poller has an error from when it fails, the collector the one that was
\* sent, and the poller stops without one only when the context is done or it
\* dropped the error.
ErrInv ==
    /\ pc \in {"validate", "sync", "poll", "send", "wait"} => err = "none"
    /\ pc = "fail" => err \in Errors
    /\ collPc = "report" => collErr = err /\ err \in Errors /\ pc = "closed"
    /\ pc = "closed" /\ result = "running" =>
          \/ err = "none" /\ ctxDone
          \/ err = "dropped"
          \/ err \in Errors /\ collPc = "report"
    /\ result = "nil" => /\ pc = "closed"
                         /\ \/ err = "none" /\ (ctxDone \/ cmd.ids = << >>)
                            \/ err = "dropped"

\* The poller starts without an error.
LEMMA ErrInvInit == Init => ErrInv
BY DEF Init, ErrInv, Errors

\* The error of the poller is sent before its channel is closed.
LEMMA ErrInvStep ==
    ASSUME ErrInv, [Next]_vars
    PROVE  ErrInv'
<1> USE DEF ErrInv
<1>1. CASE Validate
  BY <1>1 DEF Validate, Goto, Fails, Errors, collVars
<1>2. CASE SyncLists
  <2>1. /\ pc = "sync" /\ UNCHANGED <<cmd, collVars, ctxDone>>
        /\ \/ pc' \in {"sync", "poll"} /\ err' = err
           \/ pc' = "fail" /\ err' = "mapping"
           \/ pc' = "closed" /\ err' = "dropped"
           \/ ctxDone /\ pc' = "closed" /\ err' = err
    BY <1>2 DEF SyncLists, Mapping, HandleSyncAndPollErr, Goto, Fails
  <2> QED
    BY <2>1 DEF Errors, collVars
<1>3. CASE PollReads
  <2>1. /\ pc = "poll" /\ UNCHANGED <<cmd, collVars, ctxDone>>
        /\ \/ pc' \in {"send", "poll"} /\ err' = err
           \/ \E id, m, g : /\ ReadStatus(id, cache, m, g).st = "stop"
                            /\ HandleSyncAndPollErr(ReadStatus(id, cache, m, g).err)
    BY <1>3 DEF PollReads, Goto
  <2>2. \/ pc' \in {"send", "poll"} /\ err' = err
        \/ pc' = "fail" /\ err' = "rate"
        \/ pc' = "closed" /\ err' = "dropped"
    BY <2>1, ReadStatusValues DEF HandleSyncAndPollErr, Fails, Goto
  <2> QED
    BY <2>1, <2>2 DEF Errors, collVars
<1>4. CASE PollEnds
  BY <1>4 DEF PollEnds, Goto, collVars
<1>5. CASE Waits
  BY <1>5 DEF Waits, Goto, collVars
<1>6. CASE Update
  BY <1>6 DEF Update, Goto
<1>7. CASE SendsError
  BY <1>7 DEF SendsError, Goto
<1>8. CASE Reports
  BY <1>8 DEF Reports, pollVars, Errors
<1>9. CASE Observes
  BY <1>9 DEF Observes, pollVars
<1>10. CASE Returns
  BY <1>10 DEF Returns, pollVars
<1>11. CASE DeadlineOrInterrupt
  BY <1>11 DEF DeadlineOrInterrupt, pollVars, collVars
<1>12. CASE World \/ UNCHANGED vars
  BY <1>12 DEF World, OtherChanges, vars, pollVars, collVars
<1> QED
  BY <1>1, <1>2, <1>3, <1>4, <1>5, <1>6, <1>7, <1>8, <1>9, <1>10, <1>11, <1>12
     DEF Next, Poller, Collector

\* A command that returns no error was ended by someone, had nothing to poll, or
\* its poller dropped an error that is of a context by type; any other error
\* that stopped its poller is what it returns (engine.go:185-213,
\* event/printer.go:42-64, table/printer.go:41-73).
THEOREM ErrorIsReturnedHolds == Spec => []ErrorIsReturned
<1>1. Init => ErrInv
  BY ErrInvInit
<1>2. ErrInv /\ [Next]_vars => ErrInv'
  BY ErrInvStep
<1>3. ErrInv => ErrorIsReturned
  BY DEF ErrInv, ErrorIsReturned
<1> QED
  BY <1>1, <1>2, <1>3, PTL DEF Spec

----------------------------------------------------------------------------
(* What the collector knows.                                               *)

Answers == {"none", "nomatch", "mapping", "deadline"}

\* The collector has what a reader makes of the cache.
Follows(id) == \E m, g \in Answers : coll[id] = ReadStatus(id, cache, m, g)

\* What the poller remembers of an object is what the collector has, but for an
\* object of which nothing was sent and for the one that is being sent; and in
\* a pass the collector follows up to the position of the poller.
FollowInv ==
    /\ cmd.ids \in Seq(Ids) /\ pos \in Nat \ {0}
    /\ DOMAIN coll = Ids /\ DOMAIN prev = Ids
    /\ \A id \in Ids : \/ prev[id] = coll[id]
                       \/ prev[id] = Unsent
                       \/ pc = "send" /\ id = cmd.ids[pos] /\ prev[id] = sending
    /\ pc \in {"poll", "send"} =>
          \A i \in 1 .. Len(cmd.ids) : i < pos => Follows(cmd.ids[i])
    /\ pc = "send" => /\ pos <= Len(cmd.ids)
                      /\ prev[cmd.ids[pos]] = sending
                      /\ \E m, g \in Answers : sending = ReadStatus(cmd.ids[pos], cache, m, g)
    /\ pc = "wait" => \A i \in 1 .. Len(cmd.ids) : Follows(cmd.ids[i])

\* Nothing was read when the command starts.
LEMMA FollowInvInit == Init => FollowInv
<1> SUFFICES ASSUME Init PROVE FollowInv
  OBVIOUS
<1>1. cmd.ids \in Seq(Ids)
  BY PollAssumption DEF Init
<1>2. prev = [id \in Ids |-> Unsent] /\ coll = [id \in Ids |-> Unpolled] /\ pos = 1
      /\ pc \in {"validate", "closed"}
  BY DEF Init
<1> QED
  BY <1>1, <1>2 DEF FollowInv

\* A step that leaves the statuses alone and ends no pass.
LEMMA FollowKept ==
    ASSUME FollowInv, UNCHANGED <<cmd, coll, prev, sending>>, pos' \in Nat \ {0},
           \/ UNCHANGED <<pc, pos, cache>>
           \/ pc # "send" /\ pc' \notin {"poll", "send", "wait"}
           \/ pc # "send" /\ pc' = "poll" /\ pos' = 1
    PROVE  FollowInv'
<1>1. CASE UNCHANGED <<pc, pos, cache>>
  BY <1>1 DEF FollowInv, Follows
<1>2. CASE pc # "send" /\ pc' \notin {"poll", "send", "wait"}
  BY <1>2 DEF FollowInv
<1>3. CASE pc # "send" /\ pc' = "poll" /\ pos' = 1
  <2>1. \A i \in 1 .. Len(cmd.ids) : ~(i < pos')
    BY <1>3
  <2> QED
    BY <1>3, <2>1 DEF FollowInv
<1> QED
  BY <1>1, <1>2, <1>3

\* One object of a pass: what is not sent again is what the collector has.
LEMMA FollowReads ==
    ASSUME FollowInv, PollReads
    PROVE  FollowInv'
<1> DEFINE id == cmd.ids[pos]
<1>0. PICK m \in Mapping(id) : \E g \in MappingOfGenerated(id, m) :
         \/ pc' \in {"fail", "closed"}
         \/ /\ sending' = ReadStatus(id, cache, m, g)
            /\ prev' = [prev EXCEPT ![id] = sending'] /\ pc' = "send" /\ pos' = pos
         \/ /\ ReadStatus(id, cache, m, g) = prev[id]
            /\ pc' = "poll" /\ pos' = pos + 1 /\ UNCHANGED <<sending, prev>>
  BY DEF PollReads, HandleSyncAndPollErr, Fails, Goto, ResourceStatusEqual
<1>1. PICK g \in MappingOfGenerated(id, m) :
         \/ pc' \in {"fail", "closed"}
         \/ /\ sending' = ReadStatus(id, cache, m, g)
            /\ prev' = [prev EXCEPT ![id] = sending'] /\ pc' = "send" /\ pos' = pos
         \/ /\ ReadStatus(id, cache, m, g) = prev[id]
            /\ pc' = "poll" /\ pos' = pos + 1 /\ UNCHANGED <<sending, prev>>
  BY <1>0
<1>2. /\ pc = "poll" /\ pos \in 1 .. Len(cmd.ids)
      /\ UNCHANGED <<cmd, cache, coll>>
      /\ \/ pos' = 1 /\ pc' \in {"fail", "closed"} /\ UNCHANGED <<sending, prev>>
         \/ pc' \notin {"fail", "closed"}
  BY DEF PollReads, HandleSyncAndPollErr, Fails, Goto, collVars, FollowInv
<1>3. m \in Answers /\ g \in Answers
  BY DEF Mapping, MappingOfGenerated, Answers
<1>4. id \in Ids
  BY <1>2 DEF FollowInv
<1>5. CASE pc' \in {"fail", "closed"}
  BY <1>2, <1>5, FollowKept
<1>6. CASE /\ sending' = ReadStatus(id, cache, m, g)
           /\ prev' = [prev EXCEPT ![id] = sending'] /\ pc' = "send" /\ pos' = pos
  <2> HIDE DEF id
  <2>1. DOMAIN prev' = Ids /\ prev'[id] = sending' /\ \A x \in Ids \ {id} : prev'[x] = prev[x]
    BY <1>4, <1>6 DEF FollowInv
  <2>2. \A x \in Ids : \/ prev'[x] = coll'[x]
                       \/ prev'[x] = Unsent
                       \/ pc' = "send" /\ x = cmd'.ids[pos'] /\ prev'[x] = sending'
    BY <1>2, <1>6, <2>1 DEF FollowInv, id
  <2>3. \A i \in 1 .. Len(cmd.ids) : i < pos' => Follows(cmd.ids[i])'
    BY <1>2, <1>6 DEF FollowInv, Follows
  <2>4. \E x, y \in Answers : sending' = ReadStatus(cmd'.ids[pos'], cache', x, y)
    BY <1>2, <1>3, <1>6 DEF id
  <2> QED
    <3>1. prev'[cmd'.ids[pos']] = sending' /\ pos' <= Len(cmd'.ids)
      BY <1>2, <1>6, <2>1 DEF id
    <3>2. cmd'.ids \in Seq(Ids) /\ pos' \in Nat \ {0} /\ DOMAIN coll' = Ids
      BY <1>2, <1>6 DEF FollowInv
    <3> QED
      BY <1>2, <1>6, <2>1, <2>2, <2>3, <2>4, <3>1, <3>2 DEF FollowInv
<1>7. CASE /\ ReadStatus(id, cache, m, g) = prev[id]
           /\ pc' = "poll" /\ pos' = pos + 1 /\ UNCHANGED <<sending, prev>>
  <2> HIDE DEF id
  <2>1. prev[id] # Unsent
    BY <1>7, ReadStatusValues
  <2>2. coll[id] = ReadStatus(id, cache, m, g)
    BY <1>2, <1>4, <1>7, <2>1 DEF FollowInv
  <2>3. Follows(id)
    BY <1>3, <2>2 DEF Follows
  <2>4. \A i \in 1 .. Len(cmd.ids) : i < pos + 1 => i < pos \/ i = pos
    BY <1>2
  <2>5. \A i \in 1 .. Len(cmd.ids) : i < pos' => Follows(cmd.ids[i])
    BY <1>2, <1>7, <2>3, <2>4 DEF FollowInv, id
  <2>6. \A i \in 1 .. Len(cmd.ids) : i < pos' => Follows(cmd.ids[i])'
    BY <1>2, <2>5 DEF Follows
  <2> QED
    <3>1. \A x \in Ids : prev'[x] = coll'[x] \/ prev'[x] = Unsent
      BY <1>2, <1>7 DEF FollowInv
    <3>2. /\ cmd'.ids \in Seq(Ids) /\ pos' \in Nat \ {0}
          /\ DOMAIN coll' = Ids /\ DOMAIN prev' = Ids
      BY <1>2, <1>7 DEF FollowInv
    <3>3. (\A i \in 1 .. Len(cmd.ids) : i < pos => Follows(cmd.ids[i]))'
      BY <1>2, <2>6
    <3> QED
      BY <1>7, <3>1, <3>2, <3>3 DEF FollowInv
<1> QED
  BY <1>1, <1>5, <1>6, <1>7

\* The end of a pass, when every object was read or the context is done.
LEMMA FollowEnds ==
    ASSUME FollowInv, PollEnds
    PROVE  FollowInv'
<1>1. /\ pc = "poll" /\ UNCHANGED <<cmd, coll, prev, sending, cache>> /\ pos' = 1
      /\ pc' = "closed" \/ (pos > Len(cmd.ids) /\ pc' = "wait")
  BY DEF PollEnds, Goto, collVars
<1>2. CASE pc' = "closed"
  BY <1>1, <1>2, FollowKept
<1>3. CASE pos > Len(cmd.ids) /\ pc' = "wait"
  <2>1. Len(cmd.ids) \in Nat /\ pos \in Nat
    BY DEF FollowInv
  <2>2. \A i \in 1 .. Len(cmd.ids) : i < pos
    BY <1>3, <2>1
  <2>3. \A i \in 1 .. Len(cmd.ids) : Follows(cmd.ids[i])'
    BY <1>1, <2>2 DEF FollowInv, Follows
  <2> QED
    BY <1>1, <1>3, <2>3 DEF FollowInv
<1> QED
  BY <1>1, <1>2, <1>3

\* The collector takes what is sent.
LEMMA FollowUpdate ==
    ASSUME FollowInv, Update
    PROVE  FollowInv'
<1> DEFINE id == cmd.ids[pos]
<1>1. /\ pc = "send" /\ pc' = "poll" /\ pos' = pos + 1
      /\ coll' = [coll EXCEPT ![id] = sending] /\ UNCHANGED <<cmd, cache, prev>>
  BY DEF Update, Goto
<1>2. pos \in 1 .. Len(cmd.ids) /\ id \in Ids
  BY <1>1 DEF FollowInv
<1> HIDE DEF id
<1>3. DOMAIN coll' = Ids /\ coll'[id] = sending /\ \A x \in Ids \ {id} : coll'[x] = coll[x]
  BY <1>1, <1>2 DEF FollowInv
<1>4. \A x \in Ids : prev'[x] = coll'[x] \/ prev'[x] = Unsent
  <2> SUFFICES ASSUME NEW x \in Ids PROVE prev'[x] = coll'[x] \/ prev'[x] = Unsent
    OBVIOUS
  <2>1. prev[x] = coll[x] \/ prev[x] = Unsent \/ (x = id /\ prev[x] = sending)
    BY DEF FollowInv, id
  <2>2. CASE x # id
    BY <1>1, <1>3, <2>1, <2>2
  <2>3. CASE x = id
    BY <1>1, <1>3, <2>3 DEF FollowInv, id
  <2> QED
    BY <2>2, <2>3
<1>5. \A i \in 1 .. Len(cmd.ids) : i < pos' => Follows(cmd.ids[i])'
  <2> SUFFICES ASSUME NEW i \in 1 .. Len(cmd.ids), i < pos' PROVE Follows(cmd.ids[i])'
    OBVIOUS
  <2>1. cmd.ids[i] \in Ids /\ (i < pos \/ i = pos)
    BY <1>1, <1>2 DEF FollowInv
  <2>2. CASE cmd.ids[i] = id
    BY <1>1, <1>3, <2>2 DEF FollowInv, Follows, id
  <2>3. CASE cmd.ids[i] # id
    <3>1. i < pos /\ coll'[cmd.ids[i]] = coll[cmd.ids[i]]
      BY <1>3, <2>1, <2>3 DEF id
    <3>2. Follows(cmd.ids[i])
      BY <1>1, <3>1 DEF FollowInv
    <3> QED
      BY <1>1, <3>1, <3>2 DEF Follows
  <2> QED
    BY <2>2, <2>3
<1> QED
  BY <1>1, <1>2, <1>3, <1>4, <1>5 DEF FollowInv

\* Each step keeps what the collector has in line with what was read.
LEMMA FollowInvStep ==
    ASSUME FollowInv, [Next]_vars
    PROVE  FollowInv'
<1>0. pos \in Nat /\ pos # 0 /\ pos + 1 \in Nat \ {0} /\ 1 \in Nat \ {0}
  BY DEF FollowInv
<1>1. CASE Validate
  <2>1. /\ pc = "validate" /\ UNCHANGED <<cmd, coll, prev, sending>>
        /\ pc' \in {"fail", "validate", "sync"} /\ pos' \in {1, pos + 1}
    BY <1>1 DEF Validate, Goto, Fails, collVars
  <2> QED
    BY <1>0, <2>1, FollowKept
<1>2. CASE SyncLists
  <2>1. /\ pc = "sync" /\ UNCHANGED <<cmd, coll, prev, sending>>
        /\ \/ pc' \in {"fail", "sync", "closed"} /\ pos' \in {1, pos + 1}
           \/ pc' = "poll" /\ pos' = 1
    BY <1>2 DEF SyncLists, HandleSyncAndPollErr, Goto, Fails, collVars
  <2> QED
    BY <1>0, <2>1, FollowKept
<1>3. CASE PollReads
  BY <1>3, FollowReads
<1>4. CASE PollEnds
  BY <1>4, FollowEnds
<1>5. CASE Waits
  <2>1. /\ pc = "wait" /\ UNCHANGED <<cmd, coll, prev, sending>>
        /\ pc' \in {"sync", "closed"} /\ pos' = 1
    BY <1>5 DEF Waits, Goto, collVars
  <2> QED
    BY <1>0, <2>1, FollowKept
<1>6. CASE Update
  BY <1>6, FollowUpdate
<1>7. CASE SendsError
  <2>1. /\ pc = "fail" /\ UNCHANGED <<cmd, coll, prev, sending>> /\ pc' = "closed" /\ pos' = 1
    BY <1>7 DEF SendsError, Goto
  <2> QED
    BY <1>0, <2>1, FollowKept
<1>8. CASE UNCHANGED <<cmd, coll, pollVars>>
  BY <1>0, <1>8, FollowKept DEF pollVars
<1> QED
  BY <1>1, <1>2, <1>3, <1>4, <1>5, <1>6, <1>7, <1>8
     DEF Next, Poller, Collector, Reports, Observes, Returns, DeadlineOrInterrupt, World,
         OtherChanges, vars, collVars

\* After each pass of the poller the collector has of every object what a status
\* reader makes of the cache (engine.go:215-257, collector.go:74-112).
THEOREM CollectorFollowsHolds == Spec => []CollectorFollows
<1>1. Init => FollowInv
  BY FollowInvInit
<1>2. FollowInv /\ [Next]_vars => FollowInv'
  BY FollowInvStep
<1>3. FollowInv => CollectorFollows
  <2> SUFFICES ASSUME FollowInv, pc = "wait", NEW id \in Range(cmd.ids)
               PROVE  \E m, g \in Answers : coll[id] = ReadStatus(id, cache, m, g)
    BY DEF CollectorFollows, Answers
  <2>1. PICK i \in 1 .. Len(cmd.ids) : id = cmd.ids[i]
    BY DEF FollowInv, Range
  <2> QED
    BY <2>1 DEF FollowInv, Follows
<1> QED
  BY <1>1, <1>2, <1>3, PTL DEF Spec

----------------------------------------------------------------------------
(* The rollout of a workload.                                              *)

\* WorkloadObject with the kind k, the spec s and the status w.
ObjectOf(k, s, w) ==
    [kind |-> k, del |-> FALSE, gen |-> s.gen, obs |-> w.obs, conds |-> w.conds,
     f |-> [n \in {"replicas", "progressDeadlineSeconds"} \cup DOMAIN w.f |->
               CASE n = "replicas" -> s.replicas
                 [] n = "progressDeadlineSeconds" -> 600
                 [] OTHER -> w.f[n]]]

\* The fields of a workload are those of its spec and those of its status.
LEMMA FieldOfObject ==
    ASSUME NEW k, NEW s, NEW w
    PROVE  /\ \A d : Field(ObjectOf(k, s, w), "replicas", d) = s.replicas
           /\ \A n, d : n \notin {"replicas", "progressDeadlineSeconds"} =>
                 Field(ObjectOf(k, s, w), n, d) = IF n \in DOMAIN w.f THEN w.f[n] ELSE d
BY DEF ObjectOf, Field

\* The sets of pods are finite.
LEMMA PodCounts ==
    ASSUME NEW rev
    PROVE  /\ IsFiniteSet(Alive(pods)) /\ Cardinality(Alive(pods)) \in Nat
           /\ Ready(pods) \subseteq Alive(pods) /\ OfRev(pods, rev) \subseteq Alive(pods)
           /\ Cardinality(Ready(pods)) \in Nat /\ Cardinality(OfRev(pods, rev)) \in Nat
           /\ Cardinality(Ready(pods)) >= Cardinality(Alive(pods)) => Ready(pods) = Alive(pods)
           /\ Cardinality(OfRev(pods, rev)) >= Cardinality(Alive(pods)) => OfRev(pods, rev) = Alive(pods)
<1>1. Alive(pods) \subseteq PodSlots /\ Ready(pods) \subseteq Alive(pods) /\ OfRev(pods, rev) \subseteq Alive(pods)
  BY DEF Alive, Ready, OfRev
<1>2. IsFiniteSet(Alive(pods)) /\ Cardinality(Alive(pods)) \in Nat
  BY <1>1, RolloutAssumption, FS_Subset, FS_CardinalityType
<1>3. ASSUME NEW T \in SUBSET Alive(pods)
      PROVE  Cardinality(T) \in Nat /\ (Cardinality(T) >= Cardinality(Alive(pods)) => T = Alive(pods))
  <2>1. IsFiniteSet(T) /\ Cardinality(T) <= Cardinality(Alive(pods))
        /\ (Cardinality(Alive(pods)) = Cardinality(T) => Alive(pods) = T)
    BY <1>2, FS_Subset
  <2>2. Cardinality(T) \in Nat
    BY <2>1, FS_CardinalityType
  <2> QED
    BY <1>2, <2>1, <2>2
<1> QED
  BY <1>1, <1>2, <1>3

\* What the counts say when a workload is rolled out.
LEMMA RolledOutByCounts ==
    ASSUME NEW s, Cardinality(Alive(pods)) = s.replicas,
           Cardinality(Ready(pods)) >= Cardinality(Alive(pods)),
           kind = "ReplicaSet" \/ Cardinality(OfRev(pods, s.rev)) >= Cardinality(Alive(pods))
    PROVE  RolledOut(s, pods)
BY PodCounts DEF RolledOut, Outdated

\* Only a kind whose own rule says so is current, in the generation observed.
LEMMA CurrentByRule ==
    ASSUME NEW u, Compute(u) = "Current"
    PROVE  Legacy(u) = "Current" /\ ~GenerationPending(u)
<1>1. checkGenericProperties(u) # "Current"
  BY DEF checkGenericProperties, FirstCond
<1>2. checkGenericProperties(u) = "none" /\ Legacy(u) = "Current"
  BY <1>1 DEF Compute
<1>3. ~checkGeneration(u)
  BY <1>2 DEF checkGenericProperties
<1> QED
  BY <1>2, <1>3 DEF checkGeneration

\* A workload whose controller wrote nothing yet is not current.
LEMMA UnwrittenIsNotCurrent ==
    ASSUME NEW k \in Kinds, NEW s, s.replicas \in Nat \ {0}
    PROVE  Compute(ObjectOf(k, s, NoStatus)) # "Current"
<1> DEFINE u == ObjectOf(k, s, NoStatus)
<1>1. /\ Field(u, "replicas", 1) = s.replicas /\ u.obs = Unset /\ u.kind = k
      /\ Field(u, "statusReplicas", 0) = 0 /\ Field(u, "fullyLabeledReplicas", 0) = 0
      /\ Field(u, "updateStrategy", "") = ""
  <2>1. u.obs = Unset /\ u.kind = k
    BY DEF NoStatus, ObjectOf
  <2>2. DOMAIN NoStatus.f = {}
    BY DEF NoStatus
  <2> HIDE DEF u
  <2>3. \A n, d : n \notin {"replicas", "progressDeadlineSeconds"} => Field(u, n, d) = d
    BY <2>2, FieldOfObject DEF u
  <2>4. Field(u, "replicas", 1) = s.replicas
    BY FieldOfObject DEF u
  <2>5. Field(u, "statusReplicas", 0) = 0 /\ Field(u, "fullyLabeledReplicas", 0) = 0
    BY <2>3
  <2>6. Field(u, "updateStrategy", "") = ""
    <3>1. "updateStrategy" \notin {"replicas", "progressDeadlineSeconds"}
      OBVIOUS
    <3> QED
      BY <2>3, <3>1, Zenon
  <2> QED
    BY <2>1, <2>4, <2>5, <2>6
<1> HIDE DEF u
<1>2. s.replicas > 0
  OBVIOUS
<1>3. Legacy(u) # "Current"
  <2>1. CASE k = "StatefulSet"
    BY <1>1, <1>2, <2>1 DEF Legacy, stsConditions, CurrentUnless
  <2>2. CASE k = "ReplicaSet"
    BY <1>1, <1>2, <2>2 DEF Legacy, replicasetConditions, CurrentUnless
  <2>3. CASE k = "DaemonSet"
    BY <1>1, <1>2, <2>3 DEF Legacy, daemonsetConditions, CurrentUnless
  <2>4. CASE k = "Deployment"
    BY <1>1, <1>2, <2>4 DEF Legacy, deploymentConditions, CurrentUnless
  <2> QED
    BY <2>1, <2>2, <2>3, <2>4 DEF Kinds
<1> QED
  BY <1>3, CurrentByRule DEF u

\* The status that makes a workload current says that it is rolled out.
LEMMA CurrentStatusIsComplete ==
    ASSUME RolloutTypeOK, seen = spec, NEW w, w = StatusNow,
           kind = "DaemonSet" => Cardinality(Alive(pods)) <= spec.replicas,
           Legacy(ObjectOf(kind, spec, w)) = "Current"
    PROVE  RolledOut(spec, pods)
<1> DEFINE u == ObjectOf(kind, spec, w)
           all == Cardinality(Alive(pods))
           ready == Cardinality(Ready(pods))
           updated == Cardinality(OfRev(pods, spec.rev))
<1>1. all \in Nat /\ ready \in Nat /\ updated \in Nat /\ spec.replicas \in Nat
  BY PodCounts, RolloutAssumption DEF RolloutTypeOK, Specs
<1>2. u.kind = kind /\ Field(u, "replicas", 1) = spec.replicas
  BY FieldOfObject DEF ObjectOf
<1>3. \A n, d : n \notin {"replicas", "progressDeadlineSeconds"} =>
         Field(u, n, d) = IF n \in DOMAIN w.f THEN w.f[n] ELSE d
  <2> HIDE DEF u
  <2> QED
    BY FieldOfObject DEF u
<1>4. CASE kind = "StatefulSet"
  <2>1. PICK current : w.f = [statusReplicas |-> all, updatedReplicas |-> updated,
                              readyReplicas |-> ready,
                              currentReplicas |-> Cardinality(OfRev(pods, current)),
                              currentRevision |-> current, updateRevision |-> spec.rev]
    BY <1>4 DEF StatusNow
  <2> HIDE DEF all, ready, updated, u
  <2>2. /\ Field(u, "statusReplicas", 0) = all /\ Field(u, "readyReplicas", 0) = ready
        /\ Field(u, "partition", Unset) = Unset /\ Field(u, "updateStrategy", "") = ""
        /\ Field(u, "currentReplicas", 0) = Cardinality(OfRev(pods, current))
        /\ Field(u, "currentRevision", "") = current /\ Field(u, "updateRevision", "") = spec.rev
    <3>1. /\ w.f["statusReplicas"] = all /\ w.f["readyReplicas"] = ready
          /\ w.f["currentReplicas"] = Cardinality(OfRev(pods, current))
          /\ w.f["currentRevision"] = current /\ w.f["updateRevision"] = spec.rev
      BY <2>1
    <3>2. DOMAIN w.f = {"statusReplicas", "updatedReplicas", "readyReplicas", "currentReplicas",
                        "currentRevision", "updateRevision"}
      BY <2>1
    <3> QED
      BY <1>3, <3>1, <3>2
  <2>3. /\ ~(spec.replicas > all) /\ ~(spec.replicas > ready) /\ ~(all > spec.replicas)
        /\ ~(spec.replicas > Cardinality(OfRev(pods, current))) /\ current = spec.rev
    BY <1>2, <1>4, <2>2 DEF Legacy, stsConditions, CurrentUnless, u
  <2>4. all = spec.replicas /\ ready >= all /\ updated >= all
    BY <1>1, <2>3 DEF updated
  <2> QED
    BY <2>4, RolledOutByCounts DEF all, ready, updated
<1>5. CASE kind = "ReplicaSet"
  <2>1. w.f = [statusReplicas |-> all, fullyLabeledReplicas |-> all,
               availableReplicas |-> ready, readyReplicas |-> ready]
    BY <1>5 DEF StatusNow
  <2> HIDE DEF all, ready, updated, u
  <2>2. /\ Field(u, "statusReplicas", 0) = all /\ Field(u, "readyReplicas", 0) = ready
        /\ Field(u, "fullyLabeledReplicas", 0) = all
    BY <1>3, <2>1
  <2>3. ~(spec.replicas > all) /\ ~(spec.replicas > ready) /\ ~(all > spec.replicas)
    BY <1>2, <1>5, <2>2 DEF Legacy, replicasetConditions, CurrentUnless, u
  <2>4. all = spec.replicas /\ ready >= all
    BY <1>1, <2>3
  <2> QED
    BY <1>5, <2>4, RolledOutByCounts DEF all, ready
<1>6. CASE kind = "DaemonSet"
  <2>1. w.f = [desiredNumberScheduled |-> spec.replicas, currentNumberScheduled |-> all,
               updatedNumberScheduled |-> updated, numberAvailable |-> ready,
               numberReady |-> ready]
    BY <1>6 DEF StatusNow
  <2> HIDE DEF all, ready, updated, u
  <2>2. /\ Field(u, "desiredNumberScheduled", Unset) = spec.replicas
        /\ Field(u, "currentNumberScheduled", 0) = all
        /\ Field(u, "updatedNumberScheduled", 0) = updated
        /\ Field(u, "numberReady", 0) = ready
    BY <1>3, <2>1
  <2>3. ~(spec.replicas > all) /\ ~(spec.replicas > ready) /\ ~(spec.replicas > updated)
    BY <1>2, <1>6, <2>2 DEF Legacy, daemonsetConditions, CurrentUnless, u
  <2>4. all = spec.replicas /\ ready >= all /\ updated >= all
    BY <1>1, <1>6, <2>3 DEF all
  <2> QED
    BY <2>4, RolledOutByCounts DEF all, ready, updated
<1>7. CASE kind = "Deployment"
  <2>1. w.f = [statusReplicas |-> all, updatedReplicas |-> updated,
               availableReplicas |-> ready, readyReplicas |-> ready]
    BY <1>7 DEF StatusNow
  <2> HIDE DEF all, ready, updated, u
  <2>2. /\ Field(u, "statusReplicas", 0) = all /\ Field(u, "readyReplicas", 0) = ready
        /\ Field(u, "updatedReplicas", 0) = updated
    BY <1>3, <2>1
  <2>3. /\ ~(spec.replicas > all) /\ ~(spec.replicas > ready) /\ ~(all > spec.replicas)
        /\ ~(spec.replicas > updated)
    BY <1>2, <1>7, <2>2 DEF Legacy, deploymentConditions, CurrentUnless, u
  <2>4. all = spec.replicas /\ ready >= all /\ updated >= all
    BY <1>1, <2>3
  <2> QED
    BY <2>4, RolledOutByCounts DEF all, ready, updated
<1> QED
  BY <1>4, <1>5, <1>6, <1>7 DEF RolloutTypeOK, Kinds

\* The controller is not ahead of the spec and its status not ahead of what it
\* saw; a workload whose status makes it current has been rolled out.
RolloutInv ==
    /\ RolloutTypeOK
    /\ seen.gen <= spec.gen /\ (seen.gen = spec.gen => seen = spec)
    /\ written.obs <= spec.gen /\ (written.obs = Unset => written = NoStatus)
    /\ kind = "DaemonSet" => /\ seen.replicas = spec.replicas
                            /\ Cardinality(Alive(pods)) <= spec.replicas
    /\ RolledOut(spec, pods) => spec.gen \in rolledOut
    /\ Compute(WorkloadObject) = "Current" => spec.gen \in rolledOut

\* The workload as a function of its kind, its spec and its status.
LEMMA WorkloadIsObjectOf == WorkloadObject = ObjectOf(kind, spec, written)
BY DEF WorkloadObject, ObjectOf

\* The workload starts with a spec its controller saw nothing of.
LEMMA RolloutInvInit == RolloutInit => RolloutInv
<1> SUFFICES ASSUME RolloutInit PROVE RolloutInv
  OBVIOUS
<1>1. PICK n \in 1 .. MaxReplicas : spec = [gen |-> 1, replicas |-> n, rev |-> 1]
  BY DEF RolloutInit
<1>2. /\ kind \in Kinds /\ seen = spec /\ written = NoStatus /\ rolledOut = {}
      /\ pods = [p \in PodSlots |-> NoPod]
  BY DEF RolloutInit
<1>3. spec \in Specs /\ spec.gen = 1 /\ spec.replicas \in Nat \ {0}
  BY <1>1, RolloutAssumption DEF Specs
<1>4. RolloutTypeOK
  BY <1>2, <1>3 DEF RolloutTypeOK, PodStates, NoStatus
<1>5. Alive(pods) = {} /\ Cardinality(Alive(pods)) = 0
  BY <1>2, FS_EmptySet DEF Alive, NoPod
<1>6. ~RolledOut(spec, pods)
  BY <1>3, <1>5 DEF RolledOut
<1>7. Compute(WorkloadObject) # "Current"
  BY <1>2, <1>3, UnwrittenIsNotCurrent, WorkloadIsObjectOf
<1>8. written.obs <= spec.gen
  BY <1>2, <1>3 DEF NoStatus, Unset
<1> QED
  BY <1>2, <1>3, <1>4, <1>5, <1>6, <1>7, <1>8 DEF RolloutInv

\* A new generation is one that the status does not speak of.
LEMMA UpdateStep ==
    ASSUME RolloutInv, UserUpdates
    PROVE  RolloutInv'
<1>1. PICK n, rev : /\ n \in IF kind = "DaemonSet" THEN {spec.replicas} ELSE 1 .. MaxReplicas
                    /\ rev \in {spec.rev, spec.gen + 1}
                    /\ spec' = [gen |-> spec.gen + 1, replicas |-> n, rev |-> rev]
  BY DEF UserUpdates
<1>2. spec.gen < MaxGen /\ UNCHANGED <<kind, seen, pods, written>>
  BY DEF UserUpdates
<1>3. spec.gen \in 1 .. MaxGen /\ spec.replicas \in 1 .. MaxReplicas /\ spec.rev \in 1 .. MaxGen
      /\ seen.gen \in 1 .. MaxGen
  BY DEF RolloutInv, RolloutTypeOK, Specs
<1>4. spec' \in Specs /\ spec'.gen = spec.gen + 1 /\ spec'.replicas = n
  BY <1>1, <1>2, <1>3, RolloutAssumption DEF Specs
<1>5. rolledOut' \subseteq 1 .. MaxGen
      /\ (RolledOut(spec, pods)' => spec'.gen \in rolledOut')
  <2>1. RolledOut(spec, pods)' <=> RolledOut(spec', pods')
    BY <1>2 DEF RolledOut, Outdated, Alive, Ready, OfRev
  <2>2. spec'.gen \in 1 .. MaxGen /\ rolledOut \subseteq 1 .. MaxGen
    BY <1>4 DEF RolloutInv, RolloutTypeOK, Specs
  <2> QED
    BY <2>1, <2>2 DEF UserUpdates, Remember
<1>6. RolloutTypeOK'
  BY <1>2, <1>4, <1>5 DEF RolloutInv, RolloutTypeOK
<1>7. Compute(WorkloadObject)' # "Current"
  <2>1. WorkloadObject' = ObjectOf(kind, spec', written)
    BY <1>2 DEF WorkloadObject, ObjectOf
  <2>2. CASE written = NoStatus
    BY <1>3, <1>4, <2>1, <2>2, UnwrittenIsNotCurrent, <1>6, RolloutAssumption
       DEF RolloutInv, RolloutTypeOK, Specs
  <2>3. CASE written # NoStatus
    <3>1. written.obs # Unset /\ written.obs # spec'.gen /\ spec'.gen # Unset
      BY <1>3, <1>4, <2>3 DEF RolloutInv, RolloutTypeOK, Unset
    <3>2. GenerationPending(WorkloadObject')
      BY <2>1, <3>1 DEF GenerationPending, ObjectOf
    <3> QED
      BY <3>2, CurrentByRule
  <2> QED
    BY <2>2, <2>3
<1>8. /\ seen'.gen <= spec'.gen /\ seen'.gen # spec'.gen
      /\ written'.obs <= spec'.gen /\ (written'.obs = Unset => written' = NoStatus)
  BY <1>2, <1>3, <1>4 DEF RolloutInv, RolloutTypeOK, Unset
<1>9. kind' = "DaemonSet" => /\ seen'.replicas = spec'.replicas
                            /\ Cardinality(Alive(pods))' <= spec'.replicas
  BY <1>1, <1>2, <1>4 DEF RolloutInv, Alive
<1> QED
  BY <1>5, <1>6, <1>7, <1>8, <1>9 DEF RolloutInv

\* The controller sees the spec as it is.
LEMMA ObserveStep ==
    ASSUME RolloutInv, ControllerObserves
    PROVE  RolloutInv'
<1>1. seen' = spec /\ UNCHANGED <<kind, spec, pods, written, rolledOut>>
  BY DEF ControllerObserves
<1>2. RolloutTypeOK'
  BY <1>1 DEF RolloutInv, RolloutTypeOK
<1>3. WorkloadObject' = WorkloadObject /\ (RolledOut(spec, pods)' <=> RolledOut(spec, pods))
      /\ Alive(pods)' = Alive(pods)
  BY <1>1 DEF WorkloadObject, RolledOut, Outdated, Alive, Ready, OfRev
<1>4. spec.gen \in 1 .. MaxGen
  BY DEF RolloutInv, RolloutTypeOK, Specs
<1> QED
  BY <1>1, <1>2, <1>3, <1>4, RolloutAssumption DEF RolloutInv

\* A pod changes; a DaemonSet has no more pods than nodes for them.
LEMMA PodStep ==
    ASSUME RolloutInv, NEW p \in PodSlots, NEW pod \in PodStates, PodChanges(p, pod),
           kind = "DaemonSet" /\ pods[p].st = "none" => Cardinality(Alive(pods)) < spec.replicas
    PROVE  RolloutInv'
<1>1. pods' = [pods EXCEPT ![p] = pod] /\ UNCHANGED <<kind, spec, seen, written>>
  BY DEF PodChanges
<1>2. spec.gen \in 1 .. MaxGen /\ rolledOut \subseteq 1 .. MaxGen /\ pods \in [PodSlots -> PodStates]
      /\ spec.replicas \in Nat
  BY RolloutAssumption DEF RolloutInv, RolloutTypeOK, Specs
<1>3. rolledOut \subseteq rolledOut' /\ rolledOut' \subseteq 1 .. MaxGen
      /\ (RolledOut(spec, pods)' => spec'.gen \in rolledOut')
  <2>1. RolledOut(spec, pods)' <=> RolledOut(spec', pods')
    BY <1>1 DEF RolledOut, Outdated, Alive, Ready, OfRev
  <2> QED
    BY <1>1, <1>2, <2>1 DEF PodChanges, Remember
<1>4. RolloutTypeOK'
  BY <1>1, <1>2, <1>3 DEF RolloutInv, RolloutTypeOK
<1>5. WorkloadObject' = WorkloadObject
  BY <1>1 DEF WorkloadObject
<1>6. kind = "DaemonSet" => Cardinality(Alive(pods))' <= spec.replicas
  <2> SUFFICES ASSUME kind = "DaemonSet" PROVE Cardinality(Alive(pods))' <= spec.replicas
    OBVIOUS
  <2>1. Alive(pods)' \subseteq Alive(pods) \cup {p}
    BY <1>1, <1>2 DEF Alive
  <2>2. IsFiniteSet(Alive(pods)) /\ Cardinality(Alive(pods)) \in Nat
    BY PodCounts
  <2>3. CASE p \in Alive(pods)
    <3>1. Alive(pods)' \subseteq Alive(pods)
      BY <2>1, <2>3
    <3>2. Cardinality(Alive(pods)') <= Cardinality(Alive(pods)) /\ IsFiniteSet(Alive(pods)')
      BY <2>2, <3>1, FS_Subset
    <3>3. Cardinality(Alive(pods)') \in Nat
      BY <3>2, FS_CardinalityType
    <3> QED
      BY <1>2, <2>2, <3>2, <3>3 DEF RolloutInv
  <2>4. CASE p \notin Alive(pods)
    <3>1. Cardinality(Alive(pods)) < spec.replicas
      BY <2>4 DEF Alive
    <3>2. IsFiniteSet(Alive(pods) \cup {p}) /\ Cardinality(Alive(pods) \cup {p}) = Cardinality(Alive(pods)) + 1
      BY <2>2, <2>4, FS_AddElement
    <3>3. Cardinality(Alive(pods)') <= Cardinality(Alive(pods) \cup {p}) /\ IsFiniteSet(Alive(pods)')
      BY <2>1, <3>2, FS_Subset
    <3>4. Cardinality(Alive(pods)') \in Nat
      BY <3>3, FS_CardinalityType
    <3> QED
      BY <1>2, <2>2, <3>1, <3>2, <3>3, <3>4
  <2> QED
    BY <2>3, <2>4
<1> QED
  BY <1>1, <1>3, <1>4, <1>5, <1>6 DEF RolloutInv

\* The controller writes a status: of an older generation, or of this one as
\* it is.
LEMMA WriteStep ==
    ASSUME RolloutInv, ControllerWrites
    PROVE  RolloutInv'
<1>1. written' = StatusNow /\ UNCHANGED <<kind, spec, seen, pods, rolledOut>>
  BY DEF ControllerWrites
<1>2. written'.obs = seen.gen
  BY <1>1 DEF StatusNow
<1>3. seen.gen \in 1 .. MaxGen /\ spec.gen \in 1 .. MaxGen
  BY DEF RolloutInv, RolloutTypeOK, Specs
<1>4. RolloutTypeOK'
  BY <1>1, <1>2, <1>3 DEF RolloutInv, RolloutTypeOK
<1>5. WorkloadObject' = ObjectOf(kind, spec, written')
  BY <1>1 DEF WorkloadObject, ObjectOf
<1>6. Compute(WorkloadObject') = "Current" => spec.gen \in rolledOut
  <2> SUFFICES ASSUME Compute(WorkloadObject') = "Current" PROVE spec.gen \in rolledOut
    OBVIOUS
  <2>1. Legacy(WorkloadObject') = "Current" /\ ~GenerationPending(WorkloadObject')
    BY CurrentByRule
  <2>2. written'.obs = spec.gen
    BY <1>2, <1>3, <1>5, <2>1 DEF GenerationPending, ObjectOf, Unset
  <2>3. seen = spec
    BY <1>2, <2>2 DEF RolloutInv
  <2>4. RolledOut(spec, pods)
    BY <1>1, <1>5, <2>1, <2>3, CurrentStatusIsComplete DEF RolloutInv
  <2> QED
    BY <2>4 DEF RolloutInv
<1>7. (RolledOut(spec, pods)' <=> RolledOut(spec, pods)) /\ Alive(pods)' = Alive(pods)
  BY <1>1 DEF RolledOut, Outdated, Alive, Ready, OfRev
<1> QED
  BY <1>1, <1>2, <1>3, <1>4, <1>6, <1>7, RolloutAssumption DEF RolloutInv, Unset

\* Each step of the cluster keeps what a current status means.
LEMMA RolloutInvStep ==
    ASSUME RolloutInv, [RolloutNext]_rolloutVars
    PROVE  RolloutInv'
<1>0. pods \in [PodSlots -> PodStates] /\ seen.rev \in 1 .. MaxGen /\ seen.replicas \in Nat
      /\ Cardinality(Alive(pods)) \in Nat
  BY RolloutAssumption, PodCounts DEF RolloutInv, RolloutTypeOK, Specs
<1>1. CASE UserUpdates
  BY <1>1, UpdateStep
<1>2. CASE ControllerObserves
  BY <1>2, ObserveStep
<1>3. CASE ControllerWrites
  BY <1>3, WriteStep
<1>4. ASSUME NEW p \in PodSlots, ControllerCreates(p) PROVE RolloutInv'
  <2>1. PodChanges(p, [st |-> "pending", rev |-> seen.rev])
        /\ (kind = "DaemonSet" => Cardinality(Alive(pods)) < seen.replicas)
    BY <1>0, <1>4 DEF ControllerCreates
  <2>2. [st |-> "pending", rev |-> seen.rev] \in PodStates
    BY <1>0 DEF PodStates
  <2>3. kind = "DaemonSet" => Cardinality(Alive(pods)) < spec.replicas
    BY <2>1 DEF RolloutInv
  <2> QED
    BY <2>1, <2>2, <2>3, PodStep
<1>5. ASSUME NEW p \in PodSlots, ControllerDeletes(p) PROVE RolloutInv'
  <2>1. PodChanges(p, NoPod) /\ pods[p].st # "none"
    BY <1>5 DEF ControllerDeletes, Alive
  <2>2. NoPod \in PodStates
    BY DEF PodStates
  <2> QED
    BY <2>1, <2>2, PodStep
<1>6. ASSUME NEW p \in PodSlots, PodStarts(p) \/ PodCrashes(p) PROVE RolloutInv'
  <2>1. PICK st \in {"pending", "ready", "crashing"} : PodChanges(p, [pods[p] EXCEPT !.st = st])
    BY <1>6 DEF PodStarts, PodCrashes
  <2>2. pods[p].st \in {"pending", "ready", "crashing"}
    BY <1>6 DEF PodStarts, PodCrashes
  <2>3. pods[p] \in [st : {"pending", "ready", "crashing"}, rev : 1 .. MaxGen]
    BY <1>0, <2>2 DEF PodStates, NoPod
  <2>4. [pods[p] EXCEPT !.st = st] \in PodStates
    BY <2>3 DEF PodStates
  <2> QED
    BY <2>1, <2>2, <2>4, PodStep
<1>7. CASE UNCHANGED rolloutVars
  BY <1>7 DEF rolloutVars, RolloutInv, RolloutTypeOK, WorkloadObject, RolledOut, Outdated, Alive,
              Ready, OfRev
<1> QED
  BY <1>1, <1>2, <1>3, <1>4, <1>5, <1>6, <1>7 DEF RolloutNext

----------------------------------------------------------------------------
(* What the collector is told of the workload.                             *)

\* A status reader says that an object is current only if its rule does, with
\* the generation of the object.
LEMMA ReadStatusCurrent ==
    ASSUME NEW id, NEW c, NEW m, NEW g, ReadStatus(id, c, m, g).st = "Current"
    PROVE  /\ c[id].err = "none"
           /\ Compute(c[id].val) = "Current"
           /\ ReadStatus(id, c, m, g).gen = GenerationOf(c[id].val)
<1> DEFINE Told(s, u) == s.st = "Current" => Compute(u) = "Current" /\ s.gen = GenerationOf(u)
<1>1. \A e, gen : Failed(e, gen).st # "Current"
  BY DEF Failed
<1>2. \A e, u : Told(FailedObject(e, u), u)
  BY <1>1 DEF FailedObject
<1>3. \A u : Told(Status(u, Compute(u)), u) /\ Told(Status(u, "Failed"), u)
  BY DEF Status
<1>4. \A u : Told(GenericStatus(u), u)
  <2> HIDE DEF Told
  <2> QED
    BY <1>2, <1>3 DEF GenericStatus
<1>5. \A u : Told(PodController(u, c, g), u)
  <2> SUFFICES ASSUME NEW u PROVE Told(PodController(u, c, g), u)
    OBVIOUS
  <2>1. \/ \E e : PodController(u, c, g) = FailedObject(e, u)
        \/ PodController(u, c, g) = Status(u, "Failed")
        \/ PodController(u, c, g) = Status(u, Compute(u))
    BY DEF PodController
  <2> HIDE DEF Told
  <2> QED
    BY <1>2, <1>3, <2>1
<1>6. \A u : Told(DeploymentStatus(u, c, g), u)
  <2> HIDE DEF Told
  <2> QED
    BY <1>2, <1>4 DEF DeploymentStatus
<1>7. Told(StatusForObject(id, c, g), c[id].val)
  <2> HIDE DEF Told
  <2> QED
    BY <1>4, <1>5, <1>6 DEF StatusForObject, ReplicaSetStatus, StatefulSetStatus
<1>8. [Unpolled EXCEPT !.st = "NotFound"].st # "Current"
  BY DEF Unpolled
<1>9. m = "none" /\ c[id].err = "none" /\ ReadStatus(id, c, m, g) = StatusForObject(id, c, g)
  BY <1>1, <1>8 DEF ReadStatus, Get, Entry
<1> QED
  BY <1>7, <1>9

\* A status that says current is of a generation that was rolled out.
Earned(s) == s.st = "Current" => s.gen \in rolledOut

\* The workload in the cache, the status that is being sent of it and the one
\* the collector has.
SeenInv ==
    /\ RolloutInv
    /\ DOMAIN cache = Keys /\ DOMAIN coll = Ids
    /\ cache["workload"].err = "none" /\ Compute(cache["workload"].val) = "Current"
          => GenerationOf(cache["workload"].val) \in rolledOut
    /\ pc = "send" /\ cmd.ids[pos] = "workload" => Earned(sending)
    /\ Earned(coll["workload"])

\* Nothing was listed when the command starts.
LEMMA SeenInvInit == Init => SeenInv
<1> SUFFICES ASSUME Init PROVE SeenInv
  OBVIOUS
<1>1. RolloutInv
  BY RolloutInvInit DEF Init
<1>2. cache = [k \in Keys |-> [err |-> "not in cache", val |-> "none"]]
      /\ coll = [id \in Ids |-> Unpolled] /\ pc \in {"validate", "closed"}
  BY DEF Init, NoCache
<1>3. cache["workload"].err # "none"
  BY <1>2 DEF Keys
<1>4. coll["workload"].st # "Current"
  BY <1>2 DEF Ids, Unpolled
<1> QED
  BY <1>1, <1>2, <1>3, <1>4 DEF SeenInv, Earned

\* What was rolled out once counts from then on.
LEMMA RolledOutGrows ==
    ASSUME [RolloutNext]_rolloutVars
    PROVE  rolledOut \subseteq rolledOut'
BY DEF RolloutNext, UserUpdates, ControllerObserves, ControllerWrites, ControllerCreates,
       ControllerDeletes, PodStarts, PodCrashes, PodChanges, Remember, rolloutVars

\* The poller lists the workload as it is.
LEMMA SeenSync ==
    ASSUME SeenInv, SyncLists, RolloutInv', rolledOut' = rolledOut
    PROVE  SeenInv'
<1> DEFINE key == KeysOf(cmd.ids)[pos]
<1>1. \/ cache' = cache
      \/ cache' = [cache EXCEPT ![key] = Entry("none", ListNow(key))]
      \/ \E e, v : e # "none" /\ cache' = [cache EXCEPT ![key] = Entry(e, v)]
  BY Zenon DEF SyncLists
<1> HIDE DEF key
<1>2. UNCHANGED <<coll, sending, cmd>> /\ pc' # "send"
  BY DEF SyncLists, HandleSyncAndPollErr, Goto, Fails, collVars
<1>3. DOMAIN cache' = Keys
  BY <1>1 DEF SeenInv
<1>4. \/ cache'["workload"] = cache["workload"]
      \/ cache'["workload"] = Entry("none", WorkloadObject)
      \/ \E e, v : e # "none" /\ cache'["workload"] = Entry(e, v)
  BY <1>1 DEF SeenInv, Keys, ListNow
<1>5. GenerationOf(WorkloadObject) = spec.gen
  BY DEF GenerationOf, WorkloadObject, SeenInv, RolloutInv, RolloutTypeOK, Specs, Unset
<1>6. cache'["workload"].err = "none" /\ Compute(cache'["workload"].val) = "Current"
          => GenerationOf(cache'["workload"].val) \in rolledOut'
  <2>1. CASE cache'["workload"] = cache["workload"]
    BY <2>1 DEF SeenInv
  <2>2. CASE cache'["workload"] = Entry("none", WorkloadObject)
    <3>1. cache'["workload"].val = WorkloadObject
      BY <2>2 DEF Entry
    <3> QED
      BY <1>5, <3>1 DEF SeenInv, RolloutInv
  <2>3. CASE \E e, v : e # "none" /\ cache'["workload"] = Entry(e, v)
    BY <2>3 DEF Entry
  <2> QED
    BY <1>4, <2>1, <2>2, <2>3
<1> QED
  BY <1>2, <1>3, <1>6 DEF SeenInv, Earned

\* The poller reads the status of an object and the collector takes it.
LEMMA SeenReads ==
    ASSUME SeenInv, PollReads, RolloutInv', rolledOut' = rolledOut
    PROVE  SeenInv'
<1> DEFINE id == cmd.ids[pos]
<1>1. /\ UNCHANGED <<coll, cache, cmd>>
      /\ \/ pc' # "send"
         \/ pos' = pos /\ \E m, g : sending' = ReadStatus(id, cache, m, g)
  BY DEF PollReads, HandleSyncAndPollErr, Goto, Fails, collVars
<1>2. pc' = "send" /\ cmd'.ids[pos'] = "workload" => Earned(sending')
  <2> SUFFICES ASSUME pc' = "send", cmd'.ids[pos'] = "workload", sending'.st = "Current"
               PROVE  sending'.gen \in rolledOut
    BY DEF Earned
  <2>1. PICK m, g : sending' = ReadStatus("workload", cache, m, g)
    BY <1>1
  <2>2. /\ cache["workload"].err = "none" /\ Compute(cache["workload"].val) = "Current"
        /\ sending'.gen = GenerationOf(cache["workload"].val)
    BY <2>1, ReadStatusCurrent
  <2> QED
    BY <2>2 DEF SeenInv
<1> QED
  BY <1>1, <1>2 DEF SeenInv, Earned

\* Each step keeps what was listed, sent and collected true of some generation.
LEMMA SeenInvStep ==
    ASSUME SeenInv, [Next]_vars
    PROVE  SeenInv'
<1>0. [RolloutNext]_rolloutVars
  BY DEF Next, Poller, Validate, SyncLists, PollReads, PollEnds, Waits, Collector, Update,
         SendsError, Reports, Observes, Returns, DeadlineOrInterrupt, World, OtherChanges, vars,
         worldVars
<1>1. RolloutInv' /\ rolledOut \subseteq rolledOut'
  BY <1>0, RolloutInvStep, RolledOutGrows DEF SeenInv
<1>2. CASE SyncLists
  <2>1. rolledOut' = rolledOut
    BY <1>2 DEF SyncLists, worldVars, rolloutVars
  <2> QED
    BY <1>1, <1>2, <2>1, SeenSync
<1>3. CASE PollReads
  <2>1. rolledOut' = rolledOut
    BY <1>3 DEF PollReads, worldVars, rolloutVars
  <2> QED
    BY <1>1, <1>3, <2>1, SeenReads
<1>4. CASE Update
  <2>1. /\ pc = "send" /\ pc' = "poll" /\ UNCHANGED <<cache, cmd>>
        /\ coll' = [coll EXCEPT ![cmd.ids[pos]] = sending]
    BY <1>4 DEF Update, Goto
  <2>2. Earned(coll'["workload"])
    BY <2>1 DEF SeenInv, Ids, Earned
  <2> QED
    BY <1>1, <2>1, <2>2 DEF SeenInv, Earned
<1>5. CASE Waits
  <2>1. cache' = NoCache /\ pc' # "send" /\ UNCHANGED coll
    BY <1>5 DEF Waits, Goto, collVars
  <2>2. DOMAIN cache' = Keys /\ cache'["workload"].err # "none"
    BY <2>1 DEF NoCache, Keys
  <2> QED
    BY <1>1, <2>1, <2>2 DEF SeenInv, Earned
<1>6. CASE UNCHANGED <<cache, coll>> /\ pc' # "send"
  BY <1>1, <1>6 DEF SeenInv, Earned
<1>7. CASE UNCHANGED <<cache, coll, pc, pos, cmd, sending>>
  BY <1>1, <1>7 DEF SeenInv, Earned
<1>8. Validate \/ PollEnds \/ SendsError => UNCHANGED <<cache, coll>> /\ pc' # "send"
  BY DEF Validate, PollEnds, SendsError, Goto, Fails, collVars
<1>9. Reports \/ Observes \/ Returns \/ DeadlineOrInterrupt \/ World \/ UNCHANGED vars
          => UNCHANGED <<cache, coll, pc, pos, cmd, sending>>
  BY DEF Reports, Observes, Returns, DeadlineOrInterrupt, World, OtherChanges, vars, collVars,
         pollVars
<1> QED
  BY <1>2, <1>3, <1>4, <1>5, <1>6, <1>7, <1>8, <1>9 DEF Next, Poller, Collector

\* A command that is satisfied with a current workload has seen it in a
\* generation that was completely rolled out, of any number of replicas.
THEOREM ExitMeansRolledOutHolds == Spec => ExitMeansRolledOut
<1>1. Init => SeenInv
  BY SeenInvInit
<1>2. SeenInv /\ [Next]_vars => SeenInv'
  BY SeenInvStep
<1>3. SeenInv /\ [Next]_vars =>
         (~satisfied /\ satisfied' /\ cmd.until = "current" /\ "workload" \in Range(cmd.ids)
              => coll["workload"].gen \in rolledOut)
  <2> SUFFICES ASSUME SeenInv, [Next]_vars, ~satisfied, satisfied', cmd.until = "current",
                      "workload" \in Range(cmd.ids)
               PROVE  coll["workload"].gen \in rolledOut
    OBVIOUS
  <2>1. Observes
    BY DEF Next, Poller, Validate, SyncLists, PollReads, PollEnds, Waits, Collector, Update,
           SendsError, Reports, Returns, DeadlineOrInterrupt, World, OtherChanges, vars, collVars
  <2>2. Enough({coll[id].st : id \in Range(cmd.ids)})
    BY <2>1 DEF Observes
  <2>3. Aggregate({coll[id].st : id \in Range(cmd.ids)}, "Current") = "Current"
    BY <2>2 DEF Enough
  <2>4. {coll[id].st : id \in Range(cmd.ids)} \subseteq {"Current"}
    BY <2>3 DEF Aggregate
  <2>5. coll["workload"].st = "Current"
    BY <2>4
  <2> QED
    BY <2>5 DEF SeenInv, Earned
<1> QED
  BY <1>1, <1>2, <1>3, PTL DEF Spec, ExitMeansRolledOut

----------------------------------------------------------------------------
(* The keys of a pass.                                                     *)

\* A set of numbers with 1 and the successors of its members is all of them.
LEMMA FromOne ==
    ASSUME NEW N \in Nat, NEW B, N >= 1 => 1 \in B, \A n \in B : n \in 1 .. N - 1 => n + 1 \in B
    PROVE  1 .. N \subseteq B
<1>1. SUFFICES ASSUME (1 .. N) \ B # {} PROVE FALSE
  OBVIOUS
<1>2. (1 .. N) \ B \in SUBSET Nat
  OBVIOUS
<1>3. PICK m \in (1 .. N) \ B : \A k \in (1 .. N) \ B : m <= k
  BY <1>1, <1>2, LeastOne
<1>4. m # 1 /\ m - 1 \in 1 .. N - 1
  BY <1>3
<1>5. m - 1 \notin (1 .. N) \ B
  BY <1>3, <1>4
<1>6. m - 1 \in B /\ (m - 1) + 1 = m
  BY <1>3, <1>4, <1>5
<1> QED
  BY <1>3, <1>4, <1>6

\* The sequences of s up to the i-th, one after the other, where f has those up
\* to the one before.
JoinedAt(f, s, i) == IF i = 1 THEN s[i] ELSE f[i - 1] \o s[i]

\* The recursive function of FlattenSeq exists.
LEMMA JoinedExist ==
    ASSUME NEW s, NEW N \in Nat, N >= 1
    PROVE  \E f : f = [i \in 1 .. N |-> JoinedAt(f, s, i)]
<1> DEFINE Solved(n) == \E f : f = [i \in 1 .. n |-> JoinedAt(f, s, i)]
           B == {n \in 1 .. N : Solved(n)}
<1>1. 1 \in B
  <2> DEFINE f == [i \in 1 .. 1 |-> s[i]]
  <2>1. f = [i \in 1 .. 1 |-> JoinedAt(f, s, i)]
    BY DEF JoinedAt
  <2> QED
    BY <2>1
<1>2. ASSUME NEW n \in B, n \in 1 .. N - 1 PROVE n + 1 \in B
  <2>1. PICK f : f = [i \in 1 .. n |-> JoinedAt(f, s, i)]
    OBVIOUS
  <2> DEFINE h == [i \in 1 .. n + 1 |-> IF i = n + 1 THEN f[n] \o s[n + 1] ELSE f[i]]
  <2>2. n \in Nat \ {0} /\ \A i \in 1 .. n + 1 : i # n + 1 => i \in 1 .. n
    BY <1>2
  <2>3. ASSUME NEW i \in 1 .. n + 1 PROVE h[i] = JoinedAt(h, s, i)
    <3>1. CASE i = n + 1
      <4>1. i # 1 /\ i - 1 = n /\ n # n + 1 /\ n \in 1 .. n + 1
        BY <2>2, <3>1
      <4>2. h[n] = f[n] /\ h[i] = f[n] \o s[i]
        BY <3>1, <4>1
      <4> QED
        BY <4>1, <4>2 DEF JoinedAt
    <3>2. CASE i # n + 1
      <4>1. i \in 1 .. n /\ h[i] = f[i] /\ f[i] = JoinedAt(f, s, i)
        BY <2>1, <2>2, <3>2
      <4>2. i # 1 => i - 1 \in 1 .. n + 1 /\ i - 1 # n + 1 /\ h[i - 1] = f[i - 1]
        BY <2>2, <4>1
      <4> QED
        BY <4>1, <4>2 DEF JoinedAt
    <3> QED
      BY <3>1, <3>2
  <2>4. h = [i \in 1 .. n + 1 |-> h[i]]
    OBVIOUS
  <2> HIDE DEF h
  <2>5. h = [i \in 1 .. n + 1 |-> JoinedAt(h, s, i)]
    BY <2>3, <2>4
  <2>6. n + 1 \in 1 .. N
    BY <1>2, <2>2
  <2> QED
    BY <2>5, <2>6
<1> HIDE DEF B
<1>3. 1 .. N \subseteq B
  BY <1>1, <1>2, FromOne
<1>4. N \in B
  BY <1>3
<1> QED
  BY <1>4 DEF B

\* What is polled of identifiers is a list of keys with one for each at least.
LEMMA FlattenIsLong ==
    ASSUME NEW S, NEW s, NEW N \in Nat, DOMAIN s = 1 .. N, Len(s) = N, N >= 1,
           \A i \in 1 .. N : s[i] \in Seq(S) /\ Len(s[i]) >= 1
    PROVE  FlattenSeq(s) \in Seq(S) /\ Len(FlattenSeq(s)) >= N
<1> DEFINE g == CHOOSE f : f = [i \in 1 .. N |-> IF i = 1 THEN s[i] ELSE f[i - 1] \o s[i]]
<1>1. FlattenSeq(s) = g[N]
  BY DEF FlattenSeq
<1>2. g = [i \in 1 .. N |-> JoinedAt(g, s, i)]
  BY JoinedExist DEF JoinedAt
<1> HIDE DEF g
<1> DEFINE B == {i \in 1 .. N : g[i] \in Seq(S) /\ Len(g[i]) >= i}
<1>3. 1 \in B
  BY <1>2 DEF JoinedAt
<1>4. ASSUME NEW i \in B, i \in 1 .. N - 1 PROVE i + 1 \in B
  <2>1. i + 1 \in 1 .. N /\ i + 1 # 1 /\ (i + 1) - 1 = i
    BY <1>4
  <2>2. g[i + 1] = g[i] \o s[i + 1]
    BY <1>2, <2>1 DEF JoinedAt
  <2>3. g[i] \in Seq(S) /\ Len(g[i]) >= i /\ s[i + 1] \in Seq(S) /\ Len(s[i + 1]) >= 1
    BY <2>1
  <2>4. g[i + 1] \in Seq(S) /\ Len(g[i + 1]) = Len(g[i]) + Len(s[i + 1])
    BY <2>2, <2>3, ConcatProperties
  <2>5. Len(g[i]) \in Nat /\ Len(s[i + 1]) \in Nat
    BY <2>3
  <2> QED
    <3>0. \A a, b, c \in Nat : a >= i /\ b >= 1 /\ c = a + b /\ i \in Nat => c >= i + 1
      OBVIOUS
    <3>1. Len(g[i + 1]) >= i + 1
      <4>1. i \in Nat
        BY <1>4
      <4>2. Len(g[i + 1]) \in Nat
        <5>1. \A q \in Seq(S) : Len(q) \in Nat
          OBVIOUS
        <5>2. g[i + 1] \in Seq(S)
          BY <2>4
        <5> QED
          BY <5>1, <5>2, Zenon
      <4> QED
        BY <2>3, <2>4, <2>5, <3>0, <4>1, <4>2
    <3> QED
      BY <2>1, <2>4, <3>1
<1> HIDE DEF B
<1>5. 1 .. N \subseteq B
  BY <1>3, <1>4, FromOne
<1>6. N \in B
  BY <1>5
<1> QED
  BY <1>1, <1>6 DEF B

\* The keys of the identifiers given to a command, as many of them as identifiers or more.
LEMMA KeysOfIds ==
    ASSUME NEW ids \in Seq(Ids)
    PROVE  Len(KeysOf(ids)) \in Nat /\ Len(KeysOf(ids)) >= Len(ids)
<1> DEFINE s == [i \in DOMAIN ids |-> Listed(ids[i])]
<1>1. Len(ids) \in Nat /\ DOMAIN ids = 1 .. Len(ids)
  OBVIOUS
<1>2. \A id : Listed(id) \in Seq(Keys) /\ Len(Listed(id)) >= 1
  <2>1. /\ <<"other">> \in Seq(Keys) /\ <<"workload", "rs", "pods">> \in Seq(Keys)
        /\ <<"workload", "pods">> \in Seq(Keys) /\ <<"workload">> \in Seq(Keys)
    BY DEF Keys
  <2> QED
    BY <2>1 DEF Listed
<1>3. DOMAIN s = 1 .. Len(ids) /\ \A i \in 1 .. Len(ids) : s[i] = Listed(ids[i])
  BY <1>1
<1>4. s \in Seq(Seq(Keys)) /\ Len(s) = Len(ids)
  BY <1>1, <1>2
<1>5. KeysOf(ids) = FlattenSeq(s)
  BY DEF KeysOf
<1> HIDE DEF s
<1>6. CASE Len(ids) = 0
  <2>1. KeysOf(ids) = s
    BY <1>4, <1>5, <1>6 DEF FlattenSeq
  <2> QED
    BY <1>1, <1>4, <2>1
<1>7. CASE Len(ids) >= 1
  <2>1. \A i \in 1 .. Len(ids) : s[i] \in Seq(Keys) /\ Len(s[i]) >= 1
    BY <1>2, <1>3
  <2>2. FlattenSeq(s) \in Seq(Keys) /\ Len(FlattenSeq(s)) >= Len(ids)
    BY <1>1, <1>3, <1>4, <1>7, <2>1, FlattenIsLong
  <2> QED
    BY <1>5, <2>2
<1> QED
  BY <1>1, <1>6, <1>7

----------------------------------------------------------------------------
(* The types.                                                              *)

\* The first index at which a rule applies is one at which it applies.
LEMMA FirstHit ==
    ASSUME NEW hits \in SUBSET Nat, hits # {}
    PROVE  (CHOOSE i \in hits : \A j \in hits : i <= j) \in hits
BY LeastOne

\* The rule of a kind comes to a status, and that of Pods to one or to an error.
LEMMA LegacyOfObject ==
    ASSUME NEW u, IsObject(u)
    PROVE  /\ Legacy(u) \in Statuses \cup {"error"}
           /\ u.kind # "Pod" => Legacy(u) \in Statuses
<1>0. DOMAIN u.conds \subseteq Nat
  BY DEF IsObject
<1>1. stsConditions(u) \in Statuses
  BY DEF stsConditions, CurrentUnless, Statuses
<1>2. deploymentConditions(u) \in Statuses
  BY DEF deploymentConditions, CurrentUnless, Statuses
<1>3. replicasetConditions(u) \in Statuses /\ daemonsetConditions(u) \in Statuses
  BY DEF replicasetConditions, daemonsetConditions, CurrentUnless, Statuses
<1>4. pvcConditions(u) \in Statuses /\ serviceConditions(u) \in Statuses
  BY DEF pvcConditions, serviceConditions, CurrentUnless, Statuses
<1>5. podConditions(u) \in Statuses \cup {"error"}
  <2> DEFINE R(c) == IF c.type # "PodScheduled" \/ c.status # "False" THEN "none"
                     ELSE IF c.reason = "Unschedulable" /\ Field(u, "aged", FALSE)
                          THEN "Failed" ELSE "InProgress"
             hits == {i \in DOMAIN u.conds : R(u.conds[i]) # "none"}
             first == CHOOSE i \in hits : \A j \in hits : i <= j
  <2>1. podConditions(u) \in {"Current", "Failed", "InProgress", "error"}
        \/ (hits # {} /\ podConditions(u) = R(u.conds[first]))
    BY DEF podConditions, FirstCond
  <2>2. hits # {} => first \in hits
    <3> HIDE DEF hits
    <3>1. hits \subseteq Nat
      BY <1>0 DEF hits
    <3> QED
      BY <3>1, FirstHit
  <2>3. hits # {} => R(u.conds[first]) # "none"
    BY <2>2
  <2> QED
    BY <2>1, <2>3 DEF Statuses
<1>6. jobConditions(u) \in Statuses
  <2> DEFINE R(c) == IF c.status # "True" THEN "none"
                     ELSE IF c.type = "Complete" THEN "Current"
                     ELSE IF c.type = "Failed" THEN "Failed"
                     ELSE IF c.type = "Suspended" /\ Field(u, "suspend", FALSE)
                          THEN "Current" ELSE "none"
             hits == {i \in DOMAIN u.conds : R(u.conds[i]) # "none"}
             first == CHOOSE i \in hits : \A j \in hits : i <= j
  <2>1. jobConditions(u) \in {"Current", "InProgress"}
        \/ (hits # {} /\ jobConditions(u) = R(u.conds[first]))
    BY DEF jobConditions, FirstCond, CurrentUnless
  <2>2. hits # {} => first \in hits
    <3> HIDE DEF hits
    <3>1. hits \subseteq Nat
      BY <1>0 DEF hits
    <3> QED
      BY <3>1, FirstHit
  <2>3. hits # {} => R(u.conds[first]) # "none"
    BY <2>2
  <2> QED
    BY <2>1, <2>3 DEF Statuses
<1>7. CRDConditions(u) \in Statuses
  <2> DEFINE R(c) == IF c.type = "NamesAccepted" /\ c.status = "False" THEN "Failed"
                     ELSE IF c.type # "Established" THEN "none"
                     ELSE IF c.status = "False" /\ c.reason # "Installing" THEN "Failed"
                     ELSE IF c.status = "True" THEN "Current" ELSE "none"
             hits == {i \in DOMAIN u.conds : R(u.conds[i]) # "none"}
             first == CHOOSE i \in hits : \A j \in hits : i <= j
  <2>1. CRDConditions(u) = "InProgress" \/ (hits # {} /\ CRDConditions(u) = R(u.conds[first]))
    BY DEF CRDConditions, FirstCond
  <2>2. hits # {} => first \in hits
    <3> HIDE DEF hits
    <3>1. hits \subseteq Nat
      BY <1>0 DEF hits
    <3> QED
      BY <3>1, FirstHit
  <2>3. hits # {} => R(u.conds[first]) # "none"
    BY <2>2
  <2> QED
    BY <2>1, <2>3 DEF Statuses
<1>8. checkReadyCondition(u) \in Statuses
  <2> DEFINE R(c) == IF c.type # "Ready" THEN "none"
                     ELSE IF c.status = "True" THEN "Current"
                     ELSE IF c.status \in {"False", "Unknown"} THEN "InProgress" ELSE "none"
             hits == {i \in DOMAIN u.conds : R(u.conds[i]) # "none"}
             first == CHOOSE i \in hits : \A j \in hits : i <= j
  <2>1. checkReadyCondition(u) = "Current"
        \/ (hits # {} /\ checkReadyCondition(u) = R(u.conds[first]))
    BY DEF checkReadyCondition, FirstCond
  <2>2. hits # {} => first \in hits
    <3> HIDE DEF hits
    <3>1. hits \subseteq Nat
      BY <1>0 DEF hits
    <3> QED
      BY <3>1, FirstHit
  <2>3. hits # {} => R(u.conds[first]) # "none"
    BY <2>2
  <2> QED
    BY <2>1, <2>3 DEF Statuses
<1>9. "Current" \in Statuses
  BY DEF Statuses
<1> QED
  BY <1>1, <1>2, <1>3, <1>4, <1>5, <1>6, <1>7, <1>8, <1>9 DEF Legacy

\* The status of an object is one of the statuses or an error.
LEMMA ComputeOfObject ==
    ASSUME NEW u, IsObject(u)
    PROVE  /\ Compute(u) \in Statuses \cup {"error"}
           /\ u.kind # "Pod" => Compute(u) \in Statuses
<1>1. checkGenericProperties(u) \in Statuses \cup {"none"}
  BY DEF checkGenericProperties, FirstCond, Statuses
<1> QED
  BY <1>1, LegacyOfObject DEF Compute

\* A status reader returns a status of its list, or ends the pass.
LEMMA ReadStatusType ==
    ASSUME NEW id, NEW c, NEW m, NEW g,
           c[id].err = "none" => c[id].val = Absent \/ IsObject(c[id].val)
    PROVE  ReadStatus(id, c, m, g).st \in Statuses \cup {"stop"}
<1> DEFINE Fine(s) == s.st \in Statuses \cup {"stop"}
           u == c[id].val
<1>1. \A e, gen : Fine(Failed(e, gen))
  BY DEF Failed, Statuses
<1>2. \A e, x : Fine(FailedObject(e, x))
  BY <1>1 DEF FailedObject
<1>3. \A x, st : st \in Statuses => Fine(Status(x, st))
  BY DEF Status
<1>4. Fine([Unpolled EXCEPT !.st = "NotFound"])
  BY DEF Unpolled, Statuses
<1> HIDE DEF Fine, u
<1>5. IsObject(u) => Fine(GenericStatus(u))
  BY <1>2, <1>3, ComputeOfObject DEF GenericStatus
<1>6. IsObject(u) /\ u.kind # "Pod" => Fine(PodController(u, c, g))
  <2>1. \/ \E e : PodController(u, c, g) = FailedObject(e, u)
        \/ PodController(u, c, g) = Status(u, "Failed")
        \/ PodController(u, c, g) = Status(u, Compute(u))
    BY DEF PodController
  <2>2. "Failed" \in Statuses
    BY DEF Statuses
  <2> QED
    BY <1>2, <1>3, <2>1, <2>2, ComputeOfObject
<1>7. IsObject(u) => Fine(DeploymentStatus(u, c, g))
  BY <1>2, <1>5 DEF DeploymentStatus
<1>8. IsObject(u) => Fine(StatusForObject(id, c, g))
  BY <1>5, <1>6, <1>7 DEF StatusForObject, ReplicaSetStatus, StatefulSetStatus, u
<1>9. Fine(ReadStatus(id, c, m, g))
  <2>1. CASE Get(id, c, m).err # "none"
    BY <1>1, <2>1 DEF ReadStatus
  <2>2. CASE Get(id, c, m).err = "none"
    <3>1. Get(id, c, m) = c[id] /\ c[id].err = "none"
      BY <2>2 DEF Get, Entry
    <3> QED
      BY <1>4, <1>8, <3>1 DEF ReadStatus, u
  <2> QED
    BY <2>1, <2>2
<1> QED
  BY <1>9 DEF Fine

\* A call that fails has a fault left to fail with.
LEMMA CostsFit ==
    ASSUME faults \in Nat, NEW key, NEW m \in Mapping(key)
    PROVE  Costs(key, m) \in 0 .. faults /\ (m = "none" => Costs(key, m) = 0)
BY DEF Mapping, Costs

\* The position is one of an identifier or of a key, by where the poller is.
PlaceOK ==
    /\ pc \in {"validate", "sync", "poll", "send", "wait", "fail", "closed"}
    /\ pos \in 1 .. Len(KeysOf(cmd.ids)) + 1
    /\ pc = "validate" => pos <= Len(cmd.ids)
    /\ pc = "poll" => pos <= Len(cmd.ids) + 1
    /\ faults \in 0 .. cmd.faults

\* What is in the cache is an object, and what is known of it a status.
KnownOK ==
    /\ DOMAIN cache = Keys /\ DOMAIN coll = Ids /\ DOMAIN prev = Ids
    /\ \A id \in Ids : coll[id].st \in Statuses \cup {"unsent"}
    /\ \A id \in Ids : prev[id].st \in Statuses \cup {"unsent"}
    /\ \A id \in Ids :
          cache[id].err = "none" => (cache[id].val = Absent \/ IsObject(cache[id].val))
    /\ sending.st \in Statuses \cup {"unsent"}

EndOK ==
    /\ err \in Errors \cup {"none", "dropped"} /\ collErr \in Errors \cup {"none"}
    /\ collPc \in {"idle", "report", "observe"}
    /\ ctxDone \in BOOLEAN /\ satisfied \in BOOLEAN
    /\ result \in {"running", "nil"} \cup Errors

PollInv == SeenInv /\ FollowInv /\ ErrInv /\ WorldInv /\ PlaceOK /\ KnownOK /\ EndOK

\* The poller starts before its first key.
LEMMA PollInvInit == Init => PollInv
<1> SUFFICES ASSUME Init PROVE PollInv
  OBVIOUS
<1>1. SeenInv /\ FollowInv /\ ErrInv /\ WorldInv
  BY SeenInvInit, FollowInvInit, ErrInvInit, WorldInvInit
<1>2. cmd.ids \in Seq(Ids) /\ cmd.faults \in Nat
  BY PollAssumption DEF Init
<1>3. PlaceOK
  <2>1. Len(KeysOf(cmd.ids)) \in Nat /\ Len(cmd.ids) \in Nat
    BY <1>2, KeysOfIds
  <2>2. cmd.ids # << >> => Len(cmd.ids) >= 1
    BY <1>2
  <2>3. /\ pos = 1 /\ faults = cmd.faults
        /\ pc = "closed" \/ (pc = "validate" /\ cmd.ids # << >>)
    BY DEF Init
  <2> QED
    BY <1>2, <2>1, <2>2, <2>3 DEF PlaceOK
<1>4. KnownOK
  <2>1. /\ cache = [k \in Keys |-> [err |-> "not in cache", val |-> "none"]]
        /\ prev = [id \in Ids |-> Unsent] /\ coll = [id \in Ids |-> Unpolled]
        /\ sending = Unpolled
    BY DEF Init, NoCache
  <2>2. Unpolled.st = "Unknown" /\ Unsent.st = "unsent"
    BY DEF Unpolled, Unsent
  <2>3. Ids \subseteq Keys
    BY DEF Ids, Keys
  <2> QED
    BY <2>1, <2>2, <2>3 DEF KnownOK, Statuses
<1>5. EndOK
  BY DEF Init, EndOK, Errors
<1> QED
  BY <1>1, <1>3, <1>4, <1>5 DEF PollInv

\* The poller moves within its lists.
LEMMA PlaceStep ==
    ASSUME PollInv, [Next]_vars
    PROVE  PlaceOK'
<1>0. /\ cmd.ids \in Seq(Ids) /\ cmd.faults \in Nat /\ cmd' = cmd
      /\ Len(cmd.ids) \in Nat
      /\ Len(KeysOf(cmd.ids)) \in Nat /\ Len(KeysOf(cmd.ids)) >= Len(cmd.ids)
  <2>1. cmd.ids \in Seq(Ids) /\ cmd.faults \in Nat
    BY PollAssumption DEF PollInv, WorldInv
  <2>2. cmd' = cmd
    BY DEF Next, Poller, Validate, SyncLists, PollReads, PollEnds, Waits, Collector, Update,
           SendsError, Reports, Observes, Returns, DeadlineOrInterrupt, World, OtherChanges, vars
  <2> QED
    BY <2>1, <2>2, KeysOfIds
<1>f. faults \in Nat /\ faults <= cmd.faults
  BY <1>0 DEF PollInv, PlaceOK
<1> DEFINE k == Len(KeysOf(cmd.ids))
           n == Len(cmd.ids)
<1>k. k \in Nat /\ n \in Nat /\ k >= n /\ k' = k
  <2>1. kind' = kind
    BY DEF Next, Poller, Validate, SyncLists, PollReads, PollEnds, Waits, Collector, Update,
           SendsError, Reports, Observes, Returns, DeadlineOrInterrupt, World, OtherChanges, vars,
           worldVars, rolloutVars, RolloutNext, UserUpdates, ControllerObserves, ControllerWrites,
           ControllerCreates, ControllerDeletes, PodStarts, PodCrashes, PodChanges
  <2>2. KeysOf(cmd.ids)' = KeysOf(cmd.ids)
    BY <1>0, <2>1 DEF KeysOf, Listed
  <2> QED
    BY <1>0, <2>2
<1>p. pos \in 1 .. k + 1
  BY DEF PollInv, PlaceOK
<1>1. CASE Validate
  <2>1. PICK m \in Mapping(cmd.ids[pos]) :
           /\ faults' = faults - Costs(cmd.ids[pos], m)
           /\ \/ pc' = "fail" /\ pos' = 1
              \/ pc' = "validate" /\ pos' = pos + 1 /\ pos < n
              \/ pc' = "sync" /\ pos' = 1
    BY <1>1 DEF Validate, Faulty, Fails, Goto
  <2>2. faults' \in 0 .. cmd.faults
    BY <1>0, <1>f, <2>1, CostsFit
  <2> HIDE DEF k, n
  <2> QED
    BY <1>0, <1>k, <1>p, <2>1, <2>2 DEF PlaceOK, k, n
<1>2. CASE SyncLists
  <2> DEFINE key == KeysOf(cmd.ids)[pos]
  <2>1. /\ \/ faults' = faults
           \/ \E m \in Mapping(key) : faults' = faults - Costs(key, m)
           \/ faults > 0 /\ faults' = faults - 1
        /\ \/ pc' \in {"fail", "closed", "poll"} /\ pos' = 1
           \/ pc' = "sync" /\ pos' = pos + 1 /\ pos < k
    BY <1>2 DEF SyncLists, HandleSyncAndPollErr, Faulty, Fails, Goto
  <2> HIDE DEF key
  <2>2. faults' \in 0 .. cmd.faults
    BY <1>0, <1>f, <2>1, CostsFit
  <2> HIDE DEF k, n
  <2> QED
    BY <1>0, <1>k, <1>p, <2>1, <2>2 DEF PlaceOK, k, n
<1>3. CASE PollReads
  <2> DEFINE id == cmd.ids[pos]
  <2>1. PICK m \in Mapping(id) : \E g \in MappingOfGenerated(id, m) :
           /\ faults' = faults - (Costs(id, m) + Costs("pods", g))
           /\ \/ pc' = "fail" /\ pos' = 1
              \/ pc' = "closed" /\ pos' = 1
              \/ pc' = "send" /\ pos' = pos
              \/ pc' = "poll" /\ pos' = pos + 1
    BY <1>3 DEF PollReads, HandleSyncAndPollErr, Faulty, Fails, Goto
  <2>2. PICK g \in MappingOfGenerated(id, m) :
           /\ faults' = faults - (Costs(id, m) + Costs("pods", g))
           /\ \/ pc' = "fail" /\ pos' = 1
              \/ pc' = "closed" /\ pos' = 1
              \/ pc' = "send" /\ pos' = pos
              \/ pc' = "poll" /\ pos' = pos + 1
    BY <2>1
  <2> HIDE DEF id
  <2>3. Costs(id, m) \in 0 .. faults /\ (m = "none" => Costs(id, m) = 0)
    BY <1>f, CostsFit
  <2>4. Costs("pods", g) \in 0 .. faults /\ (m # "none" => Costs("pods", g) = 0)
    <3>1. g = "none" \/ (m = "none" /\ g \in Mapping("pods"))
      BY DEF MappingOfGenerated
    <3>2. Costs("pods", "none") = 0
      BY DEF Costs
    <3> QED
      BY <1>f, <3>1, <3>2, CostsFit
  <2>5. faults' \in 0 .. cmd.faults
    BY <1>0, <1>f, <2>2, <2>3, <2>4
  <2>6. pos <= n
    BY <1>3 DEF PollReads
  <2> HIDE DEF k, n
  <2> QED
    BY <1>0, <1>k, <1>p, <2>2, <2>5, <2>6 DEF PlaceOK, k, n
<1>4. CASE PollEnds \/ Waits \/ SendsError
  <2>1. faults' = faults /\ pos' = 1 /\ pc' \in {"closed", "wait", "sync"}
    BY <1>4 DEF PollEnds, Waits, SendsError, Goto
  <2> HIDE DEF k, n
  <2> QED
    BY <1>0, <1>f, <1>k, <2>1 DEF PlaceOK, k, n
<1>5. CASE Update
  <2>1. faults' = faults /\ pos' = pos + 1 /\ pc' = "poll" /\ pos <= n
    BY <1>5 DEF Update, Goto, PollInv, FollowInv
  <2> HIDE DEF k, n
  <2> QED
    BY <1>0, <1>f, <1>k, <1>p, <2>1 DEF PlaceOK, k, n
<1>6. CASE UNCHANGED <<pc, pos, faults>>
  BY <1>0, <1>k, <1>6 DEF PollInv, PlaceOK
<1>7. Reports \/ Observes \/ Returns \/ DeadlineOrInterrupt \/ World \/ UNCHANGED vars
          => UNCHANGED <<pc, pos, faults>>
  BY DEF Reports, Observes, Returns, DeadlineOrInterrupt, World, OtherChanges, vars, pollVars
<1> QED
  BY <1>1, <1>2, <1>3, <1>4, <1>5, <1>6, <1>7 DEF Next, Poller, Collector

\* What is listed is an object, and what is sent a status.
LEMMA KnownStep ==
    ASSUME PollInv, [Next]_vars
    PROVE  KnownOK'
<1>i. Ids \subseteq Keys
  BY DEF Ids, Keys
<1>1. CASE SyncLists
  <2> DEFINE key == KeysOf(cmd.ids)[pos]
  <2>1. \/ cache' = cache
        \/ cache' = [cache EXCEPT ![key] = Entry("none", ListNow(key))]
        \/ \E e, v : e # "none" /\ cache' = [cache EXCEPT ![key] = Entry(e, v)]
    BY <1>1, Zenon DEF SyncLists
  <2>2. UNCHANGED <<coll, prev, sending>>
    BY <1>1 DEF SyncLists, collVars
  <2> HIDE DEF key
  <2>3. DOMAIN cache' = Keys
    BY <2>1 DEF PollInv, KnownOK
  <2>4. ASSUME NEW id \in Ids, cache'[id].err = "none"
        PROVE  cache'[id].val = Absent \/ IsObject(cache'[id].val)
    <3>1. \/ cache'[id] = cache[id]
          \/ cache'[id] = Entry("none", ListNow(id))
          \/ \E e, v : e # "none" /\ cache'[id] = Entry(e, v)
      BY <1>i, <2>1 DEF PollInv, KnownOK
    <3>2. ListNow(id) = Absent \/ IsObject(ListNow(id))
      BY WorkloadIsObject DEF Ids, ListNow, PollInv, WorldInv
    <3> QED
      <4>1. CASE cache'[id] = cache[id]
        BY <2>4, <4>1 DEF PollInv, KnownOK
      <4>2. CASE cache'[id] = Entry("none", ListNow(id))
        <5>1. cache'[id].val = ListNow(id)
          BY <4>2 DEF Entry
        <5> QED
          BY <5>1, <3>2
      <4>3. ASSUME NEW e, NEW v, e # "none", cache'[id] = Entry(e, v)
            PROVE  FALSE
        <5>1. cache'[id].err = e
          BY <4>3 DEF Entry
        <5> QED
          BY <2>4, <4>3, <5>1
      <4> QED
        BY <3>1, <4>1, <4>2, <4>3
  <2> QED
    BY <2>2, <2>3, <2>4 DEF PollInv, KnownOK
<1>2. CASE PollReads
  <2> DEFINE id == cmd.ids[pos]
  <2>1. /\ UNCHANGED <<cache, coll>>
        /\ \/ UNCHANGED <<prev, sending>>
           \/ \E m, g : /\ ReadStatus(id, cache, m, g).st # "stop"
                        /\ sending' = ReadStatus(id, cache, m, g)
                        /\ prev' = [prev EXCEPT ![id] = sending']
    BY <1>2 DEF PollReads, collVars
  <2>2. id \in Ids
    BY <1>2 DEF PollReads, PollInv, FollowInv
  <2> HIDE DEF id
  <2>3. CASE UNCHANGED <<prev, sending>>
    BY <2>1, <2>3 DEF PollInv, KnownOK
  <2>4. ASSUME NEW m, NEW g, ReadStatus(id, cache, m, g).st # "stop",
               sending' = ReadStatus(id, cache, m, g), prev' = [prev EXCEPT ![id] = sending']
        PROVE  KnownOK'
    <3>1. sending'.st \in Statuses
      BY <2>2, <2>4, ReadStatusType DEF PollInv, KnownOK
    <3>2. DOMAIN prev' = Ids /\ \A x \in Ids : prev'[x] = prev[x] \/ prev'[x] = sending'
      BY <2>4 DEF PollInv, KnownOK
    <3> QED
      BY <2>1, <3>1, <3>2 DEF PollInv, KnownOK
  <2> QED
    BY <2>1, <2>3, <2>4
<1>3. CASE Update
  <2>1. UNCHANGED <<cache, prev>> /\ sending' = Unpolled /\ coll' = [coll EXCEPT ![cmd.ids[pos]] = sending]
    BY <1>3 DEF Update
  <2>2. DOMAIN coll' = Ids /\ \A x \in Ids : coll'[x] = coll[x] \/ coll'[x] = sending
    BY <2>1 DEF PollInv, KnownOK
  <2>3. sending'.st \in Statuses
    BY <2>1 DEF Unpolled, Statuses
  <2> QED
    BY <2>1, <2>2, <2>3 DEF PollInv, KnownOK
<1>4. CASE Waits
  <2>1. cache' = NoCache /\ UNCHANGED <<prev, coll, sending>>
    BY <1>4 DEF Waits, collVars
  <2>2. DOMAIN cache' = Keys /\ \A id \in Ids : cache'[id].err # "none"
    BY <1>i, <2>1 DEF NoCache
  <2> QED
    BY <2>1, <2>2 DEF PollInv, KnownOK
<1>5. CASE UNCHANGED <<cache, coll, prev, sending>>
  BY <1>5 DEF PollInv, KnownOK
<1>6. Validate \/ PollEnds \/ SendsError \/ Reports \/ Observes \/ Returns \/ DeadlineOrInterrupt
          \/ World \/ UNCHANGED vars
          => UNCHANGED <<cache, coll, prev, sending>>
  BY DEF Validate, PollEnds, SendsError, Reports, Observes, Returns, DeadlineOrInterrupt, World,
         OtherChanges, vars, collVars, pollVars
<1> QED
  BY <1>1, <1>2, <1>3, <1>4, <1>5, <1>6 DEF Next, Poller, Collector

\* The end of the pass and what the collector knows of it keep their types.
LEMMA EndStep ==
    ASSUME PollInv, [Next]_vars
    PROVE  EndOK'
<1>0. ErrInv' /\ ErrInv
  BY ErrInvStep DEF PollInv
<1>1. err' \in Errors \cup {"none", "dropped"}
  <2>1. Validate => err' = err \/ err' \in {"mapping", "deadline", "invalid"}
    BY DEF Validate, Fails, Goto
  <2>2. SyncLists => err' = err \/ err' \in {"mapping", "dropped"}
    BY DEF SyncLists, Mapping, HandleSyncAndPollErr, Fails, Goto
  <2>3. PollReads => err' = err \/ err' = "dropped" \/ pc' = "fail"
    BY DEF PollReads, HandleSyncAndPollErr, Fails, Goto
  <2>4. ~(Validate \/ SyncLists \/ PollReads) => err' = err
    BY DEF Next, Poller, PollEnds, Waits, Collector, Update, SendsError, Reports, Observes, Returns,
           DeadlineOrInterrupt, World, OtherChanges, vars, pollVars
  <2>5. pc' = "fail" => err' \in Errors
    BY <1>0 DEF ErrInv
  <2>6. {"mapping", "deadline", "invalid"} \subseteq Errors
    BY DEF Errors
  <2> QED
    BY <2>1, <2>2, <2>3, <2>4, <2>5, <2>6 DEF PollInv, EndOK
<1>2. /\ collErr' = collErr \/ (pc = "fail" /\ collErr' = err)
      /\ collPc' = collPc \/ collPc' \in {"idle", "report", "observe"}
      /\ result' = result \/ result' = "nil" \/ (collPc = "report" /\ result' = collErr)
      /\ ctxDone' = ctxDone \/ ctxDone' \in BOOLEAN
      /\ satisfied' = satisfied \/ satisfied' \in BOOLEAN
  BY DEF Next, Poller, Validate, SyncLists, PollReads, PollEnds, Waits, Collector, Update,
         SendsError, Reports, Observes, Returns, DeadlineOrInterrupt, World, OtherChanges, vars,
         collVars
<1>3. (collPc = "report" => collErr \in Errors) /\ (pc = "fail" => err \in Errors)
  BY <1>0 DEF ErrInv
<1> QED
  BY <1>1, <1>2, <1>3 DEF PollInv, EndOK

\* The types of the cluster, the poller, the collector and the command.
THEOREM PollingTypeCorrect == Spec => []PollingTypeOK
<1>1. Init => PollInv
  BY PollInvInit
<1>2. PollInv /\ [Next]_vars => PollInv'
  BY SeenInvStep, FollowInvStep, ErrInvStep, WorldInvStep, PlaceStep, KnownStep, EndStep DEF PollInv
<1>3. PollInv => PollingTypeOK
  BY DEF PollInv, SeenInv, RolloutInv, WorldInv, PlaceOK, KnownOK, EndOK, PollingTypeOK
<1> QED
  BY <1>1, <1>2, <1>3, PTL DEF Spec
====
