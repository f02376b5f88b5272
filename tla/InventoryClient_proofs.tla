----------------------- MODULE InventoryClient_proofs -----------------------
(* Proofs about the inventory client, for any clients, inventories, forms  *)
(* of the object and bounds.                                               *)
EXTENDS InventoryClient, TLAPS, NaturalsInduction, SequenceTheorems, WellFoundedInduction

ObjectFields == {"kind", "rv", "gen", "spec", "status", "observed", "foreign"}
IsObject(o) == o.kind = "inventory" /\ o = [f \in ObjectFields |-> o[f]]

\* The object in the cluster is one the server gave a version to.
ServerInv ==
    /\ clock \in Nat /\ notes \in Nat
    /\ stored # Absent =>
         /\ IsObject(stored)
         /\ stored.rv \in 1 .. clock /\ stored.foreign \in 0 .. notes
         /\ stored.gen \in Nat /\ stored.observed \in ObservedDefault .. stored.gen

\* A copy of the version that is stored is a copy of what is stored: two
\* objects never have one resource version.
CopyInv ==
    \A c \in Clients : obj[c] # Absent =>
        /\ IsObject(obj[c]) /\ obj[c].rv \in 1 .. clock
        /\ stored # Absent /\ stored.rv = obj[c].rv => obj[c] = stored

\* What holds for a client at each place of its call: it has done what comes
\* before.
Progress(c) ==
    /\ pc[c] = "status" => obj[c] # Absent
    /\ pc[c] \in {"get", "write", "getStatus", "status"} => call[c].kind = "write"
    /\ pc[c] = "delete" => call[c].kind = "delete"
    /\ pc[c] \in {"getStatus", "status"} => HasStatus /\ "spec" \in did[c]
    /\ pc[c] = "idle" /\ result[c] = "ok" =>
         \/ call[c].kind = "write" /\ "spec" \in did[c] /\ (HasStatus => "status" \in did[c])
         \/ call[c].kind = "delete" /\ "gone" \in did[c]

ControlTypes ==
    /\ mode \in Modes
    /\ pc \in [Clients -> {"idle", "get", "write", "getStatus", "status", "delete"}]
    /\ attempt \in [Clients -> 0 .. Steps - 1]
    /\ result \in [Clients -> {"none", "ok", "error"}]
    /\ obj = [c \in Clients |-> obj[c]] /\ call = [c \in Clients |-> call[c]]

ControlInv == ControlTypes /\ \A c \in Clients : Progress(c)

ClientInv == ServerInv /\ CopyInv /\ ControlInv

----------------------------------------------------------------------------
(* The API server.                                                         *)

\* What a step may do to the object: nothing, delete it, or store a version
\* that nobody has a copy of.
Versioned ==
    \/ UNCHANGED <<stored, clock>>
    \/ stored' = Absent /\ clock' = clock
    \/ stored' # Absent /\ clock' = clock + 1 /\ stored'.rv = clock'

\* An object of the cluster is told apart from its absence.
LEMMA ObjectIsThere == \A o : IsObject(o) => o # Absent
BY DEF IsObject, Absent

\* Store keeps an object an object, with all its fields but the version.
LEMMA StoreStep ==
    ASSUME clock \in Nat, NEW o, IsObject(o), IsObject(stored), Store(o)
    PROVE  \/ UNCHANGED <<stored, clock>> /\ Fields(o) = Fields(stored)
           \/ /\ clock' = clock + 1 /\ IsObject(stored') /\ stored'.rv = clock'
              /\ stored'.gen = o.gen /\ Fields(stored') = Fields(o)
<1>1. CASE Fields(o) = Fields(stored)
  BY <1>1 DEF Store
<1>2. CASE Fields(o) # Fields(stored)
  <2>1. clock' = clock + 1 /\ stored' = [o EXCEPT !.rv = clock + 1]
    BY <1>2 DEF Store
  <2> QED
    BY <2>1 DEF IsObject, ObjectFields, Fields
<1> QED
  BY <1>1, <1>2

\* An update from a copy of the stored version changes the spec alone.
LEMMA SpecUpdate ==
    ASSUME ServerInv, stored # Absent, NEW c \in Clients, obj[c] = stored,
           NEW spec, UpdateSpec(c, spec), UNCHANGED <<mode, notes>>
    PROVE  /\ ServerInv' /\ Versioned /\ stored' # Absent
           /\ stored'.spec = spec /\ stored'.foreign = stored.foreign
           /\ stored'.observed = stored.observed
           /\ stored'.gen = IF spec = stored.spec THEN stored.gen ELSE stored.gen + 1
<1> DEFINE o == [stored EXCEPT !.spec = spec,
                     !.status = stored.status, !.observed = stored.observed,
                     !.gen = IF spec = stored.spec THEN stored.gen ELSE stored.gen + 1]
<1>1. IsObject(stored) /\ clock \in Nat /\ stored.gen \in Nat
  BY DEF ServerInv
<1>2. /\ IsObject(o) /\ o.spec = spec /\ o.foreign = stored.foreign /\ o.observed = stored.observed
      /\ o.gen = IF spec = stored.spec THEN stored.gen ELSE stored.gen + 1
  BY <1>1 DEF IsObject, ObjectFields
<1>3. Store(o)
  BY DEF UpdateSpec
<1> HIDE DEF o
<1>4. CASE UNCHANGED <<stored, clock>> /\ Fields(o) = Fields(stored)
  BY <1>2, <1>4 DEF Fields, ServerInv, Versioned, ObservedDefault, NoField
<1>5. CASE /\ clock' = clock + 1 /\ IsObject(stored') /\ stored'.rv = clock'
           /\ stored'.gen = o.gen /\ Fields(stored') = Fields(o)
  <2>1. stored'.spec = spec /\ stored'.foreign = stored.foreign /\ stored'.observed = stored.observed
    BY <1>2, <1>5 DEF Fields
  <2>2. stored' # Absent
    BY <1>5, ObjectIsThere
  <2>3. ServerInv'
    BY <1>2, <1>5, <2>1 DEF ServerInv, ObservedDefault, NoField
  <2> QED
    BY <1>2, <1>5, <2>1, <2>2, <2>3 DEF Versioned
<1> QED
  BY <1>1, <1>2, <1>3, <1>4, <1>5, StoreStep

\* A write of the status leaves the rest as it is.
LEMMA StatusUpdate ==
    ASSUME ServerInv, stored # Absent, NEW status,
           NEW observed \in ObservedDefault .. stored.gen,
           UpdateStatus(status, observed), UNCHANGED <<mode, notes>>
    PROVE  /\ ServerInv' /\ Versioned /\ stored' # Absent
           /\ stored'.status = status /\ stored'.foreign = stored.foreign
           /\ stored'.observed = observed /\ stored'.gen = stored.gen /\ stored'.spec = stored.spec
<1> DEFINE o == [stored EXCEPT !.status = status, !.observed = observed]
<1>1. IsObject(stored) /\ clock \in Nat /\ stored.gen \in Nat
  BY DEF ServerInv
<1>2. /\ IsObject(o) /\ o.status = status /\ o.foreign = stored.foreign /\ o.observed = observed
      /\ o.gen = stored.gen /\ o.spec = stored.spec
  BY <1>1 DEF IsObject, ObjectFields
<1>3. Store(o)
  BY DEF UpdateStatus
<1> HIDE DEF o
<1>4. CASE UNCHANGED <<stored, clock>> /\ Fields(o) = Fields(stored)
  BY <1>2, <1>4 DEF Fields, ServerInv, Versioned, ObservedDefault, NoField
<1>5. CASE /\ clock' = clock + 1 /\ IsObject(stored') /\ stored'.rv = clock'
           /\ stored'.gen = o.gen /\ Fields(stored') = Fields(o)
  <2>1. /\ stored'.status = status /\ stored'.foreign = stored.foreign
        /\ stored'.observed = observed /\ stored'.spec = stored.spec
    BY <1>2, <1>5 DEF Fields
  <2>2. stored' # Absent
    BY <1>5, ObjectIsThere
  <2>3. ServerInv'
    BY <1>2, <1>5, <2>1 DEF ServerInv, ObservedDefault, NoField
  <2> QED
    BY <1>2, <1>5, <2>1, <2>2, <2>3 DEF Versioned
<1> QED
  BY <1>1, <1>2, <1>3, <1>4, <1>5, StoreStep

\* A created object is the first version of its generation.
LEMMA Creation ==
    ASSUME ServerInv, NEW spec, CreateObject(spec), UNCHANGED <<mode, notes>>
    PROVE  /\ ServerInv' /\ Versioned /\ stored' # Absent /\ stored'.spec = spec
           /\ stored'.gen = 1 /\ stored'.observed = ObservedDefault
<1>1. IsObject(stored') /\ stored'.spec = spec /\ stored'.rv = clock + 1
      /\ stored'.gen = 1 /\ stored'.observed = ObservedDefault /\ stored'.foreign = 0
  BY DEF CreateObject, IsObject, ObjectFields
<1>2. stored' # Absent
  BY <1>1, ObjectIsThere
<1> QED
  BY <1>1, <1>2 DEF CreateObject, ServerInv, Versioned, ObservedDefault, NoField

\* A copy grows old but never wrong: its version is not given out again.
LEMMA CopyStep ==
    ASSUME ServerInv, ServerInv', CopyInv, Versioned,
           \A d \in Clients : obj'[d] = obj[d] \/ obj'[d] = Absent \/ obj'[d] = stored'
    PROVE  CopyInv'
<1> SUFFICES ASSUME NEW d \in Clients, obj'[d] # Absent
             PROVE  /\ IsObject(obj'[d]) /\ obj'[d].rv \in 1 .. clock'
                    /\ stored' # Absent /\ stored'.rv = obj'[d].rv => obj'[d] = stored'
  BY DEF CopyInv
<1>1. CASE obj'[d] = stored'
  BY <1>1 DEF ServerInv
<1>2. CASE obj'[d] = obj[d]
  BY <1>2 DEF CopyInv, ServerInv, Versioned
<1> QED
  BY <1>1, <1>2

----------------------------------------------------------------------------
(* The clients.                                                            *)

\* A step of c leaves the other clients where they are.
OthersStay(c) ==
    \A d \in Clients \ {c} :
        pc'[d] = pc[d] /\ obj'[d] = obj[d] /\ call'[d] = call[d] /\ result'[d] = result[d]

\* Nothing a client did is forgotten before its next call, and what its step
\* finds in the cluster is noted.
LEMMA DidGrows ==
    ASSUME NEW c, Observe(c), NEW d \in Clients
    PROVE  /\ pc[d] # "idle" \/ pc'[d] = "idle" => did[d] \subseteq did'[d]
           /\ pc[d] # "idle" \/ pc'[d] # "idle" => Holding(d) \subseteq did'[d]
BY DEF Observe

\* The invariant of the clients follows from that of the one that moved.
LEMMA ProgressStep ==
    ASSUME ControlInv, ControlTypes', mode' = mode, NEW c \in Clients, Observe(c),
           OthersStay(c), Progress(c)'
    PROVE  ControlInv'
<1> SUFFICES ASSUME NEW d \in Clients, d # c PROVE Progress(d)'
  BY DEF ControlInv
<1>1. Progress(d)
  BY DEF ControlInv
<1>2. pc'[d] = pc[d] /\ obj'[d] = obj[d] /\ call'[d] = call[d] /\ result'[d] = result[d]
  BY DEF OthersStay
<1>3. did[d] \subseteq did'[d]
  BY <1>2, DidGrows
<1> QED
  BY <1>1, <1>2, <1>3 DEF Progress, HasStatus

\* A call returns.
LEMMA ReturnStep ==
    ASSUME ControlTypes, mode' = mode, NEW c \in Clients,
           NEW r \in {"none", "ok", "error"}, Return(c, r)
    PROVE  /\ ControlTypes' /\ OthersStay(c)
           /\ pc'[c] = "idle" /\ result'[c] = r /\ call' = call /\ obj'[c] = Absent
<1>1. /\ pc' = [pc EXCEPT ![c] = "idle"] /\ result' = [result EXCEPT ![c] = r]
      /\ obj' = [obj EXCEPT ![c] = Absent] /\ attempt' = [attempt EXCEPT ![c] = 0]
      /\ call' = call
  BY DEF Return, Goto
<1>2. 0 \in 0 .. Steps - 1
  BY ClientAssumption
<1> QED
  BY <1>1, <1>2 DEF ControlTypes, OthersStay

\* An attempt met a conflict: it begins again, or its error is returned.
LEMMA RetryStep ==
    ASSUME ControlTypes, mode' = mode, NEW c \in Clients,
           NEW label \in {"get", "getStatus"}, RetryOnConflict(c, label)
    PROVE  /\ ControlTypes' /\ OthersStay(c) /\ call' = call /\ obj'[c] = Absent
           /\ pc'[c] = label \/ (pc'[c] = "idle" /\ result'[c] = "error")
<1>1. CASE attempt[c] + 1 < Steps
  <2>1. /\ pc' = [pc EXCEPT ![c] = label] /\ attempt' = [attempt EXCEPT ![c] = @ + 1]
        /\ obj' = [obj EXCEPT ![c] = Absent] /\ call' = call /\ result' = result
    BY <1>1 DEF RetryOnConflict, Goto
  <2>2. attempt[c] + 1 \in 0 .. Steps - 1
    BY <1>1, ClientAssumption DEF ControlTypes
  <2> QED
    BY <2>1, <2>2 DEF ControlTypes, OthersStay
<1>2. CASE ~(attempt[c] + 1 < Steps)
  BY <1>2, ReturnStep DEF RetryOnConflict
<1> QED
  BY <1>1, <1>2

----------------------------------------------------------------------------
(* One lemma per action: the invariant, and what ForeignKept says.         *)

Kept == stored # Absent /\ stored' # Absent /\ notes' = notes => stored'.foreign = stored.foreign

\* A step that leaves the object alone.
LEMMA QuietStep ==
    ASSUME ClientInv, UNCHANGED <<mode, stored, clock, notes>>, ControlInv',
           \A d \in Clients : obj'[d] = obj[d] \/ obj'[d] = Absent \/ obj'[d] = stored'
    PROVE  ClientInv' /\ Kept
<1>1. ServerInv' /\ Versioned
  BY DEF ClientInv, ServerInv, Versioned, ObservedDefault
<1>2. CopyInv'
  BY <1>1, CopyStep DEF ClientInv
<1> QED
  BY <1>1, <1>2 DEF ClientInv, Kept

\* A call of CreateOrUpdate or Delete begins.
LEMMA BeginStep ==
    ASSUME ClientInv, NEW c \in Clients, Begin(c)
    PROVE  ClientInv' /\ Kept
<1>1. /\ UNCHANGED <<mode, stored, clock, notes, obj, attempt>> /\ Observe(c)
      /\ result' = [result EXCEPT ![c] = "none"]
  BY DEF Begin
<1>2. PICK k, inv :
         /\ k \in {"write", "delete"}
         /\ call' = [call EXCEPT ![c] = [kind |-> k, inv |-> inv]]
         /\ pc' = [pc EXCEPT ![c] = IF k = "write" THEN "get" ELSE "delete"]
  BY DEF Begin, Goto
<1>3. ControlTypes' /\ OthersStay(c)
  BY <1>1, <1>2 DEF ClientInv, ControlInv, ControlTypes, OthersStay
<1>4. Progress(c)'
  BY <1>1, <1>2 DEF ClientInv, ControlInv, ControlTypes, Progress
<1>5. ControlInv'
  BY <1>1, <1>3, <1>4, ProgressStep DEF ClientInv
<1> QED
  BY <1>1, <1>5, QuietStep

\* The Get of an attempt takes a copy, or its error is returned.
LEMMA ReadStep ==
    ASSUME ClientInv, NEW c \in Clients, ReadObject(c)
    PROVE  ClientInv' /\ Kept
<1>1. UNCHANGED <<mode, stored, clock, notes>> /\ Observe(c) /\ pc[c] \in {"get", "getStatus"}
  BY DEF ReadObject
<1>2. ControlTypes /\ Progress(c)
  BY DEF ClientInv, ControlInv
<1>3. CASE Return(c, "error")
  <2>1. ControlTypes' /\ OthersStay(c) /\ pc'[c] = "idle" /\ result'[c] = "error" /\ obj'[c] = Absent
    BY <1>1, <1>2, <1>3, ReturnStep
  <2>2. ControlInv'
    BY <1>1, <2>1, ProgressStep DEF ClientInv, Progress
  <2> QED
    BY <1>1, <2>1, <2>2, QuietStep DEF OthersStay
<1>4. CASE /\ pc[c] = "get" \/ stored # Absent
           /\ obj' = [obj EXCEPT ![c] = stored]
           /\ pc' = [pc EXCEPT ![c] = IF pc[c] = "get" THEN "write" ELSE "status"]
           /\ UNCHANGED <<call, attempt, result>>
  <2>1. ControlTypes' /\ OthersStay(c) /\ obj'[c] = stored
        /\ pc'[c] = IF pc[c] = "get" THEN "write" ELSE "status"
    BY <1>1, <1>2, <1>4 DEF ControlTypes, OthersStay
  <2>2. did[c] \subseteq did'[c]
    BY <1>1, DidGrows
  <2>3. Progress(c)'
    BY <1>1, <1>2, <1>4, <2>1, <2>2 DEF Progress, HasStatus
  <2>4. ControlInv'
    BY <1>1, <2>1, <2>3, ProgressStep DEF ClientInv
  <2> QED
    BY <1>1, <2>1, <2>4, QuietStep DEF OthersStay
<1> QED
  BY <1>3, <1>4 DEF ReadObject, Goto

\* Create, or Update from a copy of the stored version.
LEMMA WriteSpecStep ==
    ASSUME ClientInv, NEW c \in Clients, WriteSpec(c)
    PROVE  ClientInv' /\ Kept
<1> DEFINE spec == toUnstructured(call[c].inv)
<1>1. UNCHANGED <<mode, notes>> /\ Observe(c) /\ pc[c] = "write"
  BY DEF WriteSpec
<1>2. ControlTypes /\ Progress(c) /\ call[c].kind = "write"
  BY <1>1 DEF ClientInv, ControlInv, Progress
<1>3. CASE Return(c, "error") /\ UNCHANGED <<stored, clock>>
  <2>1. ControlTypes' /\ OthersStay(c) /\ pc'[c] = "idle" /\ result'[c] = "error" /\ obj'[c] = Absent
    BY <1>1, <1>2, <1>3, ReturnStep
  <2>2. ControlInv'
    BY <1>1, <2>1, ProgressStep DEF ClientInv, Progress
  <2> QED
    BY <1>1, <1>3, <2>1, <2>2, QuietStep DEF OthersStay
<1>4. CASE RetryOnConflict(c, "get") /\ UNCHANGED <<stored, clock>>
  <2>1. /\ ControlTypes' /\ OthersStay(c) /\ call' = call /\ obj'[c] = Absent
        /\ pc'[c] = "get" \/ (pc'[c] = "idle" /\ result'[c] = "error")
    BY <1>1, <1>2, <1>4, RetryStep
  <2>2. ControlInv'
    BY <1>1, <1>2, <2>1, ProgressStep DEF ClientInv, Progress
  <2> QED
    BY <1>1, <1>4, <2>1, <2>2, QuietStep DEF OthersStay
<1>5. CASE /\ IF obj[c] = Absent THEN stored = Absent ELSE stored # Absent /\ stored.rv = obj[c].rv
           /\ IF obj[c] = Absent THEN CreateObject(spec) ELSE UpdateSpec(c, spec)
           /\ SpecStored(c) \/ Return(c, "error")
  <2>1. /\ ServerInv' /\ Versioned /\ stored' # Absent /\ stored'.spec = spec
        /\ stored # Absent => stored'.foreign = stored.foreign
    <3>1. CASE obj[c] = Absent
      BY <1>1, <1>5, <3>1, Creation DEF ClientInv
    <3>2. CASE obj[c] # Absent
      <4>1. obj[c] = stored
        BY <1>5, <3>2 DEF ClientInv, CopyInv
      <4> QED
        BY <1>1, <1>5, <3>2, <4>1, SpecUpdate DEF ClientInv
    <3> QED
      BY <3>1, <3>2
  <2>2. did[c] \subseteq did'[c] /\ Holding(c) \subseteq did'[c]
    BY <1>1, DidGrows
  <2>3. CASE Return(c, "error")
    <3>1. ControlTypes' /\ OthersStay(c) /\ pc'[c] = "idle" /\ result'[c] = "error" /\ obj'[c] = Absent
      BY <1>1, <1>2, <2>3, ReturnStep
    <3>2. ControlInv'
      BY <1>1, <3>1, ProgressStep DEF ClientInv, Progress
    <3>3. CopyInv'
      BY <2>1, <3>1, CopyStep DEF ClientInv, OthersStay
    <3> QED
      BY <2>1, <3>2, <3>3 DEF ClientInv, Kept
  <2>4. CASE HasStatus /\ SpecStored(c)
    <3>1. /\ pc' = [pc EXCEPT ![c] = "status"] /\ obj' = [obj EXCEPT ![c] = stored']
          /\ attempt' = [attempt EXCEPT ![c] = 0] /\ UNCHANGED <<call, result>>
      BY <2>4 DEF SpecStored, Goto
    <3>2. 0 \in 0 .. Steps - 1
      BY ClientAssumption
    <3>3. ControlTypes' /\ OthersStay(c) /\ pc'[c] = "status" /\ obj'[c] = stored'
      BY <1>1, <1>2, <3>1, <3>2 DEF ControlTypes, OthersStay
    <3>4. "spec" \in did'[c]
      BY <2>1, <2>2, <3>1 DEF Holding
    <3>5. Progress(c)'
      BY <1>1, <1>2, <2>1, <2>4, <3>1, <3>3, <3>4 DEF Progress, HasStatus
    <3>6. ControlInv'
      BY <1>1, <3>3, <3>5, ProgressStep DEF ClientInv
    <3>7. CopyInv'
      BY <2>1, <3>3, CopyStep DEF ClientInv, OthersStay
    <3> QED
      BY <2>1, <3>6, <3>7 DEF ClientInv, Kept
  <2>5. CASE ~HasStatus /\ SpecStored(c)
    <3>1. /\ ControlTypes' /\ OthersStay(c) /\ pc'[c] = "idle" /\ call' = call /\ obj'[c] = Absent
      BY <1>1, <1>2, <2>5, ReturnStep DEF SpecStored
    <3>2. "spec" \in did'[c]
      BY <2>1, <2>2, <3>1 DEF Holding
    <3>3. Progress(c)'
      BY <1>1, <1>2, <2>5, <3>1, <3>2 DEF Progress, HasStatus
    <3>4. ControlInv'
      BY <1>1, <3>1, <3>3, ProgressStep DEF ClientInv
    <3>5. CopyInv'
      BY <2>1, <3>1, CopyStep DEF ClientInv, OthersStay
    <3> QED
      BY <2>1, <3>4, <3>5 DEF ClientInv, Kept
  <2> QED
    BY <1>5, <2>3, <2>4, <2>5
<1> QED
  BY <1>3, <1>4, <1>5 DEF WriteSpec

\* UpdateStatus, its retry, or its error.
LEMMA WriteStatusStep ==
    ASSUME ClientInv, NEW c \in Clients, WriteStatus(c)
    PROVE  ClientInv' /\ Kept
<1>1. UNCHANGED <<mode, notes>> /\ Observe(c) /\ pc[c] = "status"
  BY DEF WriteStatus
<1>2. /\ ControlTypes /\ Progress(c) /\ call[c].kind = "write"
      /\ obj[c] # Absent /\ HasStatus /\ "spec" \in did[c]
  BY <1>1 DEF ClientInv, ControlInv, Progress
<1>3. did[c] \subseteq did'[c] /\ Holding(c) \subseteq did'[c]
  BY <1>1, DidGrows
<1>4. CASE Return(c, "error") /\ UNCHANGED <<stored, clock>>
  <2>1. ControlTypes' /\ OthersStay(c) /\ pc'[c] = "idle" /\ result'[c] = "error" /\ obj'[c] = Absent
    BY <1>1, <1>2, <1>4, ReturnStep
  <2>2. ControlInv'
    BY <1>1, <2>1, ProgressStep DEF ClientInv, Progress
  <2> QED
    BY <1>1, <1>4, <2>1, <2>2, QuietStep DEF OthersStay
<1>5. CASE RetryOnConflict(c, "getStatus") /\ UNCHANGED <<stored, clock>>
  <2>1. /\ ControlTypes' /\ OthersStay(c) /\ call' = call /\ obj'[c] = Absent
        /\ pc'[c] = "getStatus" \/ (pc'[c] = "idle" /\ result'[c] = "error")
    BY <1>1, <1>2, <1>5, RetryStep
  <2>2. Progress(c)'
    BY <1>1, <1>2, <1>3, <2>1 DEF Progress, HasStatus
  <2>3. ControlInv'
    BY <1>1, <2>1, <2>2, ProgressStep DEF ClientInv
  <2> QED
    BY <1>1, <1>5, <2>1, <2>3, QuietStep DEF OthersStay
<1>6. CASE /\ stored # Absent /\ stored.rv = obj[c].rv
           /\ UpdateStatus(call[c].inv.statuses, Observed(c))
           /\ Return(c, "ok") \/ Return(c, "error")
  <2>1. obj[c] = stored
    BY <1>2, <1>6 DEF ClientInv, CopyInv
  <2>2. Observed(c) \in ObservedDefault .. stored.gen
    BY <1>6, <2>1 DEF Observed, ClientInv, ServerInv, ObservedDefault, NoField
  <2>3. /\ ServerInv' /\ Versioned /\ stored' # Absent
        /\ stored'.status = call[c].inv.statuses /\ stored'.foreign = stored.foreign
    BY <1>1, <1>6, <2>2, StatusUpdate DEF ClientInv
  <2>4. PICK r \in {"ok", "error"} : Return(c, r)
    BY <1>6
  <2>5. /\ ControlTypes' /\ OthersStay(c) /\ call' = call /\ obj'[c] = Absent
        /\ pc'[c] = "idle" /\ result'[c] = r
    BY <1>1, <1>2, <2>4, ReturnStep
  <2>6. "status" \in did'[c]
    BY <1>3, <2>3, <2>5 DEF Holding
  <2>7. Progress(c)'
    BY <1>1, <1>2, <1>3, <2>5, <2>6 DEF Progress, HasStatus
  <2>8. ControlInv'
    BY <1>1, <2>5, <2>7, ProgressStep DEF ClientInv
  <2>9. CopyInv'
    BY <2>3, <2>5, CopyStep DEF ClientInv, OthersStay
  <2> QED
    BY <2>3, <2>8, <2>9 DEF ClientInv, Kept
<1> QED
  BY <1>4, <1>5, <1>6 DEF WriteStatus

\* Delete, or its error.
LEMMA DeleteStep ==
    ASSUME ClientInv, NEW c \in Clients, Delete(c)
    PROVE  ClientInv' /\ Kept
<1>1. UNCHANGED <<mode, clock, notes>> /\ Observe(c) /\ pc[c] = "delete"
  BY DEF Delete
<1>2. ControlTypes /\ Progress(c) /\ call[c].kind = "delete"
  BY <1>1 DEF ClientInv, ControlInv, Progress
<1>3. PICK r \in {"ok", "error"} :
        Return(c, r) /\ (stored' = Absent \/ (r = "error" /\ UNCHANGED stored))
  BY DEF Delete
<1>4. /\ ControlTypes' /\ OthersStay(c) /\ call' = call /\ obj'[c] = Absent
      /\ pc'[c] = "idle" /\ result'[c] = r
  BY <1>1, <1>2, <1>3, ReturnStep
<1>5. ServerInv' /\ Versioned
  BY <1>1, <1>3 DEF ClientInv, ServerInv, Versioned, ObservedDefault
<1>6. r = "ok" => "gone" \in did'[c]
  BY <1>1, <1>3, DidGrows DEF Holding
<1>7. Progress(c)'
  BY <1>2, <1>4, <1>6 DEF Progress
<1>8. ControlInv'
  BY <1>1, <1>4, <1>7, ProgressStep DEF ClientInv
<1>9. CopyInv'
  BY <1>4, <1>5, CopyStep DEF ClientInv, OthersStay
<1> QED
  BY <1>3, <1>5, <1>8, <1>9 DEF ClientInv, Kept

\* A client that crashes leaves the object as it is.
LEMMA CrashStep ==
    ASSUME ClientInv, NEW c \in Clients, Crash(c)
    PROVE  ClientInv' /\ Kept
<1>1. UNCHANGED <<mode, stored, clock, notes>> /\ Observe(c) /\ Return(c, "none")
  BY DEF Crash
<1>2. ControlTypes' /\ OthersStay(c) /\ pc'[c] = "idle" /\ result'[c] = "none" /\ obj'[c] = Absent
  BY <1>1, ReturnStep DEF ClientInv, ControlInv
<1>3. ControlInv'
  BY <1>1, <1>2, ProgressStep DEF ClientInv, Progress
<1> QED
  BY <1>1, <1>2, <1>3, QuietStep DEF OthersStay

\* A foreign change makes a version that nobody has a copy of.
LEMMA NoteStep ==
    ASSUME ClientInv, Note
    PROVE  ClientInv' /\ Kept
<1>1. /\ stored # Absent /\ notes' = notes + 1 /\ clock' = clock + 1
      /\ stored' = [stored EXCEPT !.foreign = notes + 1, !.rv = clock + 1]
      /\ UNCHANGED <<mode, pc, call, obj, attempt, result, did>>
  BY DEF Note, calling, history
<1>2. IsObject(stored) /\ clock \in Nat /\ notes \in Nat
  BY <1>1 DEF ClientInv, ServerInv
<1>3. IsObject(stored') /\ stored'.foreign = notes + 1 /\ stored'.rv = clock + 1
      /\ stored'.gen = stored.gen /\ stored'.observed = stored.observed
  BY <1>1, <1>2 DEF IsObject, ObjectFields
<1>4. ServerInv' /\ Versioned
  BY <1>1, <1>3, ObjectIsThere DEF ClientInv, ServerInv, Versioned, ObservedDefault, NoField
<1>5. CopyInv'
  BY <1>1, <1>4, CopyStep DEF ClientInv
<1>6. ControlInv'
  BY <1>1 DEF ClientInv, ControlInv, ControlTypes, Progress, HasStatus
<1> QED
  BY <1>1, <1>2, <1>4, <1>5, <1>6 DEF ClientInv, Kept

----------------------------------------------------------------------------
(* The theorems.                                                           *)

\* The invariant holds before the first call.
LEMMA InitClient == Init => ClientInv
<1> SUFFICES ASSUME Init PROVE ClientInv
  OBVIOUS
<1>1. ServerInv /\ CopyInv
  BY DEF Init, ServerInv, CopyInv
<1>2. 0 \in 0 .. Steps - 1
  BY ClientAssumption
<1>3. ControlTypes
  BY <1>2 DEF Init, ControlTypes
<1>4. \A c \in Clients : Progress(c)
  BY DEF Init, Progress
<1> QED
  BY <1>1, <1>3, <1>4 DEF ClientInv, ControlInv

\* Every step keeps the invariant and what others changed on the object.
LEMMA ClientStep == ClientInv /\ [Next]_vars => ClientInv' /\ Kept
<1> SUFFICES ASSUME ClientInv, [Next]_vars PROVE ClientInv' /\ Kept
  OBVIOUS
<1>1. ASSUME NEW c \in Clients, ClientNext(c) PROVE ClientInv' /\ Kept
  BY <1>1, BeginStep, ReadStep, WriteSpecStep, WriteStatusStep, DeleteStep, CrashStep DEF ClientNext
<1>2. CASE Note
  BY <1>2, NoteStep
<1>3. CASE UNCHANGED vars
  <2>1. UNCHANGED <<mode, stored, clock, notes, pc, call, obj, attempt, result, did>>
    BY <1>3 DEF vars, calling, history
  <2>2. ControlInv'
    BY <2>1 DEF ClientInv, ControlInv, ControlTypes, Progress, HasStatus
  <2> QED
    BY <2>1, <2>2, QuietStep
<1> QED
  BY <1>1, <1>2, <1>3 DEF Next, Finished

\* The invariant gives the types and NilMeansDone.
LEMMA InvImplies == ClientInv => ClientTypeOK /\ NilMeansDone
<1> SUFFICES ASSUME ClientInv PROVE ClientTypeOK /\ NilMeansDone
  OBVIOUS
<1>1. ClientTypeOK
  BY DEF ClientInv, ServerInv, ControlInv, ControlTypes, Progress, ClientTypeOK
<1>2. ASSUME NEW c \in Clients, pc[c] = "idle", result[c] = "ok"
      PROVE  CASE call[c].kind = "write"  -> {"spec"} \cup (IF HasStatus THEN {"status"} ELSE {}) \subseteq did[c]
               [] call[c].kind = "delete" -> "gone" \in did[c]
  BY <1>2 DEF ClientInv, ControlInv, Progress
<1> QED
  BY <1>1, <1>2 DEF NilMeansDone

\* The invariant holds throughout.
LEMMA ClientInvHolds == Spec => []ClientInv
<1>1. ClientInv /\ [Next]_vars => ClientInv'
  BY ClientStep
<1> QED
  BY <1>1, InitClient, PTL DEF Spec

\* The attempts of a call stay within the backoff's steps, the status part has
\* the object that Get or Update answered, and the observed generation never
\* runs ahead of the generation (CreateOrUpdate).
THEOREM ClientTypes == Spec => []ClientTypeOK
<1>1. ClientInv => ClientTypeOK
  BY InvImplies
<1> QED
  BY <1>1, ClientInvHolds, PTL

\* However many clients write with whatever retries, lost answers and crashes,
\* a write keeps what others changed on the object: only a copy of the stored
\* version is written back (the resource version of CreateOrUpdate's Update).
THEOREM ForeignIsKept == Spec => ForeignKept
<1>1. ClientInv /\ [Next]_vars
        => [(stored # Absent /\ stored' # Absent /\ notes' = notes)
              => stored'.foreign = stored.foreign]_vars
  BY ClientStep DEF Kept
<1> QED
  BY <1>1, ClientInvHolds, PTL DEF Spec, ForeignKept

\* CreateOrUpdate returns nil only when its spec and its status have been in
\* the cluster since the call began, Delete only when the object was gone.
THEOREM NilMeansDoneHolds == Spec => []NilMeansDone
<1>1. ClientInv => NilMeansDone
  BY InvImplies
<1> QED
  BY <1>1, ClientInvHolds, PTL
----------------------------------------------------------------------------
(* One call at a time, and calls nobody disturbs.                          *)

\* A client nobody disturbed finds its spec in the cluster, of the generation
\* of its copy, and its whole call once it has returned.
Undisturbed(c) ==
    /\ pc[c] \in {"getStatus", "status"} =>
         stored # Absent /\ stored.spec = toUnstructured(call[c].inv)
    /\ pc[c] = "status" => obj[c].gen = stored.gen
    /\ pc[c] = "idle" /\ result[c] = "ok" /\ call[c].kind = "write" =>
         /\ stored # Absent
         /\ stored.spec = toUnstructured(call[c].inv)
         /\ HasStatus => /\ stored.status = call[c].inv.statuses
                         /\ stored.status # <<>> /\ mode = "CustomObserved"
                              => stored.observed = stored.gen

WholeInv == \A c \in Clients \ disturbed : Undisturbed(c)

\* As long as calls do not overlap, one client is at work, and the status it
\* goes on to write is of the spec it wrote.
AuthorInv ==
    /\ author = [spec |-> author.spec, status |-> author.status] /\ overlap \in BOOLEAN
    /\ HasStatus /\ stored # Absent => DOMAIN stored.spec = author.spec.refs
    /\ ~overlap => /\ \A c, d \in Clients : c # d => pc[c] = "idle" \/ pc[d] = "idle"
                   /\ \A c \in Clients : pc[c] \in {"getStatus", "status"} =>
                                            author.spec.refs = call[c].inv.refs
    /\ ObservedIsOfTheSpec

\* What a step of c may do, to the cluster and to itself.  A call begins.
Begins(c) ==
    /\ pc[c] = "idle" /\ pc'[c] \in {"get", "delete"}
    /\ UNCHANGED <<stored, author>>

\* It reads, tries again, fails or crashes.
GoesOn(c) ==
    /\ pc[c] # "idle" /\ call' = call
    /\ UNCHANGED <<stored, author>>
    /\ pc'[c] \in {"getStatus", "status"} => pc[c] \in {"getStatus", "status"}
    /\ pc'[c] = "status" => stored # Absent /\ obj'[c] = stored
    /\ pc'[c] = "idle" => result'[c] # "ok"

\* It stores the spec of its call, of a new object or of a new generation.
StoresSpec(c) ==
    /\ pc[c] = "write" /\ call' = call
    /\ stored' # Absent /\ stored'.spec = toUnstructured(call[c].inv)
    /\ author'.spec = call[c].inv
    /\ \/ /\ stored'.gen = 1 /\ stored'.observed = ObservedDefault
       \/ /\ stored # Absent /\ author'.status = author.status
          /\ stored'.observed = stored.observed
          /\ \/ stored'.spec = stored.spec /\ stored'.gen = stored.gen
             \/ stored'.gen = stored.gen + 1
    /\ \/ pc'[c] = "status" /\ obj'[c] = stored'
       \/ pc'[c] = "idle" /\ (result'[c] = "ok" => ~HasStatus)

\* It stores the status of its call, of the generation of its copy.
StoresStatus(c) ==
    /\ pc[c] = "status" /\ pc'[c] = "idle" /\ call' = call /\ HasStatus
    /\ stored # Absent /\ stored' # Absent
    /\ stored'.spec = stored.spec /\ stored'.gen = stored.gen
    /\ stored'.status = call[c].inv.statuses
    /\ stored'.status # <<>> /\ mode = "CustomObserved" => stored'.observed = stored'.gen
    /\ author'.spec = author.spec /\ author'.status = call[c].inv

\* It deletes the object.
Deletes(c) ==
    /\ pc[c] = "delete" /\ pc'[c] = "idle" /\ call' = call
    /\ stored' = Absent /\ author' = author

Effects(c) ==
    /\ OthersStay(c) /\ Observe(c) /\ mode' = mode
    /\ Begins(c) \/ GoesOn(c) \/ StoresSpec(c) \/ StoresStatus(c) \/ Deletes(c)

\* Every step of a client is one of these.
LEMMA SpecEffect ==
    ASSUME ClientInv, AuthorInv, NEW c \in Clients, WriteSpec(c)
    PROVE  Effects(c)
<1> DEFINE spec == toUnstructured(call[c].inv)
<1>1. UNCHANGED <<mode, notes>> /\ Observe(c) /\ pc[c] = "write"
  BY DEF WriteSpec
<1>2. ControlTypes
  BY DEF ClientInv, ControlInv
<1>3. CASE Return(c, "error") /\ UNCHANGED <<stored, author>>
  BY <1>1, <1>2, <1>3, ReturnStep DEF Effects, GoesOn
<1>4. CASE RetryOnConflict(c, "get") /\ UNCHANGED <<stored, author>>
  BY <1>1, <1>2, <1>4, RetryStep DEF Effects, GoesOn
<1>5. CASE /\ IF obj[c] = Absent THEN stored = Absent ELSE stored # Absent /\ stored.rv = obj[c].rv
           /\ IF obj[c] = Absent THEN CreateObject(spec) ELSE UpdateSpec(c, spec)
           /\ author' = [author EXCEPT !.spec = call[c].inv,
                                       !.status = IF obj[c] = Absent THEN NoContent ELSE @]
           /\ SpecStored(c) \/ Return(c, "error")
  <2>1. /\ stored' # Absent /\ stored'.spec = spec
        /\ \/ stored'.gen = 1 /\ stored'.observed = ObservedDefault
           \/ /\ stored # Absent /\ obj[c] # Absent /\ stored'.observed = stored.observed
              /\ \/ stored'.spec = stored.spec /\ stored'.gen = stored.gen
                 \/ stored'.gen = stored.gen + 1
    <3>1. CASE obj[c] = Absent
      BY <1>1, <1>5, <3>1, Creation DEF ClientInv
    <3>2. CASE obj[c] # Absent
      <4>1. obj[c] = stored
        BY <1>5, <3>2 DEF ClientInv, CopyInv
      <4> QED
        BY <1>1, <1>5, <3>2, <4>1, SpecUpdate DEF ClientInv
    <3> QED
      BY <3>1, <3>2
  <2>2. author'.spec = call[c].inv /\ (obj[c] # Absent => author'.status = author.status)
    BY <1>5 DEF AuthorInv
  <2>3. /\ OthersStay(c) /\ call' = call
        /\ \/ pc'[c] = "status" /\ obj'[c] = stored'
           \/ pc'[c] = "idle" /\ (result'[c] = "ok" => ~HasStatus)
    <3>1. CASE Return(c, "error")
      BY <1>1, <1>2, <3>1, ReturnStep
    <3>2. CASE HasStatus /\ SpecStored(c)
      BY <1>2, <3>2 DEF SpecStored, Goto, OthersStay, ControlTypes
    <3>3. CASE ~HasStatus /\ SpecStored(c)
      BY <1>1, <1>2, <3>3, ReturnStep DEF SpecStored
    <3> QED
      BY <1>5, <3>1, <3>2, <3>3
  <2> HIDE DEF spec
  <2>4. StoresSpec(c)
    BY <1>1, <2>1, <2>2, <2>3 DEF StoresSpec, spec
  <2> QED
    BY <1>1, <2>3, <2>4 DEF Effects
<1> QED
  BY <1>3, <1>4, <1>5 DEF WriteSpec

\* The same for a write of the status.
LEMMA StatusEffect ==
    ASSUME ClientInv, AuthorInv, NEW c \in Clients, WriteStatus(c)
    PROVE  Effects(c)
<1>1. UNCHANGED <<mode, notes>> /\ Observe(c) /\ pc[c] = "status"
  BY DEF WriteStatus
<1>2. ControlTypes /\ obj[c] # Absent /\ HasStatus
  BY <1>1 DEF ClientInv, ControlInv, Progress
<1>3. CASE Return(c, "error") /\ UNCHANGED <<stored, author>>
  BY <1>1, <1>2, <1>3, ReturnStep DEF Effects, GoesOn
<1>4. CASE RetryOnConflict(c, "getStatus") /\ UNCHANGED <<stored, author>>
  BY <1>1, <1>2, <1>4, RetryStep DEF Effects, GoesOn
<1>5. CASE /\ stored # Absent /\ stored.rv = obj[c].rv
           /\ UpdateStatus(call[c].inv.statuses, Observed(c))
           /\ author' = [author EXCEPT !.status = call[c].inv]
           /\ Return(c, "ok") \/ Return(c, "error")
  <2>1. obj[c] = stored
    BY <1>2, <1>5 DEF ClientInv, CopyInv
  <2>2. Observed(c) \in ObservedDefault .. stored.gen
    BY <1>5, <2>1 DEF Observed, ClientInv, ServerInv, ObservedDefault, NoField
  <2>3. /\ stored' # Absent /\ stored'.spec = stored.spec /\ stored'.gen = stored.gen
        /\ stored'.status = call[c].inv.statuses /\ stored'.observed = Observed(c)
    BY <1>1, <1>5, <2>2, StatusUpdate DEF ClientInv
  <2>4. stored'.status # <<>> /\ mode = "CustomObserved" => stored'.observed = stored'.gen
    BY <1>5, <2>1, <2>3 DEF Observed, ClientInv, ServerInv, ObservedDefault, NoField
  <2>5. OthersStay(c) /\ call' = call /\ pc'[c] = "idle"
    BY <1>1, <1>2, <1>5, ReturnStep
  <2>6. author'.spec = author.spec /\ author'.status = call[c].inv
    BY <1>5 DEF AuthorInv
  <2> QED
    BY <1>1, <1>2, <1>5, <2>3, <2>4, <2>5, <2>6 DEF Effects, StoresStatus
<1> QED
  BY <1>3, <1>4, <1>5 DEF WriteStatus

\* The same for the other steps.
LEMMA OtherEffect ==
    ASSUME ClientInv, AuthorInv, NEW c \in Clients,
           Begin(c) \/ ReadObject(c) \/ Delete(c) \/ Crash(c)
    PROVE  Effects(c)
<1>1. ControlTypes
  BY DEF ClientInv, ControlInv
<1>2. CASE Begin(c)
  BY <1>1, <1>2 DEF Begin, Goto, Effects, Begins, OthersStay, ControlTypes
<1>3. CASE ReadObject(c)
  <2>1. UNCHANGED <<mode, stored, author>> /\ Observe(c) /\ pc[c] \in {"get", "getStatus"}
    BY <1>3 DEF ReadObject
  <2>2. CASE Return(c, "error")
    BY <1>1, <2>1, <2>2, ReturnStep DEF Effects, GoesOn
  <2>3. CASE /\ pc[c] = "get" \/ stored # Absent
             /\ obj' = [obj EXCEPT ![c] = stored]
             /\ pc' = [pc EXCEPT ![c] = IF pc[c] = "get" THEN "write" ELSE "status"]
             /\ UNCHANGED <<call, attempt, result>>
    BY <1>1, <2>1, <2>3 DEF Effects, GoesOn, OthersStay, ControlTypes
  <2> QED
    BY <1>3, <2>2, <2>3 DEF ReadObject, Goto
<1>4. CASE Delete(c)
  <2>1. Return(c, "ok") \/ Return(c, "error")
    BY <1>4 DEF Delete
  <2>2. /\ mode' = mode /\ author' = author /\ Observe(c) /\ pc[c] = "delete"
        /\ stored' = Absent \/ (stored' = stored /\ Return(c, "error"))
    BY <1>4 DEF Delete
  <2> QED
    BY <1>1, <2>1, <2>2, ReturnStep DEF Effects, Deletes, GoesOn
<1>5. CASE Crash(c)
  <2>1. mode' = mode
    BY <1>5 DEF Crash
  <2> QED
    BY <1>1, <1>5, <2>1, ReturnStep DEF Crash, Effects, GoesOn
<1> QED
  BY <1>2, <1>3, <1>4, <1>5

\* A step of c disturbs everybody else, or leaves the cluster alone.
LEMMA UndisturbedStep ==
    ASSUME ClientInv, AuthorInv, WholeInv, NEW c \in Clients, Effects(c)
    PROVE  WholeInv'
<1> SUFFICES ASSUME NEW d \in Clients \ disturbed' PROVE Undisturbed(d)'
  BY DEF WholeInv
<1>1. OthersStay(c) /\ Observe(c) /\ mode' = mode
  BY DEF Effects
<1>2. disturbed' = IF stored' # stored
                     THEN disturbed \cup (Clients \ {c})
                     ELSE {e \in disturbed : ~(pc[e] = "idle" /\ pc'[e] # "idle")}
  BY <1>1 DEF Observe
<1>3. toUnstructured(call[d].inv)' = toUnstructured(call'[d].inv)
  BY <1>1 DEF toUnstructured, buildDataMap, HasStatus
<1>4. CASE d # c
  <2>1. /\ stored' = stored /\ pc'[d] = pc[d] /\ obj'[d] = obj[d]
        /\ call'[d] = call[d] /\ result'[d] = result[d]
    BY <1>1, <1>2, <1>4 DEF OthersStay
  <2>2. Undisturbed(d)
    BY <1>2, <1>4, <2>1 DEF WholeInv
  <2> QED
    BY <1>1, <1>3, <2>1, <2>2 DEF Undisturbed, HasStatus
<1>5. CASE d = c
  <2>1. pc[c] # "idle" => Undisturbed(c)
    BY <1>2, <1>5 DEF WholeInv
  <2>2. CASE Begins(c)
    BY <1>5, <2>2 DEF Begins, Undisturbed
  <2>3. CASE GoesOn(c)
    BY <1>1, <1>3, <1>5, <2>1, <2>3 DEF GoesOn, Undisturbed, HasStatus
  <2>4. CASE StoresSpec(c)
    BY <1>1, <1>3, <1>5, <2>4 DEF StoresSpec, Undisturbed, HasStatus
  <2>5. CASE StoresStatus(c)
    BY <1>1, <1>3, <1>5, <2>1, <2>5 DEF StoresStatus, Undisturbed, HasStatus
  <2>6. CASE Deletes(c)
    BY <1>1, <1>5, <2>6 DEF Deletes, Undisturbed, ClientInv, ControlInv, Progress
  <2> QED
    BY <2>2, <2>3, <2>4, <2>5, <2>6 DEF Effects
<1> QED
  BY <1>4, <1>5

\* Without overlap, nobody stores a spec between the two writes of a call.
LEMMA AuthorStep ==
    ASSUME ClientInv, AuthorInv, NEW c \in Clients, Effects(c),
           author' = [spec |-> author'.spec, status |-> author'.status]
    PROVE  AuthorInv'
<1>1. OthersStay(c) /\ Observe(c) /\ mode' = mode
  BY DEF Effects
<1>2. overlap' = (overlap \/ \E d, e \in Clients : d # e /\ pc'[d] # "idle" /\ pc'[e] # "idle")
  BY <1>1 DEF Observe
<1>3. overlap' \in BOOLEAN
  BY <1>2, Zenon DEF AuthorInv
<1>4. ~overlap' => ~overlap /\ \A d, e \in Clients : d # e => pc'[d] = "idle" \/ pc'[e] = "idle"
  BY <1>2, Zenon
<1>5. stored # Absent => /\ stored.observed \in ObservedDefault .. stored.gen
                         /\ stored.gen \in Nat /\ ObservedDefault < 1
  BY DEF ClientInv, ServerInv, ObservedDefault, NoField
<1>6. HasStatus => DOMAIN toUnstructured(call[c].inv) = call[c].inv.refs
  BY DEF HasStatus, toUnstructured
<1>7. HasStatus /\ stored' # Absent => DOMAIN stored'.spec = author'.spec.refs
  BY <1>6 DEF Effects, Begins, GoesOn, StoresSpec, StoresStatus, Deletes, AuthorInv
<1>8. ASSUME ~overlap', NEW d \in Clients, pc'[d] \in {"getStatus", "status"}
      PROVE  author'.spec.refs = call'[d].inv.refs
  <2>1. CASE d = c
    BY <1>4, <1>8, <2>1 DEF Effects, Begins, GoesOn, StoresSpec, StoresStatus, Deletes, AuthorInv
  <2>2. CASE d # c
    <3>1. pc'[c] = "idle" /\ pc[d] = pc'[d] /\ call'[d] = call[d]
      BY <1>1, <1>4, <1>8, <2>2 DEF OthersStay
    <3>2. pc[c] = "idle"
      BY <1>4, <1>8, <2>2, <3>1 DEF AuthorInv
    <3> QED
      BY <3>1, <3>2 DEF Effects, Begins, GoesOn, StoresSpec, StoresStatus, Deletes
  <2> QED
    BY <2>1, <2>2
<1>9. ObservedIsOfTheSpec'
  <2> SUFFICES ASSUME ~overlap', stored' # Absent, HasStatus, stored'.observed = stored'.gen
               PROVE  author'.status.refs = author'.spec.refs
    BY <1>1 DEF ObservedIsOfTheSpec, HasStatus
  <2>1. CASE Begins(c) \/ GoesOn(c) \/ Deletes(c)
    BY <1>4, <2>1 DEF Begins, GoesOn, Deletes, AuthorInv, ObservedIsOfTheSpec
  <2>2. CASE StoresSpec(c)
    <3>1. stored # Absent /\ author'.status = author.status /\ stored'.spec = stored.spec
          /\ stored.observed = stored.gen
      BY <1>5, <2>2 DEF StoresSpec, ObservedDefault, NoField
    <3> QED
      BY <1>4, <1>7, <3>1 DEF AuthorInv, ObservedIsOfTheSpec
  <2>3. CASE StoresStatus(c)
    BY <1>4, <2>3 DEF StoresStatus, AuthorInv
  <2> QED
    BY <2>1, <2>2, <2>3 DEF Effects
<1> QED
  BY <1>1, <1>3, <1>4, <1>7, <1>8, <1>9 DEF AuthorInv, HasStatus

\* A step that keeps the clients, and all of the object they look at.
LEMMA CallsStay ==
    ASSUME WholeInv, AuthorInv, UNCHANGED <<mode, calling, history>>,
           stored' = Absent <=> stored = Absent,
           stored # Absent => /\ stored'.spec = stored.spec /\ stored'.gen = stored.gen
                              /\ stored'.status = stored.status
                              /\ stored'.observed = stored.observed
    PROVE  (WholeInv /\ AuthorInv)'
<1> USE DEF calling, history
<1>1. ASSUME NEW d \in Clients \ disturbed PROVE Undisturbed(d)'
  <2>1. toUnstructured(call[d].inv)' = toUnstructured(call[d].inv)
    BY DEF toUnstructured, buildDataMap, HasStatus
  <2>2. Undisturbed(d)
    BY DEF WholeInv
  <2> QED
    BY <2>1, <2>2 DEF Undisturbed, HasStatus
<1>2. WholeInv'
  BY <1>1 DEF WholeInv
<1>3. ObservedIsOfTheSpec'
  BY DEF AuthorInv, ObservedIsOfTheSpec, HasStatus
<1>4. AuthorInv'
  BY <1>3 DEF AuthorInv, HasStatus
<1> QED
  BY <1>2, <1>4

\* Both invariants hold throughout.
LEMMA CallInvariants == Spec => [](WholeInv /\ AuthorInv)
<1>1. Init => WholeInv /\ AuthorInv
  BY DEF Init, WholeInv, Undisturbed, AuthorInv, ObservedIsOfTheSpec
<1>2. ClientInv /\ WholeInv /\ AuthorInv /\ [Next]_vars => (WholeInv /\ AuthorInv)'
  <2> SUFFICES ASSUME ClientInv, WholeInv, AuthorInv, [Next]_vars PROVE (WholeInv /\ AuthorInv)'
    OBVIOUS
  <2>1. ASSUME NEW c \in Clients, ClientNext(c) PROVE (WholeInv /\ AuthorInv)'
    <3>1. Effects(c)
      BY <2>1, SpecEffect, StatusEffect, OtherEffect DEF ClientNext
    <3>2. author' = [spec |-> author'.spec, status |-> author'.status]
      BY <2>1 DEF ClientNext, Begin, ReadObject, WriteSpec, WriteStatus, Delete, Crash, AuthorInv
    <3> QED
      BY <3>1, <3>2, UndisturbedStep, AuthorStep
  <2>2. CASE Note
    <3>1. /\ stored # Absent /\ UNCHANGED <<mode, calling, history>>
          /\ stored' = [stored EXCEPT !.foreign = notes + 1, !.rv = clock + 1]
      BY <2>2 DEF Note
    <3>2. /\ stored' # Absent /\ stored'.spec = stored.spec /\ stored'.gen = stored.gen
          /\ stored'.status = stored.status /\ stored'.observed = stored.observed
      <4>1. IsObject(stored)
        BY <3>1 DEF ClientInv, ServerInv
      <4>2. IsObject(stored') /\ stored'.spec = stored.spec /\ stored'.gen = stored.gen
            /\ stored'.status = stored.status /\ stored'.observed = stored.observed
        BY <3>1, <4>1 DEF IsObject, ObjectFields
      <4> QED
        BY <4>2, ObjectIsThere
    <3> QED
      BY <3>1, <3>2, CallsStay
  <2>3. CASE UNCHANGED vars
    BY <2>3, CallsStay DEF vars
  <2> QED
    BY <2>1, <2>2, <2>3 DEF Next, Finished
<1> QED
  BY <1>1, <1>2, ClientInvHolds, PTL DEF Spec

\* A call without an error that nobody disturbed has left its spec and its
\* status, however often its parts conflicted, and the generation they are of
\* if the object has the field for it (inventory-client.go:356-440).
THEOREM UndisturbedIsCompleteHolds == Spec => []UndisturbedIsComplete
<1>1. WholeInv => UndisturbedIsComplete
  BY DEF WholeInv, Undisturbed, UndisturbedIsComplete
<1> QED
  BY <1>1, CallInvariants, PTL

\* A status that claims to be of the current generation is of the references
\* that are stored, whatever call failed or crashed between its writes, as long
\* as no two calls overlapped (inventory-client.go:356-440).
THEOREM ObservedIsOfTheSpecHolds == Spec => []ObservedIsOfTheSpec
<1>1. AuthorInv => ObservedIsOfTheSpec
  BY DEF AuthorInv
<1> QED
  BY <1>1, CallInvariants, PTL

----------------------------------------------------------------------------
(* Keys.                                                                   *)

\* What stands before and after an element, at each place.
LEMMA Around ==
    ASSUME NEW S, NEW a \in Seq(S), NEW b \in Seq(S), NEW x \in S, NEW q, q = a \o <<x>> \o b
    PROVE  /\ q \in Seq(S) /\ Len(q) = Len(a) + 1 + Len(b)
           /\ \A i \in 1 .. Len(q) :
                 q[i] = IF i <= Len(a) THEN a[i]
                        ELSE IF i = Len(a) + 1 THEN x ELSE b[i - Len(a) - 1]
<1>1. <<x>> \in Seq(S) /\ Len(<<x>>) = 1
  OBVIOUS
<1>2. a \o <<x>> \in Seq(S) /\ Len(a \o <<x>>) = Len(a) + 1
  BY <1>1, ConcatProperties
<1> QED
  BY <1>1, <1>2, ConcatProperties

\* Taking apart what was put together around an element.
LEMMA Apart ==
    ASSUME NEW S, NEW a \in Seq(S), NEW b \in Seq(S), NEW x \in S,
           NEW q, q = a \o <<x>> \o b
    PROVE  /\ SubSeq(q, 1, (Len(a) + 1) - 1) = a
           /\ SubSeq(q, (Len(a) + 1) + 1, Len(q)) = b
<1>1. /\ q \in Seq(S) /\ Len(q) = Len(a) + 1 + Len(b)
      /\ \A i \in 1 .. Len(q) :
            q[i] = IF i <= Len(a) THEN a[i]
                   ELSE IF i = Len(a) + 1 THEN x ELSE b[i - Len(a) - 1]
  BY Around
<1>2. Len(a) \in Nat /\ Len(b) \in Nat
  OBVIOUS
<1>3. SubSeq(q, 1, (Len(a) + 1) - 1) = a
  BY <1>1, <1>2
<1>4. SubSeq(q, (Len(a) + 1) + 1, Len(q)) = b
  BY <1>1, <1>2
<1> QED
  BY <1>3, <1>4

\* The first separator is the one after a text.
LEMMA FirstSepAt ==
    ASSUME NEW S, NEW a \in Seq(S), NEW b \in Seq(S), fieldSeparator \in S,
           NEW q, q = a \o <<fieldSeparator>> \o b,
           \A i \in 1 .. Len(a) : a[i] # fieldSeparator
    PROVE  FirstSep(q) = Len(a) + 1
<1> DEFINE I == {i \in 1 .. Len(q) : q[i] = fieldSeparator}
<1>1. FirstSep(q) = IF I # {} THEN Min(I) ELSE 0
  BY DEF FirstSep, SelectInSeq
<1>2. /\ Len(q) = Len(a) + 1 + Len(b) /\ Len(a) \in Nat /\ Len(b) \in Nat
      /\ \A i \in 1 .. Len(q) :
            q[i] = IF i <= Len(a) THEN a[i]
                   ELSE IF i = Len(a) + 1 THEN fieldSeparator ELSE b[i - Len(a) - 1]
  BY Around
<1>3. Len(a) + 1 \in I /\ \A i \in I : Len(a) + 1 <= i
  BY <1>2
<1>4. \A i \in I : i \in Nat
  BY <1>2
<1> HIDE DEF I
<1>5. Min(I) = Len(a) + 1
  BY <1>2, <1>3, <1>4 DEF Min
<1> QED
  BY <1>1, <1>3, <1>5

\* The last separator is the one before a text.
LEMMA FinalSepAt ==
    ASSUME NEW S, NEW a \in Seq(S), NEW b \in Seq(S), fieldSeparator \in S,
           NEW q, q = a \o <<fieldSeparator>> \o b,
           \A i \in 1 .. Len(b) : b[i] # fieldSeparator
    PROVE  FinalSep(q) = Len(a) + 1
<1> DEFINE I == {i \in 1 .. Len(q) : q[i] = fieldSeparator}
<1>1. FinalSep(q) = IF I # {} THEN Max(I) ELSE 0
  BY DEF FinalSep, SelectLastInSeq
<1>2. /\ Len(q) = Len(a) + 1 + Len(b) /\ Len(a) \in Nat /\ Len(b) \in Nat
      /\ \A i \in 1 .. Len(q) :
            q[i] = IF i <= Len(a) THEN a[i]
                   ELSE IF i = Len(a) + 1 THEN fieldSeparator ELSE b[i - Len(a) - 1]
  BY Around
<1>3. Len(a) + 1 \in I /\ \A i \in I : Len(a) + 1 >= i
  BY <1>2
<1>4. \A i \in I : i \in Nat
  BY <1>2
<1> HIDE DEF I
<1>5. Max(I) = Len(a) + 1
  BY <1>2, <1>3, <1>4 DEF Max
<1> QED
  BY <1>1, <1>3, <1>5

\* A set of numbers that is not empty has a least one.
LEMMA LeastOne ==
    ASSUME NEW S \in SUBSET Nat, S # {}
    PROVE  \E i \in S : \A j \in S : i <= j
<1>1. PICK m \in S : \A k \in S : <<k, m>> \notin OpToRel(<, Nat)
  BY WFMin, NatLessThanWellFounded
<1>2. \A k \in S : ~(k < m)
  BY <1>1 DEF OpToRel
<1> QED
  BY <1>2

\* Induction over the numbers up to a bound.
LEMMA UpToBound ==
    ASSUME NEW N \in Nat, NEW B, 0 \in B, \A n \in B : n \in 0 .. N - 1 => n + 1 \in B
    PROVE  0 .. N \subseteq B
<1>1. SUFFICES ASSUME (0 .. N) \ B # {} PROVE FALSE
  OBVIOUS
<1>2. (0 .. N) \ B \in SUBSET Nat
  OBVIOUS
<1>3. PICK m \in (0 .. N) \ B : \A k \in (0 .. N) \ B : m <= k
  BY <1>1, <1>2, LeastOne
<1>4. m \in 0 .. N /\ m \notin B
  OBVIOUS
<1>5. m # 0
  BY <1>4
<1>6. m - 1 \in 0 .. N - 1 /\ m - 1 \in 0 .. N /\ (m - 1) + 1 = m /\ ~(m <= m - 1)
  BY <1>4, <1>5
<1>7. m - 1 \in B
  BY <1>3, <1>6
<1> QED
  BY <1>4, <1>6, <1>7

\* A recursive function that goes on to later places of a list exists.
GoesOnAt(f, L, head, next) ==
    f = [i \in 1 .. L + 1 |-> IF i = L + 1 THEN <<>> ELSE head[i] \o f[next[i]]]

\* A function that is defined at each place by its value at a later one exists.
LEMMA LaterExist ==
    ASSUME NEW L \in Nat, NEW head, NEW next, \A i \in 1 .. L : next[i] \in i + 1 .. L + 1
    PROVE  \E f : GoesOnAt(f, L, head, next)
<1> DEFINE From(n) == (L + 1) - n .. L + 1
           At(f, i) == IF i = L + 1 THEN <<>> ELSE head[i] \o f[next[i]]
           Solved(n) == \E f : f = [i \in From(n) |-> At(f, i)]
           B == {n \in 0 .. L : Solved(n)}
<1>1. 0 \in B
  <2>1. From(0) = {L + 1}
    OBVIOUS
  <2> DEFINE h == [i \in {L + 1} |-> <<>>]
  <2>2. h = [i \in {L + 1} |-> At(h, i)]
    OBVIOUS
  <2> HIDE DEF h
  <2>3. h = [i \in From(0) |-> At(h, i)]
    BY <2>1, <2>2
  <2>4. 0 \in 0 .. L
    OBVIOUS
  <2> QED
    BY <2>3, <2>4, Zenon
<1>2. ASSUME NEW n \in B, n \in 0 .. L - 1 PROVE n + 1 \in B
  <2>1. PICK f : f = [i \in From(n) |-> At(f, i)]
    OBVIOUS
  <2> DEFINE new == L - n
             h == [i \in From(n + 1) |-> IF i = new THEN head[i] \o f[next[i]] ELSE f[i]]
  <2>2. /\ new \in 1 .. L /\ new # L + 1 /\ From(n + 1) = {new} \cup From(n)
        /\ new \notin From(n) /\ \A i \in From(n + 1) : i # L + 1 => next[i] \in From(n)
    BY <1>2
  <2>3. ASSUME NEW i \in From(n + 1) PROVE h[i] = At(h, i)
    <3>1. i # L + 1 => h[next[i]] = f[next[i]]
      BY <2>2
    <3>2. CASE i = new
      BY <2>2, <3>1, <3>2
    <3>3. CASE i # new
      <4>1. i \in From(n) /\ h[i] = f[i]
        BY <2>2, <3>3
      <4>2. f[i] = At(f, i)
        BY <2>1, <4>1
      <4> QED
        BY <3>1, <4>1, <4>2
    <3> QED
      BY <3>2, <3>3
  <2>4. h = [i \in From(n + 1) |-> h[i]]
    OBVIOUS
  <2> HIDE DEF h, From
  <2>5. h = [i \in From(n + 1) |-> At(h, i)]
    BY <2>3, <2>4
  <2>6. n + 1 \in 0 .. L
    BY <1>2
  <2> QED
    BY <2>5, <2>6
<1> HIDE DEF B
<1>3. L \in B
  BY <1>1, <1>2, UpToBound
<1>4. From(L) = 1 .. L + 1
  OBVIOUS
<1> QED
  BY <1>3, <1>4 DEF B, GoesOnAt

\* The recursive function of ColonsOut, and its value.
OutAt(f, name, i) ==
    IF i = Len(name) + 1 THEN <<>>
    ELSE (IF name[i] = colon THEN colonTranscoded ELSE <<name[i]>>) \o f[i + 1]
OutOf(name) == CHOOSE f : f = [i \in 1 .. Len(name) + 1 |-> OutAt(f, name, i)]

\* ColonsOut has a value on every name, and unfolds.
LEMMA ColonsOutUnfolds ==
    ASSUME NEW name, Len(name) \in Nat
    PROVE  /\ ColonsOut(name) = OutOf(name)[1]
           /\ OutOf(name) = [i \in 1 .. Len(name) + 1 |-> OutAt(OutOf(name), name, i)]
<1>1. PICK head, next, f :
         /\ head = [i \in 1 .. Len(name) |-> IF name[i] = colon THEN colonTranscoded ELSE <<name[i]>>]
         /\ next = [i \in 1 .. Len(name) |-> i + 1]
         /\ GoesOnAt(f, Len(name), head, next)
  <2>1. PICK head, next :
           /\ head = [i \in 1 .. Len(name) |-> IF name[i] = colon THEN colonTranscoded ELSE <<name[i]>>]
           /\ next = [i \in 1 .. Len(name) |-> i + 1]
    OBVIOUS
  <2>2. \A i \in 1 .. Len(name) : next[i] \in i + 1 .. Len(name) + 1
    BY <2>1
  <2>3. \E f : GoesOnAt(f, Len(name), head, next)
    BY <2>2, LaterExist
  <2> QED
    BY <2>1, <2>3
<1>2. ASSUME NEW i \in 1 .. Len(name) + 1
      PROVE  (IF i = Len(name) + 1 THEN <<>> ELSE head[i] \o f[next[i]]) = OutAt(f, name, i)
  <2>1. i # Len(name) + 1 => i \in 1 .. Len(name)
    OBVIOUS
  <2> QED
    BY <1>1, <2>1 DEF OutAt
<1>3. f = [i \in 1 .. Len(name) + 1 |-> OutAt(f, name, i)]
  BY <1>1, <1>2 DEF GoesOnAt
<1> QED
  BY <1>3 DEF OutOf, OutAt, ColonsOut

\* The same for ColonsIn.
Pair(q, i) == i < Len(q) /\ <<q[i], q[i + 1]>> = colonTranscoded
InAt(f, q, i) ==
    CASE i = Len(q) + 1 -> <<>>
      [] Pair(q, i) -> <<colon>> \o f[i + 2]
      [] OTHER -> <<q[i]>> \o f[i + 1]
InOf(q) == CHOOSE f : f = [i \in 1 .. Len(q) + 1 |-> InAt(f, q, i)]

\* ColonsIn has a value on every sequence, and unfolds.
LEMMA ColonsInUnfolds ==
    ASSUME NEW q, Len(q) \in Nat
    PROVE  /\ ColonsIn(q) = InOf(q)[1]
           /\ InOf(q) = [i \in 1 .. Len(q) + 1 |-> InAt(InOf(q), q, i)]
<1>1. PICK head, next, f :
         /\ head = [i \in 1 .. Len(q) |-> IF Pair(q, i) THEN <<colon>> ELSE <<q[i]>>]
         /\ next = [i \in 1 .. Len(q) |-> IF Pair(q, i) THEN i + 2 ELSE i + 1]
         /\ GoesOnAt(f, Len(q), head, next)
  <2>1. PICK head, next :
           /\ head = [i \in 1 .. Len(q) |-> IF Pair(q, i) THEN <<colon>> ELSE <<q[i]>>]
           /\ next = [i \in 1 .. Len(q) |-> IF Pair(q, i) THEN i + 2 ELSE i + 1]
    OBVIOUS
  <2>2. \A i \in 1 .. Len(q) : next[i] \in i + 1 .. Len(q) + 1
    BY <2>1 DEF Pair
  <2>3. \E f : GoesOnAt(f, Len(q), head, next)
    BY <2>2, LaterExist
  <2> QED
    BY <2>1, <2>3
<1>2. ASSUME NEW i \in 1 .. Len(q) + 1
      PROVE  (IF i = Len(q) + 1 THEN <<>> ELSE head[i] \o f[next[i]]) = InAt(f, q, i)
  <2>1. i # Len(q) + 1 => i \in 1 .. Len(q)
    OBVIOUS
  <2>2. CASE i = Len(q) + 1
    BY <2>2 DEF InAt, Pair
  <2>3. CASE i # Len(q) + 1 /\ Pair(q, i)
    BY <1>1, <2>1, <2>3 DEF InAt
  <2>4. CASE i # Len(q) + 1 /\ ~Pair(q, i)
    BY <1>1, <2>1, <2>4 DEF InAt
  <2> QED
    BY <2>2, <2>3, <2>4
<1>3. f = [i \in 1 .. Len(q) + 1 |-> InAt(f, q, i)]
  BY <1>1, <1>2 DEF GoesOnAt
<1> QED
  BY <1>3 DEF InOf, InAt, Pair, ColonsIn

\* What stands for a character of a name.
Coded(c) == IF c = colon THEN colonTranscoded ELSE <<c>>

\* The rest r of a key is read as z, wherever it stands.
Reads(S, r, z) == \A b \in Seq(S) : InOf(b \o r)[Len(b) + 1] = z

\* One character of a name is read back from what stands for it, wherever it
\* stands, and the rest as before.
LEMMA ReadOne ==
    ASSUME NEW S, NEW a \in Seq(S), NEW p \in Seq(S), NEW r \in Seq(S), NEW c \in S,
           fieldSeparator \in S, c # fieldSeparator,
           p = Coded(c), NEW z, Reads(S, r, z)
    PROVE  InOf(a \o (p \o r))[Len(a) + 1] = <<c>> \o z
<1> DEFINE K == a \o (p \o r)
<1>1. K = (a \o p) \o r /\ a \o p \in Seq(S)
  BY ConcatAssociative, ConcatProperties
<1>2. /\ Len(a) \in Nat /\ Len(p) \in Nat /\ Len(r) \in Nat /\ Len(K) = Len(a) + Len(p) + Len(r)
      /\ Len(a \o p) = Len(a) + Len(p)
      /\ p \o r \in Seq(S) /\ Len(p \o r) = Len(p) + Len(r)
  BY ConcatProperties
<1>3. \A i \in 1 .. Len(p) : K[Len(a) + i] = p[i]
  <2> SUFFICES ASSUME NEW i \in 1 .. Len(p) PROVE K[Len(a) + i] = p[i]
    OBVIOUS
  <2>1. Len(a) + i \in 1 .. Len(a) + Len(p \o r) /\ ~(Len(a) + i <= Len(a))
        /\ (Len(a) + i) - Len(a) = i /\ i \in 1 .. Len(p) + Len(r) /\ i <= Len(p)
    BY <1>2
  <2>2. K[Len(a) + i] = (p \o r)[i]
    BY <1>2, <2>1, ConcatProperties
  <2> QED
    BY <1>2, <2>1, <2>2, ConcatProperties
<1> HIDE DEF K
<1>4. InOf(K)[Len(a \o p) + 1] = z
  BY <1>1 DEF Reads
<1>5. Len(K) \in Nat /\ InOf(K) = [i \in 1 .. Len(K) + 1 |-> InAt(InOf(K), K, i)]
  <2>1. Len(K) \in Nat
    BY <1>2
  <2> QED
    BY <2>1, ColonsInUnfolds
<1>6. ASSUME c = colon
      PROVE  InOf(K)[Len(a) + 1] = <<c>> \o InOf(K)[Len(a \o p) + 1]
  <2>1. p = <<fieldSeparator, fieldSeparator>> /\ Len(p) = 2
        /\ p[1] = fieldSeparator /\ p[2] = fieldSeparator
    BY <1>6 DEF Coded, colonTranscoded
  <2>2. K[Len(a) + 1] = fieldSeparator /\ K[(Len(a) + 1) + 1] = fieldSeparator
    <3>1. 1 \in 1 .. Len(p) /\ 2 \in 1 .. Len(p) /\ (Len(a) + 1) + 1 = Len(a) + 2
      BY <1>2, <2>1
    <3> QED
      BY <1>3, <2>1, <3>1
  <2>3. Pair(K, Len(a) + 1) /\ Len(a) + 1 \in 1 .. Len(K) + 1 /\ Len(a) + 1 # Len(K) + 1
    BY <1>2, <2>1, <2>2 DEF Pair, colonTranscoded
  <2>4. InOf(K)[Len(a) + 1] = InAt(InOf(K), K, Len(a) + 1)
    BY <1>5, <2>3
  <2>5. InAt(InOf(K), K, Len(a) + 1) = <<colon>> \o InOf(K)[(Len(a) + 1) + 2]
    BY <2>3 DEF InAt
  <2>6. (Len(a) + 1) + 2 = Len(a \o p) + 1
    <3>1. Len(a \o p) = Len(a) + 2 /\ Len(a) \in Nat
      BY <1>2, <2>1
    <3> QED
      BY <3>1
  <2> QED
    BY <1>6, <2>4, <2>5, <2>6
<1>7. ASSUME c # colon
      PROVE  InOf(K)[Len(a) + 1] = <<c>> \o InOf(K)[Len(a \o p) + 1]
  <2>1. p = <<c>> /\ Len(p) = 1 /\ p[1] = c
    BY <1>7 DEF Coded
  <2>2. K[Len(a) + 1] = c
    BY <1>2, <1>3, <2>1
  <2>3. ~Pair(K, Len(a) + 1) /\ Len(a) + 1 \in 1 .. Len(K) + 1 /\ Len(a) + 1 # Len(K) + 1
    BY <1>2, <2>1, <2>2 DEF Pair, colonTranscoded
  <2>4. InOf(K)[Len(a) + 1] = InAt(InOf(K), K, Len(a) + 1)
    BY <1>5, <2>3
  <2>5. InAt(InOf(K), K, Len(a) + 1) = <<K[Len(a) + 1]>> \o InOf(K)[(Len(a) + 1) + 1]
    BY <2>3 DEF InAt
  <2>6. (Len(a) + 1) + 1 = Len(a \o p) + 1
    BY <1>2, <2>1
  <2> QED
    BY <2>2, <2>4, <2>5, <2>6
<1> QED
  BY <1>6, <1>7, <1>4 DEF K

\* A name without separators comes back with all its colons, wherever they are
\* and however many stand next to each other (objmetadata.go:91-93, 122-126).
LEMMA ColonsRoundTrip ==
    ASSUME NEW S, NEW name \in Seq(S), fieldSeparator \in S,
           \A i \in 1 .. Len(name) : name[i] # fieldSeparator
    PROVE  ColonsOut(name) \in Seq(S) /\ ColonsIn(ColonsOut(name)) = name
<1> DEFINE N == Len(name)
           out == OutOf(name)
           Done(i) == /\ out[i] \in Seq(S)
                      /\ \A a \in Seq(S) : InOf(a \o out[i])[Len(a) + 1] = SubSeq(name, i, N)
           B == {m \in 0 .. N : Done((N + 1) - m)}
<1>1. N \in Nat /\ \A i \in 1 .. N : name[i] \in S
  OBVIOUS
<1>2. ColonsOut(name) = out[1] /\ out = [i \in 1 .. N + 1 |-> OutAt(out, name, i)]
  BY <1>1, ColonsOutUnfolds
<1> HIDE DEF out
<1>3. 0 \in B
  <2>1. out[N + 1] = <<>>
    BY <1>1, <1>2 DEF OutAt
  <2>2. ASSUME NEW a \in Seq(S) PROVE InOf(a \o out[N + 1])[Len(a) + 1] = SubSeq(name, N + 1, N)
    <3>1. a \o out[N + 1] = a /\ Len(a) \in Nat
      BY <2>1, ConcatEmptySeq
    <3>2. InOf(a)[Len(a) + 1] = <<>>
      <4>1. InOf(a) = [j \in 1 .. Len(a) + 1 |-> InAt(InOf(a), a, j)] /\ Len(a) + 1 \in 1 .. Len(a) + 1
        BY <3>1, ColonsInUnfolds
      <4>2. InAt(InOf(a), a, Len(a) + 1) = <<>>
        BY <3>1 DEF InAt, Pair
      <4> QED
        BY <4>1, <4>2
    <3>3. SubSeq(name, N + 1, N) = <<>>
      BY <1>1
    <3> QED
      BY <3>1, <3>2, <3>3
  <2>3. out[N + 1] \in Seq(S) /\ (N + 1) - 0 = N + 1 /\ 0 \in 0 .. N
    BY <1>1, <2>1
  <2> HIDE DEF N
  <2> QED
    BY <2>2, <2>3
<1>4. ASSUME NEW m \in B, m \in 0 .. N - 1 PROVE m + 1 \in B
  <2> DEFINE i == N - m
             c == name[i]
             p == Coded(c)
             r == out[i + 1]
  <2>1. i \in 1 .. N /\ (N + 1) - m = i + 1 /\ (N + 1) - (m + 1) = i /\ i # N + 1
        /\ i \in 1 .. N + 1 /\ m + 1 \in 0 .. N
    BY <1>1, <1>4
  <2> HIDE DEF i
  <2>2. out[i] = p \o r
    BY <1>2, <2>1 DEF OutAt, Coded
  <2>3. c \in S /\ c # fieldSeparator
    BY <1>1, <2>1
  <2>4. p \in Seq(S)
    BY <2>3 DEF colonTranscoded, Coded
  <2>5. Done(i + 1)
    BY <2>1
  <2>6. r \in Seq(S)
    BY <2>5
  <2>7. out[i] \in Seq(S)
    BY <2>2, <2>4, <2>6, ConcatProperties
  <2>8. ASSUME NEW a \in Seq(S) PROVE InOf(a \o out[i])[Len(a) + 1] = SubSeq(name, i, N)
    <3>1. <<name[i]>> \o SubSeq(name, i + 1, N) = SubSeq(name, i, N)
      BY <1>1, <2>1
    <3>2. Reads(S, r, SubSeq(name, i + 1, N))
      BY <2>5 DEF Reads
    <3>3. InOf(a \o (p \o r))[Len(a) + 1] = <<name[i]>> \o SubSeq(name, i + 1, N)
      <4>1. p = Coded(c)
        OBVIOUS
      <4>2. \A z : Reads(S, r, z) => InOf(a \o (p \o r))[Len(a) + 1] = <<c>> \o z
        <5> HIDE DEF p, c, r
        <5> QED
          BY <2>3, <2>4, <2>6, <4>1, ReadOne
      <4> QED
        BY <3>2, <4>2
    <3> QED
      BY <2>2, <3>1, <3>3
  <2> HIDE DEF N
  <2> QED
    BY <2>1, <2>7, <2>8
<1>5. Done(1)
  <2> HIDE DEF B
  <2>1. N \in B
    BY <1>1, <1>3, <1>4, UpToBound
  <2>2. (N + 1) - N = 1
    BY <1>1
  <2> QED
    BY <2>1, <2>2 DEF B
<1>6. InOf(<<>> \o out[1])[Len(<<>>) + 1] = SubSeq(name, 1, N) /\ out[1] \in Seq(S)
  <2>1. <<>> \in Seq(S)
    OBVIOUS
  <2> QED
    BY <1>5, <2>1
<1>7. <<>> \o out[1] = out[1] /\ Len(<<>>) + 1 = 1 /\ SubSeq(name, 1, N) = name
  BY <1>1, <1>6, ConcatEmptySeq
<1>8. ColonsIn(out[1]) = InOf(out[1])[1]
  <2>1. Len(out[1]) \in Nat
    BY <1>6
  <2> QED
    BY <2>1, ColonsInUnfolds
<1> QED
  BY <1>2, <1>6, <1>7, <1>8

\* What has no separators has no pair of them.
LEMMA ColonsInOfText ==
    ASSUME NEW S, NEW q \in Seq(S), \A i \in 1 .. Len(q) : q[i] # fieldSeparator
    PROVE  ColonsIn(q) = q
<1> DEFINE N == Len(q)
           B == {m \in 0 .. N : InOf(q)[(N + 1) - m] = SubSeq(q, (N + 1) - m, N)}
<1>1. N \in Nat /\ ColonsIn(q) = InOf(q)[1]
      /\ InOf(q) = [i \in 1 .. N + 1 |-> InAt(InOf(q), q, i)]
  <2>1. N \in Nat
    OBVIOUS
  <2> QED
    BY <2>1, ColonsInUnfolds
<1>2. 0 \in B
  <2>1. InOf(q)[N + 1] = InAt(InOf(q), q, N + 1)
    BY <1>1
  <2>2. InAt(InOf(q), q, N + 1) = <<>>
    BY <1>1 DEF InAt, Pair
  <2>3. SubSeq(q, N + 1, N) = <<>> /\ (N + 1) - 0 = N + 1 /\ 0 \in 0 .. N
    BY <1>1
  <2> HIDE DEF N
  <2> QED
    BY <2>1, <2>2, <2>3
<1>3. ASSUME NEW m \in B, m \in 0 .. N - 1 PROVE m + 1 \in B
  <2> DEFINE i == N - m
  <2>1. i \in 1 .. N /\ (N + 1) - m = i + 1 /\ (N + 1) - (m + 1) = i /\ i # N + 1
        /\ i \in 1 .. N + 1 /\ m + 1 \in 0 .. N
    BY <1>1, <1>3
  <2>2. InOf(q)[i + 1] = SubSeq(q, i + 1, N)
    BY <2>1
  <2> HIDE DEF i
  <2>3. InOf(q)[i] = InAt(InOf(q), q, i)
    BY <1>1, <2>1
  <2>4. InAt(InOf(q), q, i) = <<q[i]>> \o InOf(q)[i + 1]
    <3>1. ~Pair(q, i)
      BY <2>1 DEF Pair, colonTranscoded
    <3> QED
      BY <2>1, <3>1 DEF InAt
  <2>5. <<q[i]>> \o SubSeq(q, i + 1, N) = SubSeq(q, i, N)
    BY <1>1, <2>1
  <2> HIDE DEF N
  <2> QED
    BY <2>1, <2>2, <2>3, <2>4, <2>5
<1>4. N \in B
  <2> HIDE DEF B
  <2> QED
    BY <1>1, <1>2, <1>3, UpToBound
<1>5. (N + 1) - N = 1 /\ SubSeq(q, 1, N) = q
  BY <1>1
<1> QED
  BY <1>1, <1>4, <1>5

\* The separator is none of the groups and kinds.
LEMMA SeparatorIsNoWord ==
    fieldSeparator # "rbac" /\ fieldSeparator # "Role" /\ fieldSeparator # "Pod"
BY Zenon DEF fieldSeparator

\* A text is a sequence without separators.
LEMMA TextIs ==
    ASSUME NEW s, IsText(s)
    PROVE  /\ s \in Seq(Range(s)) /\ Len(s) \in Nat
           /\ \A i \in 1 .. Len(s) : s[i] # fieldSeparator
BY DEF IsText

\* Six sequences one after the other are the first and the other five.
InOne(e, m, f, g, k)   == e \o m \o f \o g \o f \o k
FirstOf(e, m, f, g, k) == e \o (m \o f \o g \o f \o k)

\* A key, with its first part taken off.
LEMMA FirstApart ==
    ASSUME NEW S, NEW e \in Seq(S), NEW m \in Seq(S), NEW f \in Seq(S), NEW g \in Seq(S),
           NEW k \in Seq(S)
    PROVE  InOne(e, m, f, g, k) = FirstOf(e, m, f, g, k)
<1> DEFINE mf == m \o f
           mfg == mf \o g
           mfgf == mfg \o f
<1>1. mf \in Seq(S)
  BY ConcatProperties
<1>2. (e \o m) \o f = e \o mf
  BY ConcatAssociative
<1> HIDE DEF mf
<1>3. mfg \in Seq(S)
  BY <1>1, ConcatProperties
<1>4. (e \o mf) \o g = e \o mfg
  BY <1>1, ConcatAssociative
<1> HIDE DEF mfg
<1>5. mfgf \in Seq(S)
  BY <1>3, ConcatProperties
<1>6. (e \o mfg) \o f = e \o mfgf
  BY <1>3, ConcatAssociative, SMTT(40)
<1> HIDE DEF mfgf
<1>7. (e \o mfgf) \o k = e \o (mfgf \o k)
  BY <1>5, ConcatAssociative
<1>8. e \o m \o f \o g \o f \o k = e \o (mfgf \o k)
  BY <1>2, <1>4, <1>6, <1>7
<1> QED
  BY <1>8 DEF mf, mfg, mfgf, InOne, FirstOf

\* The id of an object survives its key: neither a namespace that is empty nor
\* a name with colons at its ends or next to each other is taken for a
\* separator (objmetadata.go:70-131).
THEOREM KeyRoundTrip ==
    ASSUME NEW id, IsId(id)
    PROVE  ParseObjMetadata(Key(id)) = id
<1> DEFINE ns == id.namespace
           nm == IF id.rbac THEN ColonsOut(id.name) ELSE id.name
           g == IF id.rbac THEN <<"rbac">> ELSE <<>>
           k == IF id.rbac THEN <<"Role">> ELSE <<"Pod">>
           sep == <<fieldSeparator>>
           S == Range(ns) \cup Range(id.name) \cup {fieldSeparator, "rbac", "Role", "Pod"}
<1>1. /\ ns \in Seq(S) /\ \A i \in 1 .. Len(ns) : ns[i] # fieldSeparator
      /\ id.name \in Seq(S) /\ \A i \in 1 .. Len(id.name) : id.name[i] # fieldSeparator
      /\ fieldSeparator \in S /\ "rbac" \in S /\ "Role" \in S /\ "Pod" \in S
  <2>1. IsText(ns) /\ IsText(id.name)
    BY DEF IsId
  <2> QED
    BY <2>1, TextIs
<1> HIDE DEF S
<1>2. nm \in Seq(S) /\ ColonsIn(nm) = id.name
  BY <1>1, ColonsRoundTrip, ColonsInOfText
<1>3. /\ g \in Seq(S) /\ k \in Seq(S)
      /\ \A i \in 1 .. Len(g) : g[i] # fieldSeparator
      /\ \A i \in 1 .. Len(k) : k[i] # fieldSeparator
  BY <1>1, SeparatorIsNoWord
<1>4. (g = <<"rbac">>) = id.rbac
  BY DEF IsId
<1>5. Key(id) = ns \o sep \o nm \o sep \o g \o sep \o k
  BY DEF Key
<1> HIDE DEF nm, g, k, ns
<1> DEFINE key == Key(id)
           t == nm \o sep \o g
           s == t \o sep \o k
<1>6. sep \in Seq(S) /\ ns \o sep \in Seq(S)
  BY <1>1, ConcatProperties
<1>7. key = ns \o sep \o s
  <2> DEFINE e == ns \o sep
  <2>1. e \in Seq(S) /\ sep \in Seq(S) /\ nm \in Seq(S) /\ g \in Seq(S) /\ k \in Seq(S)
    BY <1>6, <1>2, <1>3
  <2> HIDE DEF e, sep
  <2>2. InOne(e, nm, sep, g, k) = FirstOf(e, nm, sep, g, k)
    BY <2>1, FirstApart
  <2> QED
    BY <1>5, <2>2 DEF e, sep, InOne, FirstOf
<1>8. t \in Seq(S) /\ s \in Seq(S)
  BY <1>1, <1>2, <1>3, Around
<1>9. /\ FirstSep(key) = Len(ns) + 1
      /\ SubSeq(key, 1, FirstSep(key) - 1) = ns
      /\ SubSeq(key, FirstSep(key) + 1, Len(key)) = s
  <2> HIDE DEF s, key
  <2>1. FirstSep(key) = Len(ns) + 1
    BY <1>1, <1>7, <1>8, FirstSepAt
  <2>2. SubSeq(key, 1, (Len(ns) + 1) - 1) = ns /\ SubSeq(key, (Len(ns) + 1) + 1, Len(key)) = s
    BY <1>1, <1>7, <1>8, Apart
  <2> QED
    BY <2>1, <2>2
<1>10. FinalSep(s) = Len(t) + 1 /\ SubSeq(s, 1, FinalSep(s) - 1) = t
  <2>1. s = t \o sep \o k
    OBVIOUS
  <2> HIDE DEF t, s
  <2>2. FinalSep(s) = Len(t) + 1
    BY <1>1, <1>3, <1>8, <2>1, FinalSepAt
  <2>3. SubSeq(s, 1, (Len(t) + 1) - 1) = t
    BY <1>1, <1>3, <1>8, <2>1, Apart
  <2> QED
    BY <2>2, <2>3
<1>11. /\ FinalSep(t) = Len(nm) + 1
       /\ SubSeq(t, 1, FinalSep(t) - 1) = nm
       /\ SubSeq(t, FinalSep(t) + 1, Len(t)) = g
  <2>1. t = nm \o sep \o g
    OBVIOUS
  <2> HIDE DEF t, s
  <2>2. FinalSep(t) = Len(nm) + 1
    BY <1>1, <1>2, <1>3, <2>1, FinalSepAt
  <2>3. SubSeq(t, 1, (Len(nm) + 1) - 1) = nm /\ SubSeq(t, (Len(nm) + 1) + 1, Len(t)) = g
    BY <1>1, <1>2, <1>3, <2>1, Apart
  <2> QED
    BY <2>2, <2>3
<1>12. Len(ns) \in Nat /\ Len(t) \in Nat /\ Len(nm) \in Nat
  BY <1>1, <1>2, <1>8
<1>13. ~Contains(id.name, fieldSeparator)
  BY <1>1 DEF Contains
<1> HIDE DEF s, t, key
<1>14. ParseObjMetadata(key) = [namespace |-> ns, name |-> id.name, rbac |-> id.rbac]
  <2>1. FirstSep(key) # 0 /\ FinalSep(s) # 0 /\ FinalSep(t) # 0
    BY <1>9, <1>10, <1>11, <1>12
  <2> QED
    BY <1>2, <1>4, <1>9, <1>10, <1>11, <1>13, <2>1 DEF ParseObjMetadata
<1> QED
  BY <1>14 DEF IsId, key, ns

----------------------------------------------------------------------------
(* What is stored and read back.                                           *)

\* What the assumption says of one inventory.
IsContent(inv) ==
    \A id \in inv.refs : IsId(id) /\ (id \in DOMAIN inv.statuses => inv.statuses[id] # "")

\* No object has the id that stands for a key that cannot be parsed.
LEMMA IdIsParsable ==
    ASSUME NEW id, IsId(id)
    PROVE  id # Unparsable
BY DEF IsId, Unparsable

\* The data of a ConfigMap say which objects an inventory has, and the status
\* of each (inventorycm.go:42-95).
LEMMA DataRoundTrip ==
    ASSUME NEW inv, IsContent(inv), NEW enabled \in BOOLEAN
    PROVE  /\ parseDataMap(buildDataMap(inv, enabled), enabled).readable = TRUE
           /\ parseDataMap(buildDataMap(inv, enabled), enabled).refs = inv.refs
           /\ enabled => \A id \in inv.refs :
                parseDataMap(buildDataMap(inv, enabled), enabled).statuses[id]
                  = IF id \in DOMAIN inv.statuses THEN inv.statuses[id] ELSE Unset
<1> DEFINE data == buildDataMap(inv, enabled)
           ids == {ParseObjMetadata(k) : k \in DOMAIN data}
<1>1. \A id \in inv.refs : IsId(id) /\ ParseObjMetadata(Key(id)) = id
  BY KeyRoundTrip DEF IsContent
<1>2. DOMAIN data = {Key(id) : id \in inv.refs}
  BY DEF buildDataMap
<1>3. ASSUME NEW id \in inv.refs
      PROVE  data[Key(id)] = IF enabled /\ id \in DOMAIN inv.statuses
                               THEN formatObjectStatus(inv.statuses[id]) ELSE ""
  <2> DEFINE owner == CHOOSE i \in inv.refs : Key(i) = Key(id)
  <2>1. owner \in inv.refs /\ Key(owner) = Key(id)
    OBVIOUS
  <2>2. owner = id
    BY <1>1, <2>1
  <2>3. data[Key(id)] = IF enabled /\ owner \in DOMAIN inv.statuses
                          THEN formatObjectStatus(inv.statuses[owner]) ELSE ""
    BY DEF buildDataMap
  <2> QED
    BY <2>2, <2>3
<1> HIDE DEF data
<1>4. ids = inv.refs
  BY <1>1, <1>2
<1>5. Unparsable \notin ids
  BY <1>1, <1>4, IdIsParsable
<1>6. ASSUME NEW id \in inv.refs
      PROVE  parseObjectStatus(data[CHOOSE k \in DOMAIN data : ParseObjMetadata(k) = id])
                = IF enabled /\ id \in DOMAIN inv.statuses THEN inv.statuses[id] ELSE Unset
  <2> DEFINE key == CHOOSE k \in DOMAIN data : ParseObjMetadata(k) = id
  <2>1. key \in DOMAIN data /\ ParseObjMetadata(key) = id
    <3>1. Key(id) \in DOMAIN data /\ ParseObjMetadata(Key(id)) = id
      BY <1>1, <1>2
    <3> QED
      BY <3>1
  <2>2. key = Key(id)
    BY <1>1, <1>2, <2>1
  <2> HIDE DEF key
  <2>3. id \in DOMAIN inv.statuses => inv.statuses[id] # ""
    BY DEF IsContent
  <2>4. parseObjectStatus(data[key])
           = IF enabled /\ id \in DOMAIN inv.statuses THEN inv.statuses[id] ELSE Unset
    BY <1>3, <2>2, <2>3 DEF parseObjectStatus, formatObjectStatus
  <2> QED
    BY <2>4 DEF key
<1> DEFINE Status(id) == parseObjectStatus(data[CHOOSE k \in DOMAIN data : ParseObjMetadata(k) = id])
           statuses == [id \in IF enabled THEN ids ELSE {} |-> Status(id)]
<1>7. parseDataMap(data, enabled)
        = [readable |-> Unparsable \notin ids, refs |-> ids, statuses |-> statuses]
  BY DEF parseDataMap
<1>8. ASSUME enabled, NEW id \in inv.refs
      PROVE  statuses[id] = IF id \in DOMAIN inv.statuses THEN inv.statuses[id] ELSE Unset
  <2> HIDE DEF ids, Status
  <2>1. statuses[id] = Status(id)
    BY <1>4, <1>8
  <2> QED
    BY <1>6, <1>8, <2>1 DEF Status
<1> HIDE DEF data, ids, statuses
<1>9. /\ parseDataMap(data, enabled).refs = ids
      /\ parseDataMap(data, enabled).statuses = statuses
  BY <1>7
<1>10. parseDataMap(data, enabled).readable = TRUE
  <2>1. (Unparsable \notin ids) = TRUE
    BY <1>5, Zenon
  <2>2. parseDataMap(data, enabled) = [readable |-> TRUE, refs |-> ids, statuses |-> statuses]
    BY <1>7, <2>1, Zenon
  <2> QED
    BY <2>2
<1> QED
  BY <1>4, <1>8, <1>9, <1>10 DEF data

\* What is stored is what the last one who stored a spec was called with.
ReadInv ==
    /\ \A c \in Clients : call[c].kind = "write" => call[c].inv \in Contents
    /\ stored # Absent => author.spec \in Contents /\ stored.spec = toUnstructured(author.spec)

\* So it is read back.
LEMMA ReadInvImplies ==
    ASSUME ReadInv, mode \in Modes
    PROVE  ReadBack
<1> SUFFICES ASSUME stored # Absent
             PROVE  LET inv == fromUnstructured(stored.spec)
                    IN  /\ inv.readable
                        /\ inv.refs = author.spec.refs
                        /\ mode = "ConfigMap" => \A id \in inv.refs :
                             inv.statuses[id] = IF id \in DOMAIN author.spec.statuses
                                                  THEN author.spec.statuses[id] ELSE Unset
  BY DEF ReadBack
<1> DEFINE written == author.spec
<1>1. IsContent(written) /\ stored.spec = toUnstructured(written)
  BY ContentsAssumption DEF ReadInv, IsContent
<1> HIDE DEF written
<1>2. CASE HasStatus
  <2>1. DOMAIN stored.spec = written.refs
    BY <1>1, <1>2 DEF toUnstructured, HasStatus
  <2> QED
    BY <1>2, <2>1 DEF fromUnstructured, written, HasStatus
<1>3. CASE mode = "ConfigMap"
  <2>1. fromUnstructured(stored.spec) = parseDataMap(buildDataMap(written, TRUE), TRUE)
    BY <1>1, <1>3 DEF toUnstructured, fromUnstructured, HasStatus
  <2>2. /\ parseDataMap(buildDataMap(written, TRUE), TRUE).readable = TRUE
        /\ parseDataMap(buildDataMap(written, TRUE), TRUE).refs = written.refs
        /\ \A id \in written.refs :
             parseDataMap(buildDataMap(written, TRUE), TRUE).statuses[id]
               = IF id \in DOMAIN written.statuses THEN written.statuses[id] ELSE Unset
    BY <1>1, DataRoundTrip, Zenon
  <2> QED
    BY <1>3, <2>1, <2>2 DEF written
<1>4. CASE mode = "ConfigMapOnly"
  <2>1. fromUnstructured(stored.spec) = parseDataMap(buildDataMap(written, FALSE), FALSE)
    BY <1>1, <1>4 DEF toUnstructured, fromUnstructured, HasStatus
  <2>2. /\ fromUnstructured(stored.spec).readable = TRUE
        /\ fromUnstructured(stored.spec).refs = written.refs
    BY <1>1, <2>1, DataRoundTrip
  <2> QED
    BY <1>4, <2>2 DEF written
<1> QED
  BY <1>2, <1>3, <1>4, ClientAssumption DEF HasStatus

\* A step of a client keeps ReadInv.
LEMMA ReadInvStep ==
    ASSUME ClientInv, AuthorInv, ReadInv, NEW c \in Clients, Effects(c), ClientNext(c)
    PROVE  ReadInv'
<1>1. OthersStay(c) /\ mode' = mode
  BY DEF Effects
<1>2. \A inv : toUnstructured(inv)' = toUnstructured(inv)
  BY <1>1 DEF toUnstructured, HasStatus
<1>3. CASE Begins(c)
  <2>1. Begin(c)
    BY <1>3 DEF Begins, ClientNext, ReadObject, WriteSpec, WriteStatus, Delete, Crash
  <2>2. call'[c].kind = "write" => call'[c].inv \in Contents
    BY <2>1 DEF Begin, ClientInv, ControlInv, ControlTypes
  <2> QED
    BY <1>1, <1>2, <1>3, <2>2 DEF Begins, ReadInv, OthersStay
<1>4. CASE GoesOn(c) \/ Deletes(c)
  BY <1>1, <1>2, <1>4 DEF GoesOn, Deletes, ReadInv
<1>5. CASE StoresSpec(c)
  <2>1. call[c].inv \in Contents
    BY <1>5 DEF StoresSpec, ReadInv, ClientInv, ControlInv, Progress
  <2> QED
    BY <1>1, <1>2, <1>5, <2>1 DEF StoresSpec, ReadInv
<1>6. CASE StoresStatus(c)
  BY <1>1, <1>2, <1>6 DEF StoresStatus, ReadInv
<1> QED
  BY <1>3, <1>4, <1>5, <1>6 DEF Effects

\* ReadInv holds throughout.
LEMMA ReadInvHolds == Spec => [](mode \in Modes /\ ReadInv)
<1>1. Init => mode \in Modes /\ ReadInv
  BY DEF Init, ReadInv
<1>2. /\ ClientInv /\ AuthorInv /\ mode \in Modes /\ ReadInv /\ [Next]_vars
      => (mode \in Modes /\ ReadInv)'
  <2> SUFFICES ASSUME ClientInv, AuthorInv, mode \in Modes, ReadInv, [Next]_vars
               PROVE  (mode \in Modes /\ ReadInv)'
    OBVIOUS
  <2>1. ASSUME NEW c \in Clients, ClientNext(c) PROVE (mode \in Modes /\ ReadInv)'
    <3>1. Effects(c)
      BY <2>1, SpecEffect, StatusEffect, OtherEffect DEF ClientNext
    <3>2. ReadInv'
      BY <2>1, <3>1, ReadInvStep
    <3> QED
      BY <3>1, <3>2 DEF Effects
  <2>2. ASSUME UNCHANGED <<mode, call, author>>,
               stored' # Absent => stored # Absent /\ stored'.spec = stored.spec
        PROVE  (mode \in Modes /\ ReadInv)'
    <3>1. \A inv : toUnstructured(inv)' = toUnstructured(inv)
      BY <2>2 DEF toUnstructured, HasStatus
    <3> QED
      BY <2>2, <3>1 DEF ReadInv
  <2>3. CASE Note
    <3>1. IsObject(stored) /\ stored # Absent
      BY <2>3 DEF Note, ClientInv, ServerInv
    <3>2. stored'.spec = stored.spec
      BY <2>3, <3>1 DEF Note, IsObject, ObjectFields
    <3> QED
      BY <2>2, <2>3, <3>1, <3>2 DEF Note, calling, history
  <2>4. CASE UNCHANGED vars
    BY <2>2, <2>4 DEF vars, calling, history
  <2> QED
    BY <2>1, <2>3, <2>4 DEF Next, Finished
<1> QED
  BY <1>1, <1>2, ClientInvHolds, CallInvariants, PTL DEF Spec

\* Whatever fails, conflicts or crashes, Get reads back the references that
\* were last stored, and in a ConfigMap with statuses the status of each
\* (inventorycm.go:42-156, inventory-client.go:314-327).
THEOREM ReadBackHolds == Spec => []ReadBack
<1>1. mode \in Modes /\ ReadInv => ReadBack
  BY ReadInvImplies
<1> QED
  BY <1>1, ReadInvHolds, PTL
=============================================================================
