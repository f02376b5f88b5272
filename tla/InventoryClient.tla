--------------------------- MODULE InventoryClient ---------------------------
(***************************************************************************)
(* UnstructuredClient (pkg/inventory/inventory-client.go), which keeps the *)
(* inventory of a package in one object of the cluster, with the two forms *)
(* of that object: the ConfigMap of inventorycm.go, whose keys are object  *)
(* ids and whose values are statuses, and a custom resource with a status  *)
(* subresource (test/e2e/customprovider), whose CRD either has no          *)
(* status.observedGeneration, as that provider's, or defaults it to 0, as  *)
(* the comment of inventory-client.go:418-420 asks.  Several clients work  *)
(* on one object, somebody else changes its other metadata, answers are    *)
(* lost and clients crash.  The API server is external.                    *)
(***************************************************************************)
EXTENDS Integers, FiniteSets, Sequences, SequencesExt

CONSTANTS
    Clients,    \* processes that call the client
    Contents,   \* inventories they write: [refs, statuses]
    Modes,      \* forms of the inventory object
    OtherMaps,  \* keys of the other ConfigMaps of the cluster
    Steps,      \* bound: attempts of retry.DefaultRetry, 5 in client-go
    MaxCalls, MaxNotes, MaxFaults  \* bounds: calls, foreign changes, failures

ASSUME ClientAssumption ==
    /\ Modes \subseteq {"ConfigMap", "ConfigMapOnly", "Custom", "CustomObserved"}
    /\ Steps \in Nat \ {0}
    /\ {MaxCalls, MaxNotes, MaxFaults} \subseteq Nat

fieldSeparator  == "_"
colonTranscoded == <<fieldSeparator, fieldSeparator>>
colon == ":"

\* A separator "is not allowed as a character in resource name"
\* (objmetadata.go:30-32), a name is not empty, and the text of a status is not.
IsText(s) == s \in Seq(Range(s) \ {fieldSeparator})
IsId(id) ==
    /\ id = [namespace |-> id.namespace, name |-> id.name, rbac |-> id.rbac]
    /\ IsText(id.namespace) /\ IsText(id.name) /\ id.name # <<>> /\ id.rbac \in BOOLEAN

ASSUME ContentsAssumption ==
    \A inv \in Contents : \A id \in inv.refs :
        IsId(id) /\ (id \in DOMAIN inv.statuses => inv.statuses[id] # "")

Absent == [kind |-> "absent"]
Unset == "unset"   \* the zero ObjectStatus
NoContent == [refs |-> {}, statuses |-> <<>>]

VARIABLES
    mode,    \* form of the inventory object
    stored,  \* the inventory object in the cluster, or Absent
    clock,   \* the last resource version the server gave out
    notes,   \* foreign changes so far
    calls, faults, \* calls and failures so far
    pc,      \* where each client is
    call,    \* what it was called with
    obj,     \* obj in CreateOrUpdate
    attempt, \* attempt in CreateOrUpdate
    result,  \* what its last call returned
    \* History variables.
    author,  \* the contents of the last spec and of the last status written
    overlap, \* two calls have been open at one time
    did,     \* what of its own call each client has seen hold in the cluster
    disturbed \* clients that another one wrote after since their call began

calling == <<pc, call, obj, attempt, result>>
history == <<author, overlap, did, disturbed>>
vars == <<mode, stored, clock, notes, calls, faults, calling, history>>

----------------------------------------------------------------------------
(* Keys: an object id as a sequence of characters, "_" between the fields. *)

ColonsOut(name) ==
    LET out[i \in 1 .. Len(name) + 1] ==
            IF i = Len(name) + 1 THEN <<>>
            ELSE (IF name[i] = colon THEN colonTranscoded ELSE <<name[i]>>) \o out[i + 1]
    IN  out[1]

\* strings.ReplaceAll(name, "__", ":"): pairs from the left.
ColonsIn(name) ==
    LET from[i \in 1 .. Len(name) + 1] ==
            CASE i = Len(name) + 1 -> <<>>
              [] i < Len(name) /\ <<name[i], name[i + 1]>> = colonTranscoded
                                   -> <<colon>> \o from[i + 2]
              [] OTHER -> <<name[i]>> \o from[i + 1]
    IN  from[1]

\* ObjMetadata.String.  Only RBAC names may hold a colon.
Key(id) ==
    id.namespace \o <<fieldSeparator>>
    \o (IF id.rbac THEN ColonsOut(id.name) ELSE id.name)
    \o <<fieldSeparator>> \o (IF id.rbac THEN <<"rbac">> ELSE <<>>)
    \o <<fieldSeparator>> \o (IF id.rbac THEN <<"Role">> ELSE <<"Pod">>)

FirstSep(s) == SelectInSeq(s, LAMBDA c : c = fieldSeparator)
FinalSep(s) == SelectLastInSeq(s, LAMBDA c : c = fieldSeparator)
Unparsable == [namespace |-> <<>>, name |-> <<>>, rbac |-> FALSE]

\* Mutant: the name is taken up to the first separator.
ParseToFirst(key) ==
    LET s == SubSeq(key, FirstSep(key) + 1, Len(key))
        t == SubSeq(s, 1, FinalSep(s) - 1)
        group == SubSeq(t, FinalSep(t) + 1, Len(t))
        name == ColonsIn(SubSeq(t, 1, FirstSep(t) - 1))
    IN  IF FirstSep(key) = 0 \/ FinalSep(s) = 0 \/ FinalSep(t) = 0
            \/ Contains(name, fieldSeparator)
          THEN Unparsable
          ELSE [namespace |-> SubSeq(key, 1, FirstSep(key) - 1), name |-> name,
                rbac |-> group = <<"rbac">>]

\* ParseObjMetadata: the namespace ends at the first separator, the kind and
\* the group start at the last two.
ParseObjMetadata(key) ==
    LET s == SubSeq(key, FirstSep(key) + 1, Len(key))
        t == SubSeq(s, 1, FinalSep(s) - 1)
        group == SubSeq(t, FinalSep(t) + 1, Len(t))
        name == ColonsIn(SubSeq(t, 1, FinalSep(t) - 1))
    IN  IF FirstSep(key) = 0 \/ FinalSep(s) = 0 \/ FinalSep(t) = 0
            \/ Contains(name, fieldSeparator)
          THEN Unparsable
          ELSE [namespace |-> SubSeq(key, 1, FirstSep(key) - 1), name |-> name,
                rbac |-> group = <<"rbac">>]

----------------------------------------------------------------------------
(* From an inventory to the stored object and back.                        *)

formatObjectStatus(status) == IF status = Unset THEN "" ELSE status
parseObjectStatus(text)    == IF text = "" THEN Unset ELSE text

\* buildDataMap: statuses of objects that are not listed are left out.
buildDataMap(inv, statusEnabled) ==
    [k \in {Key(id) : id \in inv.refs} |->
        LET id == CHOOSE i \in inv.refs : Key(i) = k
        IN  IF statusEnabled /\ id \in DOMAIN inv.statuses
              THEN formatObjectStatus(inv.statuses[id]) ELSE ""]

\* toUnstructuredStatus is nil for a ConfigMap.
HasStatus == mode \in {"Custom", "CustomObserved"}

\* toUnstructured: the field CreateOrUpdate writes with Create or Update.
toUnstructured(inv) ==
    CASE mode = "ConfigMap"     -> buildDataMap(inv, TRUE)
      [] mode = "ConfigMapOnly" -> buildDataMap(inv, FALSE)
      [] HasStatus              -> [id \in inv.refs |-> ""]

\* fromUnstructured of Get, for the data of a ConfigMap.
parseDataMap(data, statusEnabled) ==
    LET ids == {ParseObjMetadata(k) : k \in DOMAIN data} IN
    [readable |-> Unparsable \notin ids,
     refs     |-> ids,
     statuses |-> [id \in IF statusEnabled THEN ids ELSE {} |->
        parseObjectStatus(data[CHOOSE k \in DOMAIN data : ParseObjMetadata(k) = id])]]

fromUnstructured(spec) ==
    IF HasStatus
      THEN [readable |-> TRUE, refs |-> DOMAIN spec, statuses |-> <<>>]
      ELSE parseDataMap(spec, mode = "ConfigMap")

\* List asks for every object of the kind, in all namespaces and without a
\* label selector, and returns the first error of fromUnstructured.
List ==
    {fromUnstructured(stored.spec) : x \in IF stored = Absent THEN {} ELSE {1}}
    \cup IF HasStatus THEN {}
         ELSE {fromUnstructured([k \in keys |-> ""]) : keys \in OtherMaps}

----------------------------------------------------------------------------
(* The API server.  A write that changes nothing keeps the resource        *)
(* version, and a change of the spec counts the generation up.             *)

\* status.observedGeneration of an object whose status nobody wrote: the CRD's
\* default, or no such field.
NoField == -1
ObservedDefault == IF mode = "CustomObserved" THEN 0 ELSE NoField

Fields(o) == <<o.spec, o.status, o.observed, o.foreign>>

Store(o) ==
    IF Fields(o) = Fields(stored)
      THEN UNCHANGED <<stored, clock>>
      ELSE /\ clock' = clock + 1
           /\ stored' = [o EXCEPT !.rv = clock + 1]

CreateObject(spec) ==
    /\ clock' = clock + 1
    /\ stored' = [kind |-> "inventory", rv |-> clock + 1, gen |-> 1, spec |-> spec,
                  status |-> <<>>, observed |-> ObservedDefault, foreign |-> 0]

\* Update stores the copy the client read and changed, metadata and all; the
\* status is not its to change.
UpdateSpec(c, spec) ==
    Store([obj[c] EXCEPT !.spec = spec,
                         !.status = stored.status, !.observed = stored.observed,
                         !.gen = IF spec = stored.spec THEN stored.gen ELSE stored.gen + 1])

\* UpdateStatus changes nothing but the status.
UpdateStatus(status, observed) ==
    Store([stored EXCEPT !.status = status, !.observed = observed])

\* The changes that keep the history: client c has made this step.
Holding(c) ==
    {f \in {"spec", "status", "gone"} :
        \/ f = "gone" /\ stored' = Absent
        \/ f = "spec" /\ stored' # Absent /\ stored'.spec = toUnstructured(call'[c].inv)
        \/ f = "status" /\ stored' # Absent /\ stored'.status = call'[c].inv.statuses}

Observe(c) ==
    /\ did' = [d \in Clients |->
                (IF pc[d] = "idle" /\ pc'[d] # "idle" THEN {} ELSE did[d])
                \cup IF pc[d] = "idle" /\ pc'[d] = "idle" THEN {} ELSE Holding(d)]
    /\ disturbed' = IF stored' # stored
                      THEN disturbed \cup (Clients \ {c})
                      ELSE {d \in disturbed : ~(pc[d] = "idle" /\ pc'[d] # "idle")}
    /\ overlap' = (overlap \/ \E d, e \in Clients : d # e /\ pc'[d] # "idle" /\ pc'[e] # "idle")

----------------------------------------------------------------------------
(* Control of one client.                                                  *)

Goto(c, label) == pc' = [pc EXCEPT ![c] = label]

Return(c, r) ==
    /\ Goto(c, "idle")
    /\ result' = [result EXCEPT ![c] = r]
    /\ obj' = [obj EXCEPT ![c] = Absent]
    /\ attempt' = [attempt EXCEPT ![c] = 0]
    /\ UNCHANGED call

\* RetryOnConflict: a conflict is tried again until the steps are used up, and
\* every other error is returned at once.
\* Mutant: one attempt too many.
RetryTooOften(c, label) ==
    IF attempt[c] < Steps
      THEN /\ Goto(c, label)
           /\ attempt' = [attempt EXCEPT ![c] = @ + 1]
           /\ obj' = [obj EXCEPT ![c] = Absent]
           /\ UNCHANGED <<call, result>>
      ELSE Return(c, "error")

\* Mutant: the last conflict is not returned.
RetrySwallowed(c, label) ==
    IF attempt[c] + 1 < Steps
      THEN /\ Goto(c, label)
           /\ attempt' = [attempt EXCEPT ![c] = @ + 1]
           /\ obj' = [obj EXCEPT ![c] = Absent]
           /\ UNCHANGED <<call, result>>
      ELSE Return(c, "ok")

RetryOnConflict(c, label) ==
    IF attempt[c] + 1 < Steps
      THEN /\ Goto(c, label)
           /\ attempt' = [attempt EXCEPT ![c] = @ + 1]
           /\ obj' = [obj EXCEPT ![c] = Absent]
           /\ UNCHANGED <<call, result>>
      ELSE Return(c, "error")

\* A request fails before it reaches the server, or its answer is lost.
Fails == faults < MaxFaults /\ faults' = faults + 1

Begin(c) ==
    /\ pc[c] = "idle" /\ calls < MaxCalls
    /\ calls' = calls + 1
    /\ \/ \E inv \in Contents :
            call' = [call EXCEPT ![c] = [kind |-> "write", inv |-> inv]] /\ Goto(c, "get")
       \/ call' = [call EXCEPT ![c] = [kind |-> "delete", inv |-> NoContent]] /\ Goto(c, "delete")
    /\ result' = [result EXCEPT ![c] = "none"]
    /\ UNCHANGED <<mode, stored, clock, notes, faults, obj, attempt, author>>
    /\ Observe(c)

\* The Get of an attempt: of the spec part and, from the second attempt on, of
\* the status part, where a missing object is an error.
ReadObject(c) ==
    /\ pc[c] \in {"get", "getStatus"}
    /\ \/ /\ pc[c] = "get" \/ stored # Absent
          /\ obj' = [obj EXCEPT ![c] = stored]
          /\ Goto(c, IF pc[c] = "get" THEN "write" ELSE "status")
          /\ UNCHANGED <<call, attempt, result, faults>>
       \/ pc[c] = "getStatus" /\ stored = Absent /\ Return(c, "error") /\ UNCHANGED faults
       \/ Fails /\ Return(c, "error")
    /\ UNCHANGED <<mode, stored, clock, notes, calls, author>>
    /\ Observe(c)

\* The spec is stored: the answer becomes obj, and the status part begins with
\* its own count of attempts.
SpecStored(c) ==
    IF HasStatus
      THEN /\ Goto(c, "status")
           /\ obj' = [obj EXCEPT ![c] = stored']
           /\ attempt' = [attempt EXCEPT ![c] = 0]
           /\ UNCHANGED <<call, result>>
      ELSE Return(c, "ok")

\* Create or Update of an attempt of the spec part.
\* Mutant: the update carries no resource version, so that it never conflicts.
WriteUnconditionally(c) ==
    /\ pc[c] = "write"
    /\ LET spec == toUnstructured(call[c].inv) IN
       /\ IF obj[c] = Absent
            THEN stored = Absent /\ CreateObject(spec)
            ELSE stored # Absent /\ UpdateSpec(c, spec)
       /\ SpecStored(c)
       /\ author' = [author EXCEPT !.spec = call[c].inv]
       /\ UNCHANGED faults
    /\ UNCHANGED <<mode, notes, calls>>
    /\ Observe(c)

WriteSpec(c) ==
    /\ pc[c] = "write"
    /\ LET spec == toUnstructured(call[c].inv)
           allowed == IF obj[c] = Absent THEN stored = Absent
                      ELSE stored # Absent /\ stored.rv = obj[c].rv
       IN
       \/ /\ allowed
          /\ IF obj[c] = Absent THEN CreateObject(spec) ELSE UpdateSpec(c, spec)
          /\ author' = [author EXCEPT !.spec = call[c].inv,
                                      !.status = IF obj[c] = Absent THEN NoContent ELSE @]
          /\ \/ SpecStored(c) /\ UNCHANGED faults
             \/ Fails /\ Return(c, "error")
       \/ /\ obj[c] # Absent /\ stored # Absent /\ stored.rv # obj[c].rv
          /\ RetryOnConflict(c, "get")
          /\ UNCHANGED <<stored, clock, author, faults>>
       \/ \* AlreadyExists, NotFound, or a request that did not arrive.
          /\ IF (obj[c] = Absent) # (stored = Absent) THEN UNCHANGED faults ELSE Fails
          /\ Return(c, "error")
          /\ UNCHANGED <<stored, clock, author>>
    /\ UNCHANGED <<mode, notes, calls>>
    /\ Observe(c)

\* Mutants: the field is left as it is, and the next generation is expected.
ObservedAsRead(c) == obj[c].observed
ObservedAhead(c) == IF call[c].inv.statuses = <<>> THEN ObservedDefault ELSE obj[c].gen + 1

\* The observedGeneration a status write leaves: the generation of the copy it
\* is made from, if that has the field.  A status without entries is removed
\* and the field with it, so that the server fills in the default again.
Observed(c) ==
    IF call[c].inv.statuses = <<>> THEN ObservedDefault
    ELSE IF obj[c].observed = NoField THEN NoField
    ELSE obj[c].gen

WriteStatus(c) ==
    /\ pc[c] = "status"
    /\ \/ /\ stored # Absent /\ stored.rv = obj[c].rv
          /\ UpdateStatus(call[c].inv.statuses, Observed(c))
          /\ author' = [author EXCEPT !.status = call[c].inv]
          /\ \/ Return(c, "ok") /\ UNCHANGED faults
             \/ Fails /\ Return(c, "error")
       \/ /\ stored # Absent /\ stored.rv # obj[c].rv
          /\ RetryOnConflict(c, "getStatus")
          /\ UNCHANGED <<stored, clock, author, faults>>
       \/ /\ IF stored = Absent THEN UNCHANGED faults ELSE Fails
          /\ Return(c, "error")
          /\ UNCHANGED <<stored, clock, author>>
    /\ UNCHANGED <<mode, notes, calls>>
    /\ Observe(c)

\* Delete: that the object does not exist is no error.
Delete(c) ==
    /\ pc[c] = "delete"
    /\ \/ /\ stored' = Absent
          /\ \/ Return(c, "ok") /\ UNCHANGED faults
             \/ Fails /\ Return(c, "error")
       \/ Fails /\ Return(c, "error") /\ UNCHANGED stored
    /\ UNCHANGED <<mode, clock, notes, calls, author>>
    /\ Observe(c)

Crash(c) ==
    /\ pc[c] # "idle"
    /\ Return(c, "none")
    /\ Fails
    /\ UNCHANGED <<mode, stored, clock, notes, calls, author>>
    /\ Observe(c)

\* Somebody else changes a label or an annotation of the object.
Note ==
    /\ stored # Absent /\ notes < MaxNotes
    /\ notes' = notes + 1
    /\ clock' = clock + 1
    /\ stored' = [stored EXCEPT !.foreign = notes + 1, !.rv = clock + 1]
    /\ UNCHANGED <<mode, calls, faults, calling, history>>

----------------------------------------------------------------------------

Init ==
    /\ mode \in Modes
    /\ stored = Absent /\ clock = 0 /\ notes = 0 /\ calls = 0 /\ faults = 0
    /\ pc = [c \in Clients |-> "idle"]
    /\ call = [c \in Clients |-> [kind |-> "none", inv |-> NoContent]]
    /\ obj = [c \in Clients |-> Absent]
    /\ attempt = [c \in Clients |-> 0]
    /\ result = [c \in Clients |-> "none"]
    /\ author = [spec |-> NoContent, status |-> NoContent]
    /\ overlap = FALSE
    /\ did = [c \in Clients |-> {}]
    /\ disturbed = {}

ClientNext(c) ==
    Begin(c) \/ ReadObject(c) \/ WriteSpec(c) \/ WriteStatus(c) \/ Delete(c) \/ Crash(c)

\* Every client has returned and none will be called again.
Finished == (\A c \in Clients : pc[c] = "idle") /\ UNCHANGED vars

Next == (\E c \in Clients : ClientNext(c)) \/ Note \/ Finished

Spec == Init /\ [][Next]_vars

----------------------------------------------------------------------------

\* Type invariant.
ClientTypeOK ==
    /\ mode \in Modes
    /\ stored # Absent =>
         /\ stored.rv \in 1 .. clock /\ stored.foreign \in 0 .. notes
         /\ stored.observed \in ObservedDefault .. stored.gen
    /\ pc \in [Clients -> {"idle", "get", "write", "getStatus", "status", "delete"}]
    /\ attempt \in [Clients -> 0 .. Steps - 1]
    /\ result \in [Clients -> {"none", "ok", "error"}]
    /\ \A c \in Clients : pc[c] = "status" => obj[c] # Absent

\* A write of the inventory keeps what others changed on the object: the copy
\* that is written back is refused when it is older than the object
\* (CreateOrUpdate reads, changes and writes with the resource version read).
ForeignKept ==
    [][(stored # Absent /\ stored' # Absent /\ notes' = notes)
        => stored'.foreign = stored.foreign]_vars

\* A call that returned no error has had its effect at some moment since it
\* began, whatever conflicted with it.
NilMeansDone ==
    \A c \in Clients : pc[c] = "idle" /\ result[c] = "ok" =>
        CASE call[c].kind = "write"  -> {"spec"} \cup (IF HasStatus THEN {"status"} ELSE {}) \subseteq did[c]
          [] call[c].kind = "delete" -> "gone" \in did[c]

\* The effect is whole when nobody else wrote an inventory meanwhile, even if
\* conflicts made both parts be tried again: spec and status are those of the
\* one call and, where the CRD defaults the field as the comment of
\* inventory-client.go:418-420 asks, the status claims the generation of that
\* spec (413-425).
UndisturbedIsComplete ==
    \A c \in Clients \ disturbed :
        pc[c] = "idle" /\ result[c] = "ok" /\ call[c].kind = "write" =>
            /\ stored # Absent
            /\ stored.spec = toUnstructured(call[c].inv)
            /\ HasStatus => /\ stored.status = call[c].inv.statuses
                            /\ stored.status # <<>> /\ mode = "CustomObserved"
                                 => stored.observed = stored.gen

\* A status that claims to be of the current spec was computed with it, even
\* after a call that failed or crashed between its two writes, as long as two
\* calls never overlap.  A status without the field claims nothing.
ObservedIsOfTheSpec ==
    ~overlap /\ stored # Absent /\ HasStatus =>
        (stored.observed = stored.gen => author.status.refs = author.spec.refs)

\* What Get reads back is what was written: the references, and in a ConfigMap
\* with statuses the status of each, "unset" when none was given.
ReadBack ==
    stored # Absent =>
        LET inv == fromUnstructured(stored.spec) IN
        /\ inv.readable
        /\ inv.refs = author.spec.refs
        /\ mode = "ConfigMap" => \A id \in inv.refs :
             inv.statuses[id] = IF id \in DOMAIN author.spec.statuses
                                  THEN author.spec.statuses[id] ELSE Unset

\* List reads the inventories of the cluster ("List the inventory objects from
\* the cluster", inventory-client.go:135) whatever else is stored in it.
ListReadsInventories == stored # Absent => \A inv \in List : inv.readable
==============================================================================
