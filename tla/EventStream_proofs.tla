------------------------- MODULE EventStream_proofs --------------------------
(***************************************************************************)
(* Why a printer tells the truth about a run, for every set of objects and *)
(* plans, every printer and every interleaving of producers and readers.   *)
(* The invariant follows an event from its sender through the channel to   *)
(* the statistics and to the rows of the table: an outcome is in the       *)
(* channel or has been counted, a row is up to date or its event is in the *)
(* channel, and a reader only stops for an error or behind the last event. *)
(***************************************************************************)
EXTENDS EventStream, FiniteSetTheorems, SequenceTheorems, NaturalsInduction, TLAPS

\* The actions the table has rows for.
Known == Actions \ {"Wait"}

\* IdsOf and ActionIn of a plan, which never changes.
In(p, actions) ==
    {id \in Objects : \E i \in 1..Len(p.groups) :
                          p.groups[i].action \in actions /\ id \in p.groups[i].ids}

ActionOf(p, id) ==
    LET with == {i \in 1..Len(p.groups) : /\ p.groups[i].action \in Known
                                          /\ id \in p.groups[i].ids}
    IN  IF with = {} THEN "none" ELSE p.groups[Max(with)].action

ProducerTypes ==
    /\ printer \in Printers /\ policy \in Policies /\ plan \in Plans
    /\ stage \in {"validate", "start", "work", "timeout", "ended", "returning", "closed"}
    /\ at \in Nat \ {0}
    /\ stage \in {"work", "timeout", "ended"} => at \in 1..Len(Groups)
    /\ stage = "timeout" => Group.action = "Wait"
    /\ abort \in BOOLEAN /\ updates \in Nat

ToldTypes ==
    /\ acted \in [Objects -> Outcomes \cup {"none"}]
    /\ waited \in [Objects -> WaitStatuses \cup {"none"}]
    /\ current \in [Objects -> Nat]

ReaderTypes ==
    /\ err \in {"none", "event", "output"} /\ result \in {"none", "ok", "error"}
    /\ reader \in {"init", "listen", "ended", "loop", "done"}
    /\ reader = "loop" => printer # "table"
    /\ reader \in {"init", "listen", "ended"} => printer = "table"
    /\ reader = "done" <=> result # "none"

InfoType == [action : Known \cup {"none"}, act : Outcomes \cup {"none"},
             wait : WaitStatuses \cup {"none"}, status : Nat]

CounterTypes == stats \in [Counters -> Nat] /\ infos \in [Objects -> InfoType]

ChanTypes == Actions \cup {"none", "Validation", "Init", "Error", "Group", "Status"}

\* What is being sent is about an object of the run, and the latest about it.
ChanOK ==
    /\ chan.type \in ChanTypes
    /\ chan.type = "none" => chan = NoEvent
    /\ chan.type \in Actuated =>
         /\ chan.id \in In(plan, {chan.type}) /\ chan.status \in Outcomes
         /\ chan.status = acted[chan.id]
    /\ chan.type = "Wait" =>
         /\ chan.id \in In(plan, Actuated) /\ chan.status \in WaitStatuses
         /\ chan.status = waited[chan.id]
    /\ chan.type = "Status" =>
         /\ chan.id \in Objects /\ chan.status \in Nat
         /\ chan.status = current[chan.id]

\* How far the run, the channel and the reader can be from one another.  Only an
\* error parts the reader from the run, and it is the last event of the run.
Phases ==
    /\ stage = "validate" => chan.type \in {"none", "Validation"}
    /\ chan.type = "Error" => stage \in {"returning", "closed"}
    /\ stage = "returning" => abort /\ (chan.type = "Error" \/ err # "none")
    /\ stage = "closed" => chan = NoEvent /\ (abort => err # "none")
    /\ err # "none" => reader \in {"ended", "done"}
    /\ err = "event" => stage \in {"returning", "closed"}
    /\ reader = "init" => \/ stage = "validate"
                          \/ stage = "start" /\ at = 1 /\ chan.type = "Init"
                          \/ stage = "returning" /\ chan.type = "Error"
    /\ reader = "ended" \/ (printer = "table" /\ reader = "done") =>
         chan = NoEvent /\ stage \in {"returning", "closed"}
    /\ result = "ok" => stage = "closed" /\ err = "none"

\* Nothing is told before the first group starts but statuses, and these only
\* once the Init event is read.
Untold ==
    /\ stage = "validate" \/ (stage = "start" /\ at = 1) =>
         \A id \in Objects : acted[id] = "none" /\ waited[id] = "none"
    /\ stage = "validate" \/ chan.type = "Init" => \A id \in Objects : current[id] = 0

\* What a task or a later group has yet to actuate has no outcome.
Ahead ==
    /\ stage \notin {"returning", "closed"} =>
         \A i \in 1..Len(Groups) :
             /\ Groups[i].action \in Actuated
             /\ i > at \/ (i = at /\ stage \in {"validate", "start"})
             => \A id \in Groups[i].ids : acted[id] = "none"
    /\ stage \in {"work", "timeout", "ended"} =>
         /\ left \subseteq Group.ids /\ pending \subseteq Group.ids
         /\ Group.action \in Actuated => \A id \in left : acted[id] = "none"

\* The counter of an outcome once the event in the channel is read.
Counted(a, o) == stats[<<a, o>>] + (IF chan.type = a /\ chan.status = o THEN 1 ELSE 0)

\* Every failure is counted, or on its way.
FailsCounted ==
    \A id \in Objects :
        /\ acted[id] = "Failed" => \E a \in Actuated : Counted(a, "Failed") > 0
        /\ waited[id] \in {"Failed", "Timeout"} =>
             \E o \in {"Failed", "Timeout"} : Counted("Wait", o) > 0

OkCounts == result = "ok" => ResultErrorFromStats(stats) = "ok"

\* The counters are the sets of objects.
Attempts ==
    \A a \in Actuated : \A o \in Outcomes :
        Counted(a, o) = Cardinality({id \in In(plan, {a}) : acted[id] = o})

\* The channel holds an event of id.
Telling(types, id) == chan.type \in types /\ chan.id = id

\* A row of the collector is up to date, but for the event in the channel.
InfosAgree ==
    reader \in {"listen", "ended"} =>
        \A id \in Objects :
            /\ infos[id].action = ActionOf(plan, id)
            /\ id \in In(plan, Known) =>
                 /\ Telling(Actuated, id)   \/ infos[id].act = acted[id]
                 /\ Telling({"Wait"}, id)   \/ infos[id].wait = waited[id]
                 /\ Telling({"Status"}, id) \/ infos[id].status = current[id]

\* The table of a printer that has returned, unless it never had one.
ShownAgree ==
    /\ reader = "init" => shown = << >>
    /\ printer = "table" /\ reader = "done" /\ shown # << >> =>
         \A id \in In(plan, Known) :
             shown[id] = Row([action |-> ActionOf(plan, id), act |-> acted[id],
                              wait |-> waited[id], status |-> current[id]])

\* The inductive invariant.
StreamInv ==
    /\ ProducerTypes /\ ToldTypes /\ ReaderTypes /\ CounterTypes
    /\ ChanOK /\ Phases /\ Untold /\ Ahead
    /\ FailsCounted /\ OkCounts /\ Attempts /\ InfosAgree /\ ShownAgree

----------------------------------------------------------------------

\* The groups of a plan.
LEMMA PlanFacts ==
    ASSUME NEW p \in Plans
    PROVE  /\ Len(p.groups) \in Nat
           /\ DOMAIN p.groups = 1..Len(p.groups)
           /\ \A i \in 1..Len(p.groups) :
                 p.groups[i].action \in Actions /\ p.groups[i].ids \in SUBSET Objects
<1> DEFINE S == [action : Actions, ids : SUBSET Objects]
<1>1. p.groups \in Seq(S)
  BY StreamAssumption
<1>2. Len(p.groups) \in Nat /\ DOMAIN p.groups = 1..Len(p.groups)
  BY <1>1, LenProperties
<1>3. \A i \in 1..Len(p.groups) : p.groups[i] \in S
  BY <1>1, ElementOfSeq
<1> QED
  BY <1>2, <1>3

\* An object is actuated by one group.
LEMMA OneGroup ==
    ASSUME NEW p \in Plans, NEW i \in 1..Len(p.groups), NEW j \in 1..Len(p.groups),
           p.groups[i].action \in Actuated, p.groups[j].action \in Actuated,
           NEW id \in p.groups[i].ids, id \in p.groups[j].ids
    PROVE  i = j
  BY PlanFacts, GroupsAssumption DEF WellBuilt

\* What is waited for is actuated.
LEMMA WaitsAreActuated ==
    ASSUME NEW p \in Plans, NEW i \in 1..Len(p.groups), p.groups[i].action = "Wait"
    PROVE  p.groups[i].ids \subseteq In(p, Actuated)
<1>1. PICK j \in 1..(i - 1) : /\ p.groups[j].action \in Actuated
                              /\ p.groups[i].ids \subseteq p.groups[j].ids
  BY PlanFacts, GroupsAssumption DEF WellBuilt
<1>2. j \in 1..Len(p.groups)
  BY PlanFacts
<1>3. \A id \in p.groups[i].ids : id \in Objects /\ id \in p.groups[j].ids
  BY <1>1, PlanFacts
<1> QED
  BY <1>1, <1>2, <1>3 DEF In

\* What is actuated has a row in the table.
LEMMA ActuatedAreKnown ==
    ASSUME NEW p
    PROVE  /\ In(p, Actuated) \subseteq In(p, Known)
           /\ \A a \in Actuated : In(p, {a}) \subseteq In(p, Actuated)
           /\ In(p, Known) \subseteq Objects
  BY DEF In, Known, Actions, Actuated

\* IdsOf as a function of the plan alone.
LEMMA GroupsOfPlan ==
    ASSUME plan \in Plans
    PROVE  \A actions : IdsOf(actions) = In(plan, actions)
<1>1. ASSUME NEW actions, NEW id PROVE id \in IdsOf(actions) <=> id \in In(plan, actions)
  <2>1. ToSet(Groups) = {Groups[i] : i \in 1..Len(Groups)}
    BY PlanFacts DEF ToSet, Groups
  <2>2. \A i \in 1..Len(Groups) : Groups[i].ids \in SUBSET Objects
    BY PlanFacts DEF Groups
  <2>3. id \in IdsOf(actions) <=>
            \E i \in 1..Len(Groups) : Groups[i].action \in actions /\ id \in Groups[i].ids
    BY <2>1 DEF IdsOf
  <2> QED
    BY <2>2, <2>3 DEF In, Groups
<1> QED
  BY <1>1

\* ActionIn as a function of the plan alone.
LEMMA ActionOfPlan ==
    ASSUME plan \in Plans
    PROVE  \A id : ActionIn(Known, id) = ActionOf(plan, id)
<1>1. DOMAIN Groups = 1..Len(Groups)
  BY PlanFacts DEF Groups
<1> QED
  BY <1>1 DEF ActionIn, ActionOf, Groups

\* The largest of some indices is one of them.
LEMMA MaxIsIn ==
    ASSUME NEW n \in Nat, NEW S \in SUBSET (1..n), S # {}
    PROVE  Max(S) \in S
<1> DEFINE T == {n - i : i \in S}
<1>1. T \subseteq Nat /\ T # {}
  <2>1. \A i \in S : i \in 1..n /\ n - i \in Nat
    OBVIOUS
  <2> QED BY <2>1
<1>2. PICK x \in T : \A y \in T : ~ (<<y, x>> \in OpToRel(<, Nat))
  <2> HIDE DEF T
  <2> QED BY <1>1, WFMin, NatLessThanWellFounded
<1>3. \A y \in T : x <= y
  <2> HIDE DEF T
  <2>1. x \in Nat
    BY <1>1
  <2>2. ASSUME NEW y \in T PROVE ~(y < x)
    <3>1. y \in Nat
      BY <1>1
    <3>2. y < x => <<y, x>> \in OpToRel(<, Nat)
      BY <2>1, <3>1 DEF OpToRel
    <3> QED BY <1>2, <3>2
  <2> QED BY <2>1, <2>2, <1>1
<1>4. PICK m \in S : x = n - m
  BY <1>2
<1>5. ASSUME NEW i \in S PROVE m >= i
  <2>1. n - i \in T /\ i \in 1..n /\ m \in 1..n
    OBVIOUS
  <2>2. n - m <= n - i
    BY <1>3, <1>4, <2>1
  <2> QED BY <2>1, <2>2
<1> QED
  BY <1>5 DEF Max

\* An object has an action when some group that is not a wait has it.
LEMMA KnownHasAction ==
    ASSUME NEW p \in Plans, NEW id
    PROVE  /\ ActionOf(p, id) \in Known \cup {"none"}
           /\ id \in In(p, Known) => ActionOf(p, id) # "none"
<1> DEFINE with == {i \in 1..Len(p.groups) : /\ p.groups[i].action \in Known
                                             /\ id \in p.groups[i].ids}
<1>1. with # {} => Max(with) \in with
  BY PlanFacts, MaxIsIn
<1>2. id \in In(p, Known) => with # {}
  BY DEF In
<1> QED
  BY <1>1, <1>2 DEF ActionOf, Known, Actions, Actuated

\* Producers and printers share the channel, and nothing else.
LEMMA Separate ==
    /\ Produce => UNCHANGED <<setting, printing>>
    /\ Read \/ Tick => UNCHANGED <<setting, producing>> /\ chan' \in {chan, NoEvent}
  BY DEF Produce, HandleValidationError, SendInit, HandleError, Close, Abort, StartTask,
         FinishTask, Deadline, Actuate, StartWait, StatusUpdate, SendTimeout, SendStatus,
         Read, ListReads, ListEnds, TableWaitsForInit, Listen, ListenEnds, TableEnds, Tick

\* What a reader takes from the channel it counts; what it drops is no outcome.
LEMMA ReadersCount ==
    ASSUME StreamInv, Read \/ Tick,
           NEW a \in Actuated \cup {"Wait"}, NEW o \in WaitStatuses \ {"Pending"}
    PROVE  Counted(a, o)' = Counted(a, o)
<1> USE DEF Counted
<1>c. <<a, o>> \in Counters /\ stats \in [Counters -> Nat]
  BY DEF Counters, StreamInv, CounterTypes
<1>1. CASE ListReads
  BY <1>1, <1>c DEF ListReads, Handle, StreamInv, ChanOK, NoEvent, Actuated, WaitStatuses,
     Counters
<1>2. CASE ListEnds \/ ListenEnds \/ TableEnds \/ Tick
  BY <1>2 DEF ListEnds, ListenEnds, TableEnds, Tick
<1>3. CASE TableWaitsForInit
  <2>1. chan.type \notin Actuated \cup {"Wait"} /\ chan'.type \notin Actuated \cup {"Wait"}
    BY <1>3 DEF TableWaitsForInit, StreamInv, Phases, NoEvent, Actuated
  <2> QED
    BY <1>3, <2>1 DEF TableWaitsForInit
<1>4. CASE Listen
  <2>1. chan.type \in Actuated \cup {"Wait"} => infos[chan.id].action # "none"
    <3>1. chan.type \in Actuated \cup {"Wait"} => chan.id \in In(plan, Known)
      BY ActuatedAreKnown DEF StreamInv, ChanOK
    <3> QED
      BY <1>4, <3>1, ActuatedAreKnown, KnownHasAction DEF Listen, StreamInv, InfosAgree,
         ProducerTypes
  <2> QED
    BY <1>4, <1>c, <2>1 DEF Listen, Handle, StreamInv, ChanOK, NoEvent, Actuated,
       WaitStatuses, Counters
<1> QED
  BY <1>1, <1>2, <1>3, <1>4 DEF Read

\* Nothing that is counted is taken back by a producer.
LEMMA SendersCount ==
    ASSUME StreamInv, Produce,
           NEW a \in Actuated \cup {"Wait"}, NEW o \in WaitStatuses \ {"Pending"}
    PROVE  /\ Counted(a, o) \in Nat /\ Counted(a, o)' \in Nat
           /\ Counted(a, o)' >= Counted(a, o)
           /\ chan' # chan => Counted(a, o) = stats[<<a, o>>] /\ stats' = stats
<1> USE DEF Counted
<1>c. <<a, o>> \in Counters /\ stats[<<a, o>>] \in Nat
  BY DEF Counters, StreamInv, CounterTypes
<1>1. stats' = stats
  BY Separate DEF printing
<1>2. chan' = chan \/ chan = NoEvent
  BY DEF Produce, HandleValidationError, SendInit, HandleError, Close, Abort, StartTask,
         FinishTask, Deadline, Actuate, StartWait, StatusUpdate, SendTimeout, SendStatus, Send, SendWait
<1>3. chan = NoEvent => Counted(a, o) = stats[<<a, o>>]
  BY <1>c DEF NoEvent, Actuated
<1>4. CASE chan' = chan
  BY <1>4, <1>1, <1>c
<1>5. CASE chan' # chan
  BY <1>5, <1>1, <1>2, <1>3, <1>c
<1> QED
  BY <1>4, <1>5

\* One lemma per conjunct of the invariant, and in it one step per action.
LEMMA ProducerTypesStep ==
    ASSUME StreamInv, [Next]_vars
    PROVE  ProducerTypes'
<1> USE DEF vars, setting, task, told, producing, printing
<1>1. CASE HandleValidationError
  BY <1>1, PlanFacts DEF HandleValidationError, Send, StreamInv, ProducerTypes, Groups,
     Group, Actions, Actuated
<1>2. CASE SendInit
  BY <1>2, PlanFacts DEF SendInit, Send, StreamInv, ProducerTypes, Groups, Group, Actions,
     Actuated
<1>3. CASE HandleError
  BY <1>3, PlanFacts DEF HandleError, Send, StreamInv, ProducerTypes, Groups, Group,
     Actions, Actuated
<1>4. CASE Close
  BY <1>4, PlanFacts DEF Close, StreamInv, ProducerTypes, Groups, Group, Actions, Actuated
<1>5. CASE Abort
  BY <1>5, PlanFacts DEF Abort, StreamInv, ProducerTypes, Groups, Group, Actions, Actuated
<1>6. CASE StartTask
  BY <1>6, PlanFacts DEF StartTask, Send, StreamInv, ProducerTypes, Groups, Group,
     Actions, Actuated
<1>7. CASE FinishTask
  <2>1. abort' \in BOOLEAN
    BY <1>7, Zenon DEF FinishTask, StreamInv, ProducerTypes
  <2> QED
    BY <1>7, <2>1 DEF FinishTask, Send, StreamInv, ProducerTypes, Groups, Group
<1>8. CASE Deadline
  BY <1>8, PlanFacts DEF Deadline, StreamInv, ProducerTypes, Groups, Group, Actions,
     Actuated
<1>9. ASSUME NEW id \in Objects, Actuate(id) PROVE ProducerTypes'
  BY <1>9, PlanFacts DEF Actuate, Send, StreamInv, ProducerTypes, Groups, Group, Actions,
     Actuated
<1>10. ASSUME NEW id \in Objects, StartWait(id) PROVE ProducerTypes'
  BY <1>10, PlanFacts DEF StartWait, SendWait, Send, Skipped, StreamInv, ProducerTypes,
     Groups, Group, Actions, Actuated
<1>11. ASSUME NEW id \in Objects, StatusUpdate(id) PROVE ProducerTypes'
  BY <1>11, PlanFacts DEF StatusUpdate, SendWait, Send, Skipped, StreamInv, ProducerTypes,
     Groups, Group, Actions, Actuated
<1>12. ASSUME NEW id \in Objects, SendTimeout(id) PROVE ProducerTypes'
  BY <1>12, PlanFacts DEF SendTimeout, SendWait, Send, StreamInv, ProducerTypes, Groups,
     Group, Actions, Actuated
<1>13. ASSUME NEW id \in Objects, SendStatus(id) PROVE ProducerTypes'
  BY <1>13, PlanFacts DEF SendStatus, Send, StreamInv, ProducerTypes, Groups, Group,
     Actions, Actuated
<1>14. CASE Read \/ Tick \/ UNCHANGED vars
  BY <1>14, Separate DEF StreamInv, ProducerTypes, Groups, Group, Actions, Actuated
<1> QED
  BY <1>1, <1>2, <1>3, <1>4, <1>5, <1>6, <1>7, <1>8, <1>9, <1>10,
     <1>11, <1>12, <1>13, <1>14
     DEF Next, Produce

\* Outcomes, wait statuses and statuses keep their types.
LEMMA ToldTypesStep ==
    ASSUME StreamInv, [Next]_vars
    PROVE  ToldTypes'
<1> USE DEF vars, setting, task, told, producing, printing
<1>1. CASE HandleValidationError
  BY <1>1 DEF HandleValidationError, Send, StreamInv, ToldTypes, ProducerTypes, Outcomes,
     WaitStatuses
<1>2. CASE SendInit
  BY <1>2 DEF SendInit, Send, StreamInv, ToldTypes, ProducerTypes, Outcomes, WaitStatuses
<1>3. CASE HandleError
  BY <1>3 DEF HandleError, Send, StreamInv, ToldTypes, ProducerTypes, Outcomes, WaitStatuses
<1>4. CASE Close
  BY <1>4 DEF Close, StreamInv, ToldTypes, ProducerTypes, Outcomes, WaitStatuses
<1>5. CASE Abort
  BY <1>5 DEF Abort, StreamInv, ToldTypes, ProducerTypes, Outcomes, WaitStatuses
<1>6. CASE StartTask
  BY <1>6 DEF StartTask, Send, StreamInv, ToldTypes, ProducerTypes, Outcomes, WaitStatuses
<1>7. CASE FinishTask
  BY <1>7 DEF FinishTask, Send, StreamInv, ToldTypes, ProducerTypes, Outcomes, WaitStatuses
<1>8. CASE Deadline
  BY <1>8 DEF Deadline, StreamInv, ToldTypes, ProducerTypes, Outcomes, WaitStatuses
<1>9. ASSUME NEW id \in Objects, Actuate(id) PROVE ToldTypes'
  BY <1>9 DEF Actuate, Send, StreamInv, ToldTypes, ProducerTypes, Outcomes, WaitStatuses
<1>10. ASSUME NEW id \in Objects, StartWait(id) PROVE ToldTypes'
  BY <1>10 DEF StartWait, SendWait, Send, Skipped, StreamInv, ToldTypes, ProducerTypes,
     Outcomes, WaitStatuses
<1>11. ASSUME NEW id \in Objects, StatusUpdate(id) PROVE ToldTypes'
  BY <1>11 DEF StatusUpdate, SendWait, Send, Skipped, StreamInv, ToldTypes, ProducerTypes,
     Outcomes, WaitStatuses
<1>12. ASSUME NEW id \in Objects, SendTimeout(id) PROVE ToldTypes'
  BY <1>12 DEF SendTimeout, SendWait, Send, StreamInv, ToldTypes, ProducerTypes, Outcomes,
     WaitStatuses
<1>13. ASSUME NEW id \in Objects, SendStatus(id) PROVE ToldTypes'
  BY <1>13 DEF SendStatus, Send, StreamInv, ToldTypes, ProducerTypes, Outcomes, WaitStatuses
<1>14. CASE Read \/ Tick \/ UNCHANGED vars
  BY <1>14, Separate DEF StreamInv, ToldTypes, ProducerTypes, Outcomes, WaitStatuses
<1> QED
  BY <1>1, <1>2, <1>3, <1>4, <1>5, <1>6, <1>7, <1>8, <1>9, <1>10,
     <1>11, <1>12, <1>13, <1>14
     DEF Next, Produce

\* The reader, its error and its result keep their types.
LEMMA ReaderTypesStep ==
    ASSUME StreamInv, [Next]_vars
    PROVE  ReaderTypes'
<1> USE DEF vars, setting, task, told, producing, printing
<1>1. CASE ListReads
  BY <1>1 DEF ListReads, Handle, PrintReturns, StreamInv, ReaderTypes
<1>2. CASE ListEnds
  BY <1>2 DEF ListEnds, PrintReturns, ResultErrorFromStats, StreamInv, ReaderTypes
<1>3. CASE TableWaitsForInit
  BY <1>3 DEF TableWaitsForInit, PrintReturns, newResourceStateCollector, StreamInv,
     ReaderTypes
<1>4. CASE Listen
  BY <1>4 DEF Listen, Info, Handle, StreamInv, ReaderTypes
<1>5. CASE ListenEnds
  BY <1>5 DEF ListenEnds, StreamInv, ReaderTypes
<1>6. CASE TableEnds
  BY <1>6 DEF TableEnds, PrintReturns, ResultErrorFromStats, StreamInv, ReaderTypes
<1>7. CASE Tick
  BY <1>7 DEF Tick, StreamInv, ReaderTypes
<1>8. CASE Produce \/ UNCHANGED vars
  BY <1>8, Separate DEF StreamInv, ReaderTypes
<1> QED
  BY <1>1, <1>2, <1>3, <1>4, <1>5, <1>6, <1>7, <1>8 DEF Next, Read

\* The statistics and the rows of the collector keep their types.
LEMMA CounterTypesStep ==
    ASSUME StreamInv, [Next]_vars
    PROVE  CounterTypes'
<1> USE DEF vars, setting, task, told, producing, printing
<1>1. CASE ListReads
  BY <1>1, KnownHasAction DEF ListReads, Handle, PrintReturns, StreamInv, CounterTypes,
     ChanOK, Counters, Actuated, Outcomes, WaitStatuses
<1>2. CASE ListEnds
  BY <1>2, KnownHasAction DEF ListEnds, PrintReturns, ResultErrorFromStats, StreamInv,
     CounterTypes, ChanOK, Counters, Actuated, Outcomes, WaitStatuses
<1>3. CASE TableWaitsForInit
  <2>1. ASSUME NEW id \in Objects
        PROVE  [NoInfo EXCEPT !.action = ActionIn(Actions \ {"Wait"}, id)] \in InfoType
    <3>1. plan \in Plans
      BY DEF StreamInv, ProducerTypes
    <3>2. ActionIn(Known, id) \in Known \cup {"none"}
      BY <3>1, ActionOfPlan, KnownHasAction
    <3> QED
      BY <3>2 DEF Known, NoInfo, InfoType
  <2>2. newResourceStateCollector \in [Objects -> InfoType]
    BY <2>1 DEF newResourceStateCollector
  <2> QED
    BY <1>3, <2>2 DEF TableWaitsForInit, PrintReturns, StreamInv, CounterTypes
<1>4. CASE Listen
  <2>1. stats' \in [Counters -> Nat]
    BY <1>4 DEF Listen, Handle, StreamInv, CounterTypes, ChanOK, Counters, Actuated,
       Outcomes, WaitStatuses
  <2>2. infos' \in [Objects -> InfoType]
    BY <1>4 DEF Listen, Info, StreamInv, CounterTypes, ChanOK, Actuated, Outcomes,
       WaitStatuses, InfoType
  <2> QED
    BY <2>1, <2>2 DEF CounterTypes
<1>5. CASE ListenEnds
  BY <1>5, KnownHasAction DEF ListenEnds, StreamInv, CounterTypes, ChanOK, Counters,
     Actuated, Outcomes, WaitStatuses
<1>6. CASE TableEnds
  BY <1>6, KnownHasAction DEF TableEnds, PrintReturns, ResultErrorFromStats, StreamInv,
     CounterTypes, ChanOK, Counters, Actuated, Outcomes, WaitStatuses
<1>7. CASE Tick
  BY <1>7, KnownHasAction DEF Tick, StreamInv, CounterTypes, ChanOK, Counters, Actuated,
     Outcomes, WaitStatuses
<1>8. CASE Produce \/ UNCHANGED vars
  BY <1>8, Separate DEF StreamInv, CounterTypes, ChanOK, Counters, Actuated, Outcomes,
     WaitStatuses
<1> QED
  BY <1>1, <1>2, <1>3, <1>4, <1>5, <1>6, <1>7, <1>8 DEF Next, Read

\* What is sent is about objects of the run, and is the latest about them.
LEMMA ChanOKStep ==
    ASSUME StreamInv, [Next]_vars
    PROVE  ChanOK'
<1> USE DEF vars, setting, task, told, producing, printing
<1>p. plan \in Plans /\ (stage \in {"work", "timeout", "ended"} => at \in 1..Len(Groups))
  BY DEF StreamInv, ProducerTypes
<1>g. stage \in {"work", "timeout", "ended"} /\ Group.action = "Wait" =>
          Group.ids \subseteq In(plan, Actuated)
  BY <1>p, WaitsAreActuated DEF Group, Groups
<1>o. In(plan, Actuated) \subseteq Objects
  BY ActuatedAreKnown
<1>1. CASE HandleValidationError
  BY <1>1 DEF HandleValidationError, Send, StreamInv, ChanOK, ChanTypes, NoEvent, Actions,
     Actuated
<1>2. CASE SendInit
  BY <1>2 DEF SendInit, Send, StreamInv, ChanOK, ChanTypes, NoEvent, Actions, Actuated
<1>3. CASE HandleError
  BY <1>3 DEF HandleError, Send, StreamInv, ChanOK, ChanTypes, NoEvent, Actions, Actuated
<1>4. CASE Close
  BY <1>4 DEF Close, StreamInv, ChanOK, ChanTypes, NoEvent, Actions, Actuated
<1>5. CASE Abort
  BY <1>5 DEF Abort, StreamInv, ChanOK, ChanTypes, NoEvent, Actions, Actuated
<1>6. CASE StartTask
  BY <1>6 DEF StartTask, Send, StreamInv, ChanOK, ChanTypes, NoEvent, Actions, Actuated
<1>7. CASE FinishTask
  BY <1>7 DEF FinishTask, Send, StreamInv, ChanOK, ChanTypes, NoEvent, Actions, Actuated
<1>8. CASE Deadline
  BY <1>8 DEF Deadline, StreamInv, ChanOK, ChanTypes, NoEvent, Actions, Actuated
<1>9. ASSUME NEW id \in Objects, Actuate(id) PROVE ChanOK'
  <2>1. Group.action \in Actuated /\ id \in Group.ids
    BY <1>9 DEF Actuate, StreamInv, Ahead
  <2>2. id \in In(plan, {Group.action})
    BY <2>1, <1>9, <1>p, PlanFacts DEF In, Group, Groups, Actuate
  <2> QED
    BY <1>9, <2>1, <2>2 DEF Actuate, Send, StreamInv, ChanOK, ChanTypes, Actions,
       Actuated, ToldTypes
<1>10. ASSUME NEW id \in Objects, StartWait(id) PROVE ChanOK'
  BY <1>10, <1>g, <1>o DEF StartWait, SendWait, Send, ProducerTypes, StreamInv, ChanOK,
     ChanTypes, ToldTypes, Ahead, NoEvent, Actions, Actuated, Outcomes, WaitStatuses
<1>11. ASSUME NEW id \in Objects, StatusUpdate(id) PROVE ChanOK'
  BY <1>11, <1>g, <1>o DEF StatusUpdate, SendWait, Send, StreamInv, ChanOK, ChanTypes,
     ToldTypes, Ahead, NoEvent, Actions, Actuated, Outcomes, WaitStatuses
<1>12. ASSUME NEW id \in Objects, SendTimeout(id) PROVE ChanOK'
  BY <1>12, <1>g, <1>o DEF SendTimeout, SendWait, Send, ProducerTypes, StreamInv, ChanOK,
     ChanTypes, ToldTypes, Ahead, NoEvent, Actions, Actuated, Outcomes, WaitStatuses
<1>13. ASSUME NEW id \in Objects, SendStatus(id) PROVE ChanOK'
  BY <1>13 DEF SendStatus, Send, StreamInv, ProducerTypes, ToldTypes, ChanOK, ChanTypes,
     Actuated
<1>14. CASE ListReads
  BY <1>14 DEF ListReads, Handle, PrintReturns, StreamInv, ChanOK, ChanTypes, NoEvent,
     Actions, Actuated
<1>15. CASE ListEnds
  BY <1>15 DEF ListEnds, PrintReturns, ResultErrorFromStats, StreamInv, ChanOK, ChanTypes,
     NoEvent, Actions, Actuated
<1>16. CASE TableWaitsForInit
  BY <1>16 DEF TableWaitsForInit, PrintReturns, newResourceStateCollector, StreamInv,
     ChanOK, ChanTypes, NoEvent, Actions, Actuated
<1>17. CASE Listen
  BY <1>17 DEF Listen, Info, Handle, StreamInv, ChanOK, ChanTypes, NoEvent, Actions,
     Actuated
<1>18. CASE ListenEnds
  BY <1>18 DEF ListenEnds, StreamInv, ChanOK, ChanTypes, NoEvent, Actions, Actuated
<1>19. CASE TableEnds
  BY <1>19 DEF TableEnds, PrintReturns, ResultErrorFromStats, StreamInv, ChanOK,
     ChanTypes, NoEvent, Actions, Actuated
<1>20. CASE Tick
  BY <1>20 DEF Tick, StreamInv, ChanOK, ChanTypes, NoEvent, Actions, Actuated
<1>21. CASE UNCHANGED vars
  BY <1>21 DEF StreamInv, ChanOK, ChanTypes, NoEvent, Actions, Actuated
<1> QED
  BY <1>1, <1>2, <1>3, <1>4, <1>5, <1>6, <1>7, <1>8, <1>9, <1>10,
     <1>11, <1>12, <1>13, <1>14, <1>15, <1>16, <1>17, <1>18, <1>19, <1>20, <1>21
     DEF Next, Produce, Read

\* The run, the channel and the reader keep pace.
LEMMA PhasesStep ==
    ASSUME StreamInv, [Next]_vars
    PROVE  Phases'
<1> USE DEF vars, setting, task, told, producing, printing
<1>1. CASE HandleValidationError
  BY <1>1 DEF HandleValidationError, Send, StreamInv, Phases, ChanOK, ProducerTypes,
     ReaderTypes, NoEvent, Actuated
<1>2. CASE SendInit
  BY <1>2 DEF SendInit, Send, StreamInv, Phases, ChanOK, ProducerTypes, ReaderTypes,
     NoEvent, Actuated
<1>3. CASE HandleError
  BY <1>3 DEF HandleError, Send, StreamInv, Phases, ChanOK, ProducerTypes, ReaderTypes,
     NoEvent, Actuated
<1>4. CASE Close
  BY <1>4 DEF Close, StreamInv, Phases, ChanOK, ProducerTypes, ReaderTypes, NoEvent,
     Actuated
<1>5. CASE Abort
  BY <1>5 DEF Abort, StreamInv, Phases, ChanOK, ProducerTypes, ReaderTypes, NoEvent,
     Actuated
<1>6. CASE StartTask
  BY <1>6 DEF StartTask, Send, StreamInv, Phases, ChanOK, ProducerTypes, ReaderTypes,
     NoEvent, Actuated
<1>7. CASE FinishTask
  BY <1>7 DEF FinishTask, Send, StreamInv, Phases, ChanOK, ProducerTypes, ReaderTypes,
     NoEvent, Actuated
<1>8. CASE Deadline
  BY <1>8 DEF Deadline, StreamInv, Phases, ChanOK, ProducerTypes, ReaderTypes, NoEvent,
     Actuated
<1>9. ASSUME NEW id \in Objects, Actuate(id) PROVE Phases'
  BY <1>9 DEF Actuate, Send, StreamInv, Phases, ChanOK, ProducerTypes, ReaderTypes,
     NoEvent, Actuated
<1>10. ASSUME NEW id \in Objects, StartWait(id) PROVE Phases'
  BY <1>10 DEF StartWait, SendWait, Send, Skipped, StreamInv, Phases, ChanOK,
     ProducerTypes, ReaderTypes, NoEvent, Actuated
<1>11. ASSUME NEW id \in Objects, StatusUpdate(id) PROVE Phases'
  BY <1>11 DEF StatusUpdate, SendWait, Send, Skipped, StreamInv, Phases, ChanOK,
     ProducerTypes, ReaderTypes, NoEvent, Actuated
<1>12. ASSUME NEW id \in Objects, SendTimeout(id) PROVE Phases'
  BY <1>12 DEF SendTimeout, SendWait, Send, StreamInv, Phases, ChanOK, ProducerTypes,
     ReaderTypes, NoEvent, Actuated
<1>13. ASSUME NEW id \in Objects, SendStatus(id) PROVE Phases'
  BY <1>13 DEF SendStatus, Send, StreamInv, Phases, ChanOK, ProducerTypes, ReaderTypes,
     NoEvent, Actuated
<1>14. CASE ListReads
  BY <1>14 DEF ListReads, Handle, PrintReturns, StreamInv, Phases, ChanOK, ProducerTypes,
     ReaderTypes, NoEvent, Actuated
<1>15. CASE ListEnds
  BY <1>15 DEF ListEnds, PrintReturns, ResultErrorFromStats, StreamInv, Phases, ChanOK,
     ProducerTypes, ReaderTypes, NoEvent, Actuated
<1>16. CASE TableWaitsForInit
  BY <1>16 DEF TableWaitsForInit, PrintReturns, newResourceStateCollector, StreamInv,
     Phases, ChanOK, ProducerTypes, ReaderTypes, NoEvent, Actuated
<1>17. CASE Listen
  BY <1>17 DEF Listen, Info, Handle, StreamInv, Phases, ChanOK, ProducerTypes,
     ReaderTypes, NoEvent, Actuated
<1>18. CASE ListenEnds
  BY <1>18 DEF ListenEnds, StreamInv, Phases, ChanOK, ProducerTypes, ReaderTypes, NoEvent,
     Actuated
<1>19. CASE TableEnds
  BY <1>19 DEF TableEnds, PrintReturns, ResultErrorFromStats, StreamInv, Phases, ChanOK,
     ProducerTypes, ReaderTypes, NoEvent, Actuated
<1>20. CASE Tick
  BY <1>20 DEF Tick, StreamInv, Phases, ChanOK, ProducerTypes, ReaderTypes, NoEvent,
     Actuated
<1>21. CASE UNCHANGED vars
  BY <1>21 DEF StreamInv, Phases, ChanOK, ProducerTypes, ReaderTypes, NoEvent, Actuated
<1> QED
  BY <1>1, <1>2, <1>3, <1>4, <1>5, <1>6, <1>7, <1>8, <1>9, <1>10,
     <1>11, <1>12, <1>13, <1>14, <1>15, <1>16, <1>17, <1>18, <1>19, <1>20, <1>21
     DEF Next, Produce, Read

\* Nothing is told before the first group.
LEMMA UntoldStep ==
    ASSUME StreamInv, [Next]_vars
    PROVE  Untold'
<1> USE DEF vars, setting, task, told, producing, printing
<1>1. CASE HandleValidationError
  BY <1>1 DEF HandleValidationError, Send, StreamInv, Untold, ProducerTypes
<1>2. CASE SendInit
  BY <1>2 DEF SendInit, Send, StreamInv, Untold, ProducerTypes
<1>3. CASE HandleError
  BY <1>3 DEF HandleError, Send, StreamInv, Untold, ProducerTypes
<1>4. CASE Close
  BY <1>4 DEF Close, StreamInv, Untold, ProducerTypes
<1>5. CASE Abort
  BY <1>5 DEF Abort, StreamInv, Untold, ProducerTypes
<1>6. CASE StartTask
  BY <1>6 DEF StartTask, Send, StreamInv, Untold, ProducerTypes
<1>7. CASE FinishTask
  BY <1>7 DEF FinishTask, Send, StreamInv, Untold, ProducerTypes
<1>8. CASE Deadline
  BY <1>8 DEF Deadline, StreamInv, Untold, ProducerTypes
<1>9. ASSUME NEW id \in Objects, Actuate(id) PROVE Untold'
  BY <1>9 DEF Actuate, Send, StreamInv, Untold, ProducerTypes, Actuated
<1>10. ASSUME NEW id \in Objects, StartWait(id) PROVE Untold'
  BY <1>10 DEF StartWait, SendWait, Send, Skipped, StreamInv, Untold, ProducerTypes
<1>11. ASSUME NEW id \in Objects, StatusUpdate(id) PROVE Untold'
  BY <1>11 DEF StatusUpdate, SendWait, Send, Skipped, StreamInv, Untold, ProducerTypes
<1>12. ASSUME NEW id \in Objects, SendTimeout(id) PROVE Untold'
  BY <1>12 DEF SendTimeout, SendWait, Send, StreamInv, Untold, ProducerTypes
<1>13. ASSUME NEW id \in Objects, SendStatus(id) PROVE Untold'
  BY <1>13 DEF SendStatus, Send, StreamInv, Untold, ProducerTypes
<1>14. CASE Read \/ Tick \/ UNCHANGED vars
  BY <1>14, Separate DEF StreamInv, Untold, ProducerTypes, NoEvent
<1> QED
  BY <1>1, <1>2, <1>3, <1>4, <1>5, <1>6, <1>7, <1>8, <1>9, <1>10,
     <1>11, <1>12, <1>13, <1>14
     DEF Next, Produce

\* What a task or a later group has yet to actuate has no outcome.
LEMMA AheadStep ==
    ASSUME StreamInv, [Next]_vars
    PROVE  Ahead'
<1> USE DEF vars, setting, task, told, producing, printing
<1>p. plan \in Plans /\ (stage \in {"work", "timeout", "ended"} => at \in 1..Len(Groups))
  BY DEF StreamInv, ProducerTypes
<1>i. \A i \in 1..Len(Groups) : Groups[i].ids \subseteq Objects
  BY <1>p, PlanFacts DEF Groups
<1>1. CASE HandleValidationError
  BY <1>1, <1>p, <1>i DEF HandleValidationError, Send, StreamInv, Ahead, ProducerTypes,
     Groups, Group, Actuated
<1>2. CASE SendInit
  BY <1>2, <1>i DEF SendInit, StreamInv, Untold, Ahead, Groups
<1>3. CASE HandleError
  BY <1>3, <1>p, <1>i DEF HandleError, Send, StreamInv, Ahead, ProducerTypes, Groups,
     Group, Actuated
<1>4. CASE Close
  BY <1>4, <1>p, <1>i DEF Close, StreamInv, Ahead, ProducerTypes, Groups, Group, Actuated
<1>5. CASE Abort
  BY <1>5, <1>p, <1>i DEF Abort, StreamInv, Ahead, ProducerTypes, Groups, Group, Actuated
<1>6. CASE StartTask
  BY <1>6, <1>p, <1>i DEF StartTask, Send, StreamInv, Ahead, ProducerTypes, Groups, Group,
     Actuated
<1>7. CASE FinishTask
  BY <1>7, <1>p, <1>i DEF FinishTask, Send, StreamInv, Ahead, ProducerTypes, Groups,
     Group, Actuated
<1>8. CASE Deadline
  BY <1>8, <1>p, <1>i DEF Deadline, StreamInv, Ahead, ProducerTypes, Groups, Group, Actuated
<1>9. ASSUME NEW id \in Objects, Actuate(id) PROVE Ahead'
  <2>1. id \in left /\ left \subseteq Group.ids /\ Group.action \in Actuated /\ at \in 1..Len(Groups)
    BY <1>9, <1>p DEF Actuate, StreamInv, Ahead
  <2>2. ASSUME NEW i \in 1..Len(Groups), Groups[i].action \in Actuated, i > at
        PROVE  id \notin Groups[i].ids
    BY <1>p, <2>1, <2>2, OneGroup DEF Groups, Group
  <2>3. acted' = [acted EXCEPT ![id] = acted'[id]] /\ left' = left \ {id}
    BY <1>9 DEF Actuate, StreamInv, ToldTypes
  <2> QED
    BY <1>9, <1>p, <1>i, <2>1, <2>2, <2>3 DEF Actuate, StreamInv, Ahead, Groups, Group,
       ToldTypes, ProducerTypes
<1>10. ASSUME NEW id \in Objects, StartWait(id) PROVE Ahead'
  BY <1>10, <1>p, <1>i DEF StartWait, SendWait, Send, Skipped, StreamInv, Ahead,
     ProducerTypes, Groups, Group, Actuated
<1>11. ASSUME NEW id \in Objects, StatusUpdate(id) PROVE Ahead'
  BY <1>11, <1>p, <1>i DEF StatusUpdate, SendWait, Send, Skipped, StreamInv, Ahead,
     ProducerTypes, Groups, Group, Actuated
<1>12. ASSUME NEW id \in Objects, SendTimeout(id) PROVE Ahead'
  BY <1>12, <1>p, <1>i DEF SendTimeout, SendWait, Send, StreamInv, Ahead, ProducerTypes,
     Groups, Group, Actuated
<1>13. ASSUME NEW id \in Objects, SendStatus(id) PROVE Ahead'
  BY <1>13, <1>p, <1>i DEF SendStatus, Send, StreamInv, Ahead, ProducerTypes, Groups,
     Group, Actuated
<1>14. CASE Read \/ Tick \/ UNCHANGED vars
  BY <1>14, Separate DEF StreamInv, Ahead, ProducerTypes, Groups, Group, Actuated
<1> QED
  BY <1>1, <1>2, <1>3, <1>4, <1>5, <1>6, <1>7, <1>8, <1>9, <1>10,
     <1>11, <1>12, <1>13, <1>14
     DEF Next, Produce

\* The printer that returns nil has counted no failure.
LEMMA OkCountsStep ==
    ASSUME StreamInv, [Next]_vars
    PROVE  OkCounts'
<1> USE DEF vars, setting, task, told, producing, printing
<1>1. CASE ListReads
  BY <1>1 DEF ListReads, Handle, PrintReturns, StreamInv, OkCounts, ReaderTypes,
     ResultErrorFromStats, FailedActuationSum, FailedReconciliationSum
<1>2. CASE ListEnds
  BY <1>2 DEF ListEnds, PrintReturns, ResultErrorFromStats, StreamInv, OkCounts,
     ReaderTypes, ResultErrorFromStats, FailedActuationSum, FailedReconciliationSum
<1>3. CASE TableWaitsForInit
  BY <1>3 DEF TableWaitsForInit, PrintReturns, newResourceStateCollector, StreamInv,
     OkCounts, ReaderTypes, ResultErrorFromStats, FailedActuationSum,
     FailedReconciliationSum
<1>4. CASE Listen
  BY <1>4 DEF Listen, Info, Handle, StreamInv, OkCounts, ReaderTypes,
     ResultErrorFromStats, FailedActuationSum, FailedReconciliationSum
<1>5. CASE ListenEnds
  BY <1>5 DEF ListenEnds, StreamInv, OkCounts, ReaderTypes, ResultErrorFromStats,
     FailedActuationSum, FailedReconciliationSum
<1>6. CASE TableEnds
  BY <1>6 DEF TableEnds, PrintReturns, ResultErrorFromStats, StreamInv, OkCounts,
     ReaderTypes, ResultErrorFromStats, FailedActuationSum, FailedReconciliationSum
<1>7. CASE Tick
  BY <1>7 DEF Tick, StreamInv, OkCounts, ReaderTypes, ResultErrorFromStats,
     FailedActuationSum, FailedReconciliationSum
<1>8. CASE Produce \/ UNCHANGED vars
  BY <1>8, Separate DEF StreamInv, OkCounts, ReaderTypes, ResultErrorFromStats,
     FailedActuationSum, FailedReconciliationSum
<1> QED
  BY <1>1, <1>2, <1>3, <1>4, <1>5, <1>6, <1>7, <1>8 DEF Next, Read

\* What is counted stays counted.
LEMMA SameIsCounted ==
    ASSUME StreamInv, [Next]_vars, NEW id \in Objects,
           NEW a \in Actuated \cup {"Wait"}, NEW o \in WaitStatuses \ {"Pending"},
           Counted(a, o) > 0
    PROVE  Counted(a, o)' > 0
<1>1. CASE Produce
  <2>1. Counted(a, o) \in Nat /\ Counted(a, o)' \in Nat /\ Counted(a, o)' >= Counted(a, o)
    BY <1>1, SendersCount
  <2> QED
    BY <2>1
<1>2. CASE Read \/ Tick
  BY <1>2, ReadersCount
<1>3. CASE UNCHANGED vars
  BY <1>3 DEF vars, printing, Counted
<1> QED
  BY <1>1, <1>2, <1>3 DEF Next

\* What is sent is counted.
LEMMA NewIsCounted ==
    ASSUME StreamInv, stats' = stats, NEW id,
           NEW a \in Actuated \cup {"Wait"}, NEW o \in WaitStatuses \ {"Pending"},
           Send([type |-> a, id |-> id, status |-> o])
    PROVE  Counted(a, o)' > 0
<1>1. <<a, o>> \in Counters /\ stats[<<a, o>>] \in Nat
  BY DEF Counters, StreamInv, CounterTypes
<1> QED
  BY <1>1 DEF Send, Counted

\* Every failure is counted, or on its way.
LEMMA FailsCountedStep ==
    ASSUME StreamInv, [Next]_vars
    PROVE  FailsCounted'
<1> SUFFICES ASSUME NEW id \in Objects
             PROVE  /\ acted'[id] = "Failed" => \E a \in Actuated : Counted(a, "Failed")' > 0
                    /\ waited'[id] \in {"Failed", "Timeout"} =>
                         \E o \in {"Failed", "Timeout"} : Counted("Wait", o)' > 0
  BY DEF FailsCounted
<1>t. ToldTypes /\ FailsCounted
  BY DEF StreamInv
<1>1. ASSUME acted'[id] = "Failed", acted[id] = "Failed"
      PROVE  \E a \in Actuated : Counted(a, "Failed")' > 0
  BY <1>1, <1>t, SameIsCounted DEF FailsCounted, WaitStatuses, Outcomes
<1>2. ASSUME waited'[id] \in {"Failed", "Timeout"}, waited'[id] = waited[id]
      PROVE  \E o \in {"Failed", "Timeout"} : Counted("Wait", o)' > 0
  BY <1>2, <1>t, SameIsCounted DEF FailsCounted, WaitStatuses, Outcomes
<1>3. ASSUME acted'[id] # acted[id]
      PROVE  \E a \in Actuated :
                 Send([type |-> a, id |-> id, status |-> acted'[id]]) /\ stats' = stats
  <2>1. PICK x \in Objects : Actuate(x)
    BY <1>3, Separate DEF Next, Produce, HandleValidationError, SendInit, HandleError,
       Close, Abort,
       StartTask, FinishTask, Deadline, StartWait, StatusUpdate, SendTimeout, SendStatus,
       vars, producing, told
  <2> QED
    BY <1>3, <1>t, <2>1 DEF Actuate, ToldTypes, printing
<1>4. ASSUME waited'[id] # waited[id]
      PROVE  Send([type |-> "Wait", id |-> id, status |-> waited'[id]]) /\ stats' = stats
  <2>1. PICK x \in Objects : \E status : SendWait(x, status) /\ stats' = stats
    BY <1>4, Separate DEF Next, Produce, HandleValidationError, SendInit, HandleError,
       Close, Abort,
       StartTask, FinishTask, Deadline, Actuate, StartWait, StatusUpdate, SendTimeout, SendStatus,
       vars, producing, printing, told
  <2> QED
    BY <1>4, <1>t, <2>1 DEF SendWait, ToldTypes
<1>5. ASSUME acted'[id] = "Failed", acted[id] # "Failed"
      PROVE  \E a \in Actuated : Counted(a, "Failed")' > 0
  BY <1>3, <1>5, NewIsCounted DEF WaitStatuses, Outcomes
<1>6. ASSUME waited'[id] \in {"Failed", "Timeout"}, waited'[id] # waited[id]
      PROVE  \E o \in {"Failed", "Timeout"} : Counted("Wait", o)' > 0
  BY <1>4, <1>6, NewIsCounted DEF WaitStatuses, Outcomes
<1> QED
  BY <1>1, <1>2, <1>5, <1>6

\* One element more.
LEMMA OneMore ==
    ASSUME NEW S, IsFiniteSet(S), NEW id, id \notin S
    PROVE  Cardinality(S \cup {id}) = Cardinality(S) + 1
  BY FS_AddElement

\* An outcome adds one to its counter, and one object to its set.
LEMMA AttemptsStep ==
    ASSUME StreamInv, [Next]_vars
    PROVE  Attempts'
<1> SUFFICES ASSUME NEW a \in Actuated, NEW o \in Outcomes
             PROVE  Counted(a, o)' = Cardinality({id \in In(plan', {a}) : acted'[id] = o})
  BY DEF Attempts
<1> DEFINE S == {id \in In(plan, {a}) : acted[id] = o}
<1>t. /\ ToldTypes /\ plan \in Plans /\ o \in WaitStatuses \ {"Pending"}
      /\ Counted(a, o) = Cardinality(S)
  BY DEF StreamInv, Attempts, ProducerTypes, WaitStatuses, Outcomes
<1>p. plan' = plan
  BY Separate DEF Next, setting, vars
<1>1. ASSUME acted' = acted, Counted(a, o)' = Counted(a, o)
      PROVE  Counted(a, o)' = Cardinality({id \in In(plan', {a}) : acted'[id] = o})
  BY <1>1, <1>t, <1>p
<1>2. CASE Read \/ Tick \/ UNCHANGED vars
  <2>1. Counted(a, o)' = Counted(a, o)
    BY <1>2, <1>t, ReadersCount DEF Counted, vars, printing
  <2> QED
    BY <1>1, <1>2, <2>1, Separate DEF vars, producing, told
<1>3. ASSUME Produce, acted' = acted
      PROVE  Counted(a, o)' = Cardinality({id \in In(plan', {a}) : acted'[id] = o})
  <2>a. ASSUME NEW id \in Objects PROVE ~Actuate(id)
    BY <1>3, <1>t DEF Actuate, StreamInv, Ahead, ToldTypes, Outcomes
  <2>1. chan' = chan \/ (chan = NoEvent /\ chan'.type \notin Actuated)
    <3>1. CASE HandleValidationError \/ SendInit \/ HandleError \/ StartTask \/ FinishTask
      <4>1. CASE HandleValidationError
        BY <4>1 DEF HandleValidationError, Send, Actuated
      <4>2. CASE SendInit
        BY <4>2 DEF SendInit, Send, Actuated
      <4>3. CASE HandleError
        BY <4>3 DEF HandleError, Send, Actuated
      <4>4. CASE StartTask
        BY <4>4 DEF StartTask, Send, Actuated
      <4>5. CASE FinishTask
        BY <4>5 DEF FinishTask, Send, Actuated
      <4> QED
        BY <3>1, <4>1, <4>2, <4>3, <4>4, <4>5
    <3>2. CASE Close \/ Abort \/ Deadline
      BY <3>2 DEF Close, Abort, Deadline
    <3>3. ASSUME NEW id \in Objects, StartWait(id) \/ StatusUpdate(id) \/ SendTimeout(id)
          PROVE  chan = NoEvent /\ chan'.type = "Wait"
      BY <3>3 DEF StartWait, StatusUpdate, SendTimeout, SendWait, Send
    <3>4. ASSUME NEW id \in Objects, SendStatus(id)
          PROVE  chan = NoEvent /\ chan'.type = "Status"
      BY <3>4 DEF SendStatus, Send
    <3> QED
      BY <1>3, <2>a, <3>1, <3>2, <3>3, <3>4 DEF Produce, Actuated
  <2> QED
    BY <1>1, <1>3, <2>1, Separate DEF Counted, printing, NoEvent, Actuated
<1>4. ASSUME NEW id \in Objects, Actuate(id)
      PROVE  Counted(a, o)' = Cardinality({x \in In(plan', {a}) : acted'[x] = o})
  <2>1. /\ Group.action \in Actuated /\ id \in Group.ids /\ acted[id] = "none"
        /\ at \in 1..Len(Groups)
    BY <1>4 DEF Actuate, StreamInv, Ahead, ProducerTypes
  <2>2. id \in In(plan, {a}) <=> a = Group.action
    BY <2>1, <1>t, OneGroup DEF In, Group, Groups
  <2>3. /\ stats' = stats /\ chan = NoEvent
        /\ chan' = [type |-> Group.action, id |-> id, status |-> acted'[id]]
        /\ acted' = [acted EXCEPT ![id] = acted'[id]]
    BY <1>4, <1>t, Separate DEF Actuate, Send, ToldTypes, printing
  <2>4. Counted(a, o) = stats[<<a, o>>] /\ Counted(a, o) \in Nat
    BY <1>4, <1>t, SendersCount, <2>3 DEF Counted, Produce, NoEvent, Actuated
  <2>5. Counted(a, o)' = IF a = Group.action /\ acted'[id] = o
                            THEN Counted(a, o) + 1 ELSE Counted(a, o)
    BY <2>3, <2>4 DEF Counted
  <2>6. {x \in In(plan, {a}) : acted'[x] = o} =
            IF a = Group.action /\ acted'[id] = o THEN S \cup {id} ELSE S
    <3>1. \A x \in In(plan, {a}) : x \in Objects
      BY DEF In
    <3>2. acted[id] # o
      BY <2>1 DEF Outcomes
    <3> QED
      BY <2>2, <2>3, <3>1, <3>2, <1>t DEF ToldTypes
  <2>7. IsFiniteSet(S) /\ id \notin S
    <3>1. S \in SUBSET Objects
      BY DEF In
    <3>2. IsFiniteSet(S)
      BY <3>1, FS_Subset, StreamAssumption
    <3> QED
      BY <3>2, <2>1 DEF Outcomes
  <2> QED
    BY <1>p, <1>t, <2>5, <2>6, <2>7, OneMore
<1>5. ASSUME Produce, acted' # acted
      PROVE  \E id \in Objects : Actuate(id)
  BY <1>5 DEF Produce, HandleValidationError, SendInit, HandleError, Close, Abort,
     StartTask,
     FinishTask, Deadline, StartWait, StatusUpdate, SendTimeout, SendStatus, told
<1> QED
  BY <1>2, <1>3, <1>4, <1>5 DEF Next

\* The rows of the collector stay up to date.
LEMMA InfosAgreeStep ==
    ASSUME StreamInv, [Next]_vars
    PROVE  InfosAgree'
<1> USE DEF vars, setting, task, told, producing, printing
<1>1. CASE HandleValidationError
  BY <1>1 DEF HandleValidationError, Send, StreamInv, InfosAgree, Telling, ToldTypes,
     NoEvent, Actuated
<1>2. CASE SendInit
  BY <1>2 DEF SendInit, Send, StreamInv, InfosAgree, Telling, ToldTypes, NoEvent, Actuated
<1>3. CASE HandleError
  BY <1>3 DEF HandleError, Send, StreamInv, InfosAgree, Telling, ToldTypes, NoEvent,
     Actuated
<1>4. CASE Close
  BY <1>4 DEF Close, StreamInv, InfosAgree, Telling, ToldTypes, NoEvent, Actuated
<1>5. CASE Abort
  BY <1>5 DEF Abort, StreamInv, InfosAgree, Telling, ToldTypes, NoEvent, Actuated
<1>6. CASE StartTask
  BY <1>6 DEF StartTask, Send, StreamInv, InfosAgree, Telling, ToldTypes, NoEvent, Actuated
<1>7. CASE FinishTask
  BY <1>7 DEF FinishTask, Send, StreamInv, InfosAgree, Telling, ToldTypes, NoEvent, Actuated
<1>8. CASE Deadline
  BY <1>8 DEF Deadline, StreamInv, InfosAgree, Telling, ToldTypes, NoEvent, Actuated
<1>9. ASSUME NEW id \in Objects, Actuate(id) PROVE InfosAgree'
  BY <1>9 DEF Actuate, Send, StreamInv, InfosAgree, Telling, ToldTypes, NoEvent, Actuated
<1>10. ASSUME NEW id \in Objects, StartWait(id) PROVE InfosAgree'
  BY <1>10 DEF StartWait, SendWait, Send, StreamInv, InfosAgree, Telling, ToldTypes,
     NoEvent, Actuated
<1>11. ASSUME NEW id \in Objects, StatusUpdate(id) PROVE InfosAgree'
  BY <1>11 DEF StatusUpdate, SendWait, Send, StreamInv, InfosAgree, Telling, ToldTypes,
     NoEvent, Actuated
<1>12. ASSUME NEW id \in Objects, SendTimeout(id) PROVE InfosAgree'
  BY <1>12 DEF SendTimeout, SendWait, Send, StreamInv, InfosAgree, Telling, ToldTypes,
     NoEvent, Actuated
<1>13. ASSUME NEW id \in Objects, SendStatus(id) PROVE InfosAgree'
  BY <1>13 DEF SendStatus, Send, StreamInv, InfosAgree, Telling, ToldTypes, NoEvent,
     Actuated
<1>14. CASE ListReads
  BY <1>14 DEF ListReads, Handle, PrintReturns, StreamInv, InfosAgree, Telling, ToldTypes,
     NoEvent, Actuated
<1>15. CASE ListEnds
  BY <1>15 DEF ListEnds, PrintReturns, ResultErrorFromStats, StreamInv, InfosAgree,
     Telling, ToldTypes, NoEvent, Actuated
<1>16. CASE TableWaitsForInit
  <2>1. SUFFICES ASSUME reader' \in {"listen", "ended"} PROVE InfosAgree'
    BY DEF InfosAgree
  <2>2. /\ chan.type = "Init" /\ infos' = newResourceStateCollector
        /\ plan \in Plans /\ plan' = plan /\ UNCHANGED told
    BY <1>16, <2>1, Separate DEF TableWaitsForInit, PrintReturns, StreamInv, Phases,
       setting, producing, ProducerTypes
  <2>3. Untold /\ (stage = "validate" \/ (stage = "start" /\ at = 1))
    BY <1>16, <2>2 DEF TableWaitsForInit, StreamInv, Phases
  <2>4. ASSUME NEW id \in Objects
        PROVE  /\ infos'[id].action = ActionOf(plan, id)
               /\ infos'[id].act = "none" /\ infos'[id].wait = "none" /\ infos'[id].status = 0
    BY <2>2, ActionOfPlan DEF newResourceStateCollector, NoInfo, Known
  <2> QED
    BY <2>2, <2>3, <2>4 DEF InfosAgree, Untold, told
<1>17. CASE Listen
  <2>1. chan' = NoEvent /\ plan' = plan /\ UNCHANGED told
    BY <1>17, Separate DEF Listen, setting, producing
  <2>2. ASSUME NEW id \in Objects PROVE infos'[id].action = ActionOf(plan, id)
    BY <1>17 DEF Listen, Info, StreamInv, InfosAgree, CounterTypes, InfoType
  <2>3. ASSUME NEW id \in In(plan, Known), Telling(Actuated \cup {"Wait", "Status"}, id)
        PROVE  infos' = Info(chan) /\ chan.id \in Objects /\ chan.id = id
    <3>1. infos[id].action # "none" /\ id \in Objects
      BY <1>17, <2>3, KnownHasAction, ActuatedAreKnown DEF Listen, StreamInv, InfosAgree,
         ProducerTypes
    <3> QED
      BY <1>17, <2>3, <3>1 DEF Listen, Telling
  <2>4. ASSUME NEW id \in In(plan, Known)
        PROVE  /\ infos'[id].act = acted[id]
               /\ infos'[id].wait = waited[id]
               /\ infos'[id].status = current[id]
    <3>1. id \in Objects /\ infos[id] \in InfoType
      BY ActuatedAreKnown DEF StreamInv, CounterTypes
    <3>2. CASE Telling(Actuated \cup {"Wait", "Status"}, id)
      BY <1>17, <2>3, <2>4, <3>1, <3>2 DEF Listen, Info, Telling, StreamInv, InfosAgree,
         ChanOK, CounterTypes, InfoType, Actuated
    <3>3. CASE ~Telling(Actuated \cup {"Wait", "Status"}, id)
      <4>1. infos'[id] = infos[id]
        BY <1>17, <3>1, <3>3 DEF Listen, Info, Telling, StreamInv, CounterTypes, InfoType,
           ChanOK
      <4> QED
        BY <1>17, <2>4, <3>1, <3>3, <4>1 DEF Listen, Telling, StreamInv, InfosAgree,
           Actuated
    <3> QED
      BY <3>2, <3>3
  <2> QED
    BY <2>1, <2>2, <2>4 DEF InfosAgree, told
<1>18. CASE ListenEnds
  BY <1>18 DEF ListenEnds, StreamInv, InfosAgree, Telling, ToldTypes, NoEvent, Actuated
<1>19. CASE TableEnds
  BY <1>19 DEF TableEnds, PrintReturns, ResultErrorFromStats, StreamInv, InfosAgree,
     Telling, ToldTypes, NoEvent, Actuated
<1>20. CASE Tick
  BY <1>20 DEF Tick, StreamInv, InfosAgree, Telling, ToldTypes, NoEvent, Actuated
<1>21. CASE UNCHANGED vars
  BY <1>21 DEF StreamInv, InfosAgree, Telling, ToldTypes, NoEvent, Actuated
<1> QED
  BY <1>1, <1>2, <1>3, <1>4, <1>5, <1>6, <1>7, <1>8, <1>9, <1>10,
     <1>11, <1>12, <1>13, <1>14, <1>15, <1>16, <1>17, <1>18, <1>19, <1>20, <1>21
     DEF Next, Produce, Read

\* A table without rows is the empty function.
LEMMA NothingShown == LatestState = << >> \/ \E id \in Objects : infos[id].action # "none"
<1> SUFFICES ASSUME \A id \in Objects : infos[id].action = "none" PROVE LatestState = << >>
  OBVIOUS
<1>1. {x \in Objects : infos[x].action # "none"} = {}
  OBVIOUS
<1>2. LatestState = [i \in {} |-> Row(infos[i])]
  BY <1>1 DEF LatestState
<1>3. [i \in {} |-> Row(infos[i])] = << >>
  OBVIOUS
<1> QED
  BY <1>2, <1>3

\* The last table stays up to date.
LEMMA ShownAgreeStep ==
    ASSUME StreamInv, [Next]_vars
    PROVE  ShownAgree'
<1> USE DEF vars, setting, task, told, producing, printing
<1>1. CASE HandleValidationError
  BY <1>1 DEF HandleValidationError, Send, StreamInv, ShownAgree, Phases, ReaderTypes
<1>2. CASE SendInit
  BY <1>2 DEF SendInit, Send, StreamInv, ShownAgree, Phases, ReaderTypes
<1>3. CASE HandleError
  BY <1>3 DEF HandleError, Send, StreamInv, ShownAgree, Phases, ReaderTypes
<1>4. CASE Close
  BY <1>4 DEF Close, StreamInv, ShownAgree, Phases, ReaderTypes
<1>5. CASE Abort
  BY <1>5 DEF Abort, StreamInv, ShownAgree, Phases, ReaderTypes
<1>6. CASE StartTask
  BY <1>6 DEF StartTask, Send, StreamInv, ShownAgree, Phases, ReaderTypes
<1>7. CASE FinishTask
  BY <1>7 DEF FinishTask, Send, StreamInv, ShownAgree, Phases, ReaderTypes
<1>8. CASE Deadline
  BY <1>8 DEF Deadline, StreamInv, ShownAgree, Phases, ReaderTypes
<1>9. ASSUME NEW id \in Objects, Actuate(id) PROVE ShownAgree'
  BY <1>9 DEF Actuate, Send, StreamInv, ShownAgree, Phases, ReaderTypes
<1>10. ASSUME NEW id \in Objects, StartWait(id) PROVE ShownAgree'
  BY <1>10 DEF StartWait, SendWait, Send, Skipped, StreamInv, ShownAgree, Phases,
     ReaderTypes
<1>11. ASSUME NEW id \in Objects, StatusUpdate(id) PROVE ShownAgree'
  BY <1>11 DEF StatusUpdate, SendWait, Send, Skipped, StreamInv, ShownAgree, Phases,
     ReaderTypes
<1>12. ASSUME NEW id \in Objects, SendTimeout(id) PROVE ShownAgree'
  BY <1>12 DEF SendTimeout, SendWait, Send, StreamInv, ShownAgree, Phases, ReaderTypes
<1>13. ASSUME NEW id \in Objects, SendStatus(id) PROVE ShownAgree'
  BY <1>13 DEF SendStatus, Send, StreamInv, ShownAgree, Phases, ReaderTypes
<1>14. CASE ListReads
  BY <1>14 DEF ListReads, Handle, PrintReturns, StreamInv, ShownAgree, Phases, ReaderTypes
<1>15. CASE ListEnds
  BY <1>15 DEF ListEnds, PrintReturns, ResultErrorFromStats, StreamInv, ShownAgree,
     Phases, ReaderTypes
<1>16. CASE TableWaitsForInit
  BY <1>16 DEF TableWaitsForInit, PrintReturns, newResourceStateCollector, StreamInv,
     ShownAgree, Phases, ReaderTypes
<1>17. CASE Listen
  BY <1>17 DEF Listen, Info, Handle, StreamInv, ShownAgree, Phases, ReaderTypes
<1>18. CASE ListenEnds
  BY <1>18 DEF ListenEnds, StreamInv, ShownAgree, Phases, ReaderTypes
<1>19. CASE TableEnds
  <2>1. /\ plan \in Plans /\ reader = "ended" /\ chan = NoEvent /\ shown' = LatestState
        /\ reader' = "done" /\ UNCHANGED <<setting, producing>>
    BY <1>19 DEF TableEnds, PrintReturns, StreamInv, Phases, ProducerTypes
  <2>2. ASSUME NEW id \in In(plan, Known)
        PROVE  /\ id \in Objects /\ infos[id].action # "none"
               /\ infos[id].action = ActionOf(plan, id) /\ infos[id].act = acted[id]
               /\ infos[id].wait = waited[id] /\ infos[id].status = current[id]
    BY <2>1, KnownHasAction, ActuatedAreKnown DEF StreamInv, InfosAgree, Telling, NoEvent,
       Actuated
  <2>3. ASSUME NEW id \in In(plan, Known)
        PROVE  LatestState[id] = Row([action |-> ActionOf(plan, id), act |-> acted[id],
                                      wait |-> waited[id], status |-> current[id]])
    BY <2>2 DEF LatestState, Row
  <2> QED
    BY <2>1, <2>3 DEF ShownAgree
<1>20. CASE Tick
  BY <1>20 DEF Tick, StreamInv, ShownAgree, Phases, ReaderTypes
<1>21. CASE UNCHANGED vars
  BY <1>21 DEF StreamInv, ShownAgree, Phases, ReaderTypes
<1> QED
  BY <1>1, <1>2, <1>3, <1>4, <1>5, <1>6, <1>7, <1>8, <1>9, <1>10,
     <1>11, <1>12, <1>13, <1>14, <1>15, <1>16, <1>17, <1>18, <1>19, <1>20, <1>21
     DEF Next, Produce, Read

\* The invariant holds at first.
LEMMA StreamInit ==
    ASSUME Init
    PROVE  StreamInv
<1> USE DEF Init
<1>p. plan \in Plans
  OBVIOUS
<1>1. ProducerTypes /\ ToldTypes /\ ReaderTypes
  <2>1. ProducerTypes
    <3>1. abort \in BOOLEAN
      BY Zenon
    <3> QED
      BY <3>1 DEF ProducerTypes
  <2>2. ToldTypes
    BY DEF ToldTypes
  <2>3. ReaderTypes
    BY DEF ReaderTypes
  <2> QED
    BY <2>1, <2>2, <2>3
<1>2. CounterTypes
  BY DEF CounterTypes, InfoType, NoInfo
<1>3. ChanOK /\ Phases /\ Untold
  BY DEF ChanOK, ChanTypes, NoEvent, Actuated, Actions, Phases, Untold
<1>4. Ahead
  BY <1>p, PlanFacts DEF Ahead, Groups
<1>5. FailsCounted /\ OkCounts /\ InfosAgree
  BY DEF FailsCounted, OkCounts, InfosAgree
<1>6. Attempts
  <2>1. ASSUME NEW a \in Actuated, NEW o \in Outcomes
        PROVE  /\ Counted(a, o) = 0
               /\ {id \in In(plan, {a}) : acted[id] = o} = {}
    BY DEF Counted, NoEvent, Counters, Actuated, Outcomes, WaitStatuses, In
  <2> QED
    BY <2>1, FS_EmptySet DEF Attempts
<1>7. ShownAgree
  BY NothingShown DEF ShownAgree, NoInfo
<1> QED
  BY <1>1, <1>2, <1>3, <1>4, <1>5, <1>6, <1>7 DEF StreamInv

\* The invariant holds throughout.
LEMMA StreamInvariant == Spec => []StreamInv
<1>1. StreamInv /\ [Next]_vars => StreamInv'
  BY ProducerTypesStep, ToldTypesStep, ReaderTypesStep, CounterTypesStep, ChanOKStep,
     PhasesStep,
     UntoldStep, AheadStep, FailsCountedStep, OkCountsStep, AttemptsStep, InfosAgreeStep,
     ShownAgreeStep DEF StreamInv
<1> QED
  BY <1>1, StreamInit, PTL DEF Spec

\* Counters that are zero leave no object failed.
LEMMA NilMeansNothingFailedFollows == StreamInv => NilMeansNothingFailed
<1> SUFFICES ASSUME StreamInv, result = "ok"
             PROVE  stage = "closed" /\ ~abort /\ err = "none" /\ \A id \in Objects : ~Fails(id)
  BY DEF NilMeansNothingFailed
<1>1. stage = "closed" /\ err = "none" /\ ~abort /\ chan = NoEvent
  BY DEF StreamInv, Phases
<1>2. FailedActuationSum(stats) \in Nat /\ FailedReconciliationSum(stats) \in Nat
      /\ ~(FailedActuationSum(stats) > 0) /\ ~(FailedReconciliationSum(stats) > 0)
  BY DEF StreamInv, CounterTypes, Counters, Actuated, WaitStatuses, Outcomes,
         FailedActuationSum, FailedReconciliationSum, OkCounts, ResultErrorFromStats
<1>3. \A c \in Counters : stats[c] \in Nat
  BY DEF StreamInv, CounterTypes
<1>4. /\ \A a \in Actuated : stats[<<a, "Failed">>] = 0
      /\ \A o \in {"Failed", "Timeout"} : stats[<<"Wait", o>>] = 0
  <2> DEFINE n(x, y) == stats[<<x, y>>]
  <2>1. /\ n("Apply", "Failed") \in Nat /\ n("Prune", "Failed") \in Nat
        /\ n("Delete", "Failed") \in Nat
        /\ n("Wait", "Failed") \in Nat /\ n("Wait", "Timeout") \in Nat
    BY <1>3 DEF Counters, Actuated, WaitStatuses, Outcomes
  <2>2. /\ n("Apply", "Failed") + n("Prune", "Failed") + n("Delete", "Failed") <= 0
        /\ n("Wait", "Failed") + n("Wait", "Timeout") <= 0
    BY <1>2, <2>1 DEF FailedActuationSum, FailedReconciliationSum
  <2> HIDE DEF n
  <2>3. /\ n("Apply", "Failed") = 0 /\ n("Prune", "Failed") = 0 /\ n("Delete", "Failed") = 0
        /\ n("Wait", "Failed") = 0 /\ n("Wait", "Timeout") = 0
    BY <2>1, <2>2
  <2> QED
    BY <2>3 DEF n, Actuated
<1>5. /\ \A a \in Actuated : Counted(a, "Failed") = 0
      /\ \A o \in {"Failed", "Timeout"} : Counted("Wait", o) = 0
  BY <1>1, <1>4 DEF Counted, NoEvent, Actuated
<1>6. \A id \in Objects : ~Fails(id)
  BY <1>5 DEF StreamInv, FailsCounted, Fails
<1> QED
  BY <1>1, <1>6

\* A printer that returns nil has read a whole run in which nothing failed,
\* for every plan, printer and schedule (stats.go:132-160, printer.go:69).
THEOREM NilMeansNothingFailedHolds == Spec => []NilMeansNothingFailed
  BY StreamInvariant, NilMeansNothingFailedFollows, PTL

\* With the channel empty the counters are the sets.
LEMMA AttemptsAreObjectsFollows == StreamInv => AttemptsAreObjects
<1> SUFFICES ASSUME StreamInv, stage = "closed", NEW a \in Actuated, NEW o \in Outcomes
             PROVE  stats[<<a, o>>] = Cardinality({id \in IdsOf({a}) : acted[id] = o})
  BY DEF AttemptsAreObjects
<1>1. plan \in Plans /\ chan = NoEvent /\ stats[<<a, o>>] \in Nat
  BY DEF StreamInv, ProducerTypes, Phases, CounterTypes, Counters, Outcomes, WaitStatuses
<1>2. IdsOf({a}) = In(plan, {a})
  BY <1>1, GroupsOfPlan
<1>3. Counted(a, o) = stats[<<a, o>>]
  BY <1>1 DEF Counted, NoEvent, Actuated
<1> QED
  BY <1>2, <1>3 DEF StreamInv, Attempts

\* The statistics of a whole run count every object once, whichever printer
\* keeps them (stats.go:38-125, collector.go:175-330).
THEOREM AttemptsAreObjectsHolds == Spec => []AttemptsAreObjects
  BY StreamInvariant, AttemptsAreObjectsFollows, PTL

\* The property is a conjunct of the invariant.
LEMMA ShownIsLastFollows == StreamInv => ShownIsLast
<1> SUFFICES ASSUME StreamInv, printer = "table", result # "none", shown # << >>,
                    NEW id \in IdsOf(Actions \ {"Wait"})
             PROVE  shown[id] = Row([action |-> ActionIn(Actions \ {"Wait"}, id),
                             act |-> acted[id], wait |-> waited[id], status |-> current[id]])
  BY DEF ShownIsLast
<1>1. plan \in Plans /\ reader = "done"
  BY DEF StreamInv, ProducerTypes, ReaderTypes
<1>2. id \in In(plan, Known) /\ ActionIn(Actions \ {"Wait"}, id) = ActionOf(plan, id)
  BY <1>1, GroupsOfPlan, ActionOfPlan DEF Known
<1> QED
  BY <1>1, <1>2 DEF StreamInv, ShownAgree

\* The last table has what the last events say (collector.go:175-330,
\* printers/table/printer.go:40-90).
THEOREM ShownIsLastHolds == Spec => []ShownIsLast
  BY StreamInvariant, ShownIsLastFollows, PTL

----------------------------------------------------------------------
(* Nobody is left waiting on the channel.                              *)

\* A step of the run that waits for nothing but a free channel.
ProducerGoesOn ==
    \/ stage \in {"validate", "start", "ended", "returning"}
    \/ stage = "work" /\ Group.action \in Actuated \cup {"Wait"} /\ left # {}
    \/ stage = "work" /\ Group.action = "Wait" /\ pending # {}
    \/ stage = "timeout" /\ left # {}

\* Until both have returned, either an event is read, or the run goes on, or
\* the reader sees that the channel is closed: a printer that returns early
\* leaves nobody behind who sends, unless its formatter could not write
\* (list/base.go:41-146, table/printer.go:30-90, runner.go:66-79).
StreamGoesOn ==
    \/ Returned \/ err = "output"
    \/ chan # NoEvent /\ reader \in {"loop", "init", "listen"}
    \/ chan = NoEvent /\ ProducerGoesOn
    \/ stage = "closed" /\ reader # "done"

\* A task that goes on has something left, and a reader that has returned has
\* read the last event.
EndsMeet ==
    /\ stage = "work" =>
         \/ Group.action \in Actuated \cup {"Wait"} /\ left # {}
         \/ Group.action = "Wait" /\ pending # {}
    /\ stage = "timeout" => left # {}
    /\ reader = "done" /\ err # "output" =>
         chan = NoEvent /\ stage \in {"returning", "closed"}

\* The tasks of the run keep it.
LEMMA EndsMeetTasks ==
    ASSUME StreamInv, EndsMeet, Produce
    PROVE  EndsMeet'
<1> USE DEF vars, setting, task, told, producing, printing, EndsMeet
<1>0. plan \in Plans /\ (stage \in {"start", "work", "timeout", "ended"} => at \in Nat)
  BY DEF StreamInv, ProducerTypes
<1>1. CASE HandleValidationError \/ SendInit \/ HandleError \/ Close
  BY <1>1 DEF HandleValidationError, SendInit, HandleError, Close, Send
<1>2. CASE Abort
  BY <1>2 DEF Abort, Group, Groups
<1>3. CASE StartTask
  <2>1. Group.action \in Actions
    <3>1. at \in 1 .. Len(Groups)
      BY <1>0, <1>3 DEF StartTask, StreamInv, ProducerTypes
    <3> QED
      BY <1>0, <3>1, PlanFacts DEF Group, Groups
  <2>2. stage' = "work" => Group.action \in Actuated \cup {"Wait"} /\ left' # {}
    BY <1>3, <2>1 DEF StartTask, Actions
  <2> QED
    BY <1>3, <2>2 DEF StartTask, Send, Group, Groups
<1>4. CASE FinishTask
  BY <1>4 DEF FinishTask, Send
<1>5. CASE Deadline
  BY <1>5 DEF Deadline
<1>6. ASSUME NEW id \in Objects, Actuate(id) PROVE EndsMeet'
  BY <1>6 DEF Actuate, Send, Group, Groups
<1>7. ASSUME NEW id \in Objects, StartWait(id) PROVE EndsMeet'
  BY <1>7 DEF StartWait, SendWait, Send, Group, Groups
<1>8. ASSUME NEW id \in Objects, StatusUpdate(id) PROVE EndsMeet'
  BY <1>8 DEF StatusUpdate, SendWait, Send, Group, Groups
<1>9. ASSUME NEW id \in Objects, SendTimeout(id) PROVE EndsMeet'
  BY <1>9 DEF SendTimeout, SendWait, Send
<1>10. ASSUME NEW id \in Objects, SendStatus(id) PROVE EndsMeet'
  BY <1>10 DEF SendStatus, Send, Group, Groups
<1> QED
  BY <1>1, <1>2, <1>3, <1>4, <1>5, <1>6, <1>7, <1>8, <1>9, <1>10 DEF Produce

\* So do the readers.
LEMMA EndsMeetReaders ==
    ASSUME StreamInv, EndsMeet, Read \/ Tick
    PROVE  EndsMeet'
<1> USE DEF EndsMeet, StreamInv, Phases, ReaderTypes
<1>1. UNCHANGED <<setting, producing>>
  BY Separate
<1>2. /\ stage' = "work" => \/ Group'.action \in Actuated \cup {"Wait"} /\ left' # {}
                            \/ Group'.action = "Wait" /\ pending' # {}
      /\ stage' = "timeout" => left' # {}
  BY <1>1 DEF setting, producing, task, Group, Groups
<1>3. stage' = stage
  BY <1>1 DEF producing
<1>4. CASE ListReads
  BY <1>2, <1>3, <1>4 DEF ListReads, PrintReturns, NoEvent
<1>5. CASE ListEnds
  BY <1>2, <1>3, <1>5 DEF ListEnds, PrintReturns, ResultErrorFromStats
<1>6. CASE TableWaitsForInit
  BY <1>2, <1>3, <1>6 DEF TableWaitsForInit, PrintReturns, NoEvent
<1>7. CASE Listen
  BY <1>2, <1>3, <1>7 DEF Listen
<1>8. CASE ListenEnds \/ Tick
  BY <1>2, <1>3, <1>8 DEF ListenEnds, Tick
<1>9. CASE TableEnds
  BY <1>2, <1>3, <1>9 DEF TableEnds, PrintReturns, ResultErrorFromStats
<1> QED
  BY <1>4, <1>5, <1>6, <1>7, <1>8, <1>9 DEF Read

\* Whoever sends is read, and whoever reads is sent to, or told that nothing
\* more comes, until both have returned.
THEOREM StreamGoesOnHolds == Spec => []StreamGoesOn
<1>1. Init => EndsMeet
  BY DEF Init, EndsMeet
<1>2. StreamInv /\ EndsMeet /\ [Next]_vars => EndsMeet'
  <2>1. ASSUME UNCHANGED vars, EndsMeet PROVE EndsMeet'
    BY <2>1 DEF vars, setting, task, producing, printing, EndsMeet, Group, Groups
  <2> QED
    BY <2>1, EndsMeetTasks, EndsMeetReaders DEF Next
<1>3. StreamInv /\ EndsMeet => StreamGoesOn
  BY DEF StreamInv, ReaderTypes, ProducerTypes, Phases, EndsMeet, StreamGoesOn, ProducerGoesOn,
         Returned
<1> QED
  BY <1>1, <1>2, <1>3, StreamInvariant, PTL DEF Spec
==============================================================================
