------------------------ MODULE ThreadService_proofs ------------------------
(***************************************************************************)
(* Theorems about ThreadService, for every set of agents, threads and keys *)
(* and every bound: type correctness, the safety of the threads, then what *)
(* becomes of requests and events, and that the flows together implement   *)
(* AtLeastOnce.  The properties rest on what the lock and the cascades     *)
(* know: which thread the section that holds the lock works on, that a     *)
(* cascade cancels events only while it holds the lock, and that what it   *)
(* cancels for is terminal.                                                *)
(***************************************************************************)
EXTENDS ThreadService, FiniteSetTheorems, TLAPS

-----------------------------------------------------------------------------
(***************************************************************************)
(* The transactions of the store keep the types of its columns.            *)
(***************************************************************************)

\* Inserting a thread row, or finding one, keeps the types.
LEMMA GetOrCreateType ==
    ASSUME StoreTypeOK, NEW t \in ThreadIds, NEW p \in ThreadIds \cup {None},
           NEW a \in Agents, NEW b \in Agents, GetOrCreate(t, p, a, b)
    PROVE  StoreTypeOK'
<1>1. CASE UNCHANGED store
  BY <1>1 DEF StoreTypeOK, store, threadVars, deliveryVars
<1>2. CASE InsertThread(t, p, a, b)
  BY <1>2 DEF StoreTypeOK, InsertThread, deliveryVars, NonTerminalStatuses
<1> QED BY <1>1, <1>2 DEF GetOrCreate

\* Appending an event keeps the types.
LEMMA AppendEventType ==
    ASSUME StoreTypeOK, NEW t \in ThreadIds, NEW e \in Event, AppendEvent(t, e),
           e.kind = "message" => e.from \in Agents
    PROVE  StoreTypeOK'
<1>1. log' \in [ThreadIds -> Seq(Event)]
  BY DEF StoreTypeOK, AppendEvent, RecordEvent
<1>2. pending' \subseteq EventIds
  BY DEF StoreTypeOK, AppendEvent, RecordEvent, EventIds
<1>3. status' \in [ThreadIds -> NonTerminalStatuses \cup TerminalStatuses \cup {"absent"}]
  BY DEF StoreTypeOK, AppendEvent, RecordEvent, Event, EventKinds, NotificationStatuses,
         NonTerminalStatuses, TerminalStatuses
<1>4. lastSender' \in [ThreadIds -> Agents \cup {None}]
  BY DEF StoreTypeOK, AppendEvent, RecordEvent
<1>5. quiet' \in [ThreadIds -> BOOLEAN]
  BY DEF StoreTypeOK, AppendEvent, RecordEvent
<1> QED BY <1>1, <1>2, <1>3, <1>4, <1>5 DEF StoreTypeOK, AppendEvent, RecordEvent
-----------------------------------------------------------------------------
(***************************************************************************)
(* Type correctness.                                                       *)
(***************************************************************************)

\* Init satisfies the type invariant.
LEMMA InitType == Init => TypeOK
BY DEF Init, StoreInit, TypeOK, StoreTypeOK, Section, Free, NonTerminalStatuses

\* The client's steps keep the types.
LEMMA ClientType ==
    ASSUME TypeOK, ClientStep
    PROVE  TypeOK'
<1> USE ServiceAssumption DEF TypeOK
<1>1. ASSUME NEW r \in Message, NEW k \in Keys \cup {None}, NEW t \in ThreadIds,
             BeginMessage(r, k, t)
      PROVE  TypeOK'
  <2>1. RequestKey(r, k) \in RequestKeys
    BY DEF RequestKey, RequestKeys, RequestIds, Message
  <2>2. locked' \in Section
    BY <1>1, <2>1 DEF BeginMessage, Section
  <2>3. sent' \in [RequestIds -> Request \cup {None}]
    BY <1>1 DEF BeginMessage, Remember, Request, RequestIds, Message
  <2>4. StoreTypeOK'
    <3>1. CASE UNCHANGED store
      BY <3>1 DEF StoreTypeOK, store, threadVars, deliveryVars
    <3>2. CASE GetOrCreate(t, r.under, r.from, r.to)
      BY <3>2, GetOrCreateType DEF Message
    <3>3. CASE GetOrCreate(t, None, r.from, r.to)
      BY <3>3, GetOrCreateType DEF Message
    <3> QED BY <1>1, <3>1, <3>2, <3>3 DEF BeginMessage, ResolveThread
  <2> QED BY <1>1, <2>2, <2>3, <2>4 DEF BeginMessage
<1>2. ASSUME NEW r \in Notification, NEW k \in Keys \cup {None}, BeginNotification(r, k)
      PROVE  TypeOK'
  <2>1. RequestKey(r, k) \in RequestKeys
    BY DEF RequestKey, RequestKeys, RequestIds, Notification
  <2>2. locked' \in Section
    BY <1>2, <2>1 DEF BeginNotification, Section, Notification, Request
  <2>3. sent' \in [RequestIds -> Request \cup {None}]
    BY <1>2 DEF BeginNotification, Remember, Request, RequestIds, Notification
  <2>4. [kind |-> r.kind, from |-> r.from, to |-> r.to, key |-> RequestKey(r, k)] \in Event
    BY <2>1 DEF Event, EventKinds, RequestKeys, Notification
  <2>5. r.target \in ThreadIds /\ r.kind # "message"
    BY DEF Notification, NotificationStatuses
  <2>6. StoreTypeOK'
    BY <1>2, <2>4, <2>5, AppendEventType DEF BeginNotification
  <2> QED BY <1>2, <2>2, <2>3, <2>6 DEF BeginNotification
<1>3. ASSUME NEW r \in Notification, NEW k \in Keys \cup {None}, RepeatNotification(r, k)
      PROVE  TypeOK'
  <2>1. TerminalTasks(r, retries + 1) \subseteq Task
    BY DEF TerminalTasks, Task, Stages, Notification
  <2>2. StoreTypeOK'
    BY <1>3 DEF RepeatNotification, StoreTypeOK, store, threadVars, deliveryVars
  <2> QED BY <1>3, <2>1, <2>2 DEF RepeatNotification
<1> QED BY <1>1, <1>2, <1>3 DEF ClientStep

\* The steps of a flow that holds or waits for the lock keep the types.
LEMMA SectionType ==
    ASSUME TypeOK, AppendMessage \/ CancelEvents \/ SaveResponse \/ FinishInactivity
    PROVE  TypeOK'
<1> USE DEF TypeOK
<1>1. CASE AppendMessage
  <2>1. locked \in [step : {"append"}, thread : ThreadIds, request : Message, key : RequestKeys]
    BY <1>1 DEF AppendMessage, Section
  <2> DEFINE e == [kind |-> "message", from |-> locked.request.from,
                   to |-> locked.request.to, key |-> locked.key]
  <2>2. e \in Event /\ e.from \in Agents
    BY <2>1 DEF Event, EventKinds, RequestKeys, Message
  <2>3. AppendEvent(locked.thread, e)
    BY <1>1 DEF AppendMessage
  <2> HIDE DEF e
  <2>4. StoreTypeOK'
    BY <2>1, <2>2, <2>3, AppendEventType
  <2>5. locked' \in Section
    BY <1>1, <2>1 DEF AppendMessage, Section, Request
  <2> QED BY <1>1, <2>4, <2>5 DEF AppendMessage
<1>2. CASE CancelEvents
  <2>1. locked \in [step : {"cancel"}, thread : ThreadIds, request : Notification, key : RequestKeys]
    BY <1>2 DEF CancelEvents, Section
  <2>2. StoreTypeOK'
    BY <1>2, <2>1 DEF CancelEvents, CancelPending, StoreTypeOK, threadVars
  <2>3. locked' \in Section
    BY <1>2, <2>1 DEF CancelEvents, Section, Request
  <2> QED BY <1>2, <2>2, <2>3 DEF CancelEvents
<1>3. CASE SaveResponse
  <2>1. locked \in [step : {"save"}, thread : ThreadIds, request : Request, key : RequestKeys]
    BY <1>3 DEF SaveResponse, Section
  <2>2. StoreTypeOK'
    BY <1>3, <2>1 DEF SaveResponse, SaveResult, StoreTypeOK, threadVars, deliveryVars, RequestKeys
  <2>3. TerminalTasks(locked.request, 0) \subseteq Task
    BY <2>1 DEF TerminalTasks, Task, Stages, Request, Message, Notification, TerminalStatuses
  <2>4. locked' \in Section
    BY <1>3 DEF SaveResponse, Section, Free
  <2> QED BY <1>3, <2>2, <2>3, <2>4 DEF SaveResponse
<1>4. CASE FinishInactivity
  <2>1. locked \in [step : {"mark"}, thread : ThreadIds, request : {None}, key : {None}]
    BY <1>4 DEF FinishInactivity, Section
  <2>2. StoreTypeOK'
    BY <1>4, <2>1 DEF FinishInactivity, MarkInactivitySent, StoreTypeOK, deliveryVars
  <2> QED BY <1>4, <2>2 DEF FinishInactivity, Section, Free
<1> QED BY <1>1, <1>2, <1>3, <1>4

\* The steps of a cascade keep the types.
LEMMA CascadeType ==
    ASSUME TypeOK, NEW task \in tasks, CascadeStep(task)
    PROVE  TypeOK'
<1> USE DEF TypeOK
<1>1. task \in Task /\ task.thread \in ThreadIds
  BY DEF Task
<1>2. \A stage \in Stages : [task EXCEPT !.stage = stage] \in Task
  BY <1>1 DEF Task
<1>3. CASE NotifyPeer(task)
  BY <1>1, <1>2, <1>3 DEF NotifyPeer, MoveTask, Stages, StoreTypeOK, store, threadVars, deliveryVars
<1>4. CASE ListChildren(task)
  <2>1. \A c \in LiveChildren(task.thread) : [task EXCEPT !.thread = c, !.stage = "halt"] \in Task
    BY <1>1 DEF Task, LiveChildren, Stages
  <2> QED BY <1>4, <2>1 DEF ListChildren, StoreTypeOK, store, threadVars, deliveryVars
<1>5. CASE HaltParticipants(task)
  BY <1>1, <1>2, <1>5 DEF HaltParticipants, MoveTask, Stages, StoreTypeOK, store, threadVars, deliveryVars
<1>6. CASE CloseChild(task)
  <2>1. StoreTypeOK'
    BY <1>1, <1>6 DEF CloseChild, CloseThread, StoreTypeOK, deliveryVars, TerminalStatuses
  <2> QED BY <1>1, <1>2, <1>6, <2>1 DEF CloseChild, MoveTask, Stages, Section, Free
<1>7. CASE CancelChildEvents(task)
  <2>1. StoreTypeOK'
    BY <1>1, <1>7 DEF CancelChildEvents, CancelPending, StoreTypeOK, threadVars
  <2> QED BY <1>1, <1>2, <1>7, <2>1 DEF CancelChildEvents, MoveTask, Stages, Section, Free
<1> QED BY <1>3, <1>4, <1>5, <1>6, <1>7 DEF CascadeStep

\* What a fault leaves: the threads and their events, the clients and the agents
\* as they were; work in flight is dropped, the lock kept or released; at most
\* the key of the section that failed is saved.
LEMMA FaultFrame ==
    ASSUME FaultStep
    PROVE  /\ UNCHANGED <<status, parent, owner, pair, lastSender, log, pending, delivered>>
           /\ UNCHANGED <<received, stopped, sent, retries>>
           /\ faults' = faults + 1
           /\ tasks' \subseteq tasks /\ round' \subseteq round
           /\ locked' \in {locked, Free}
           /\ \/ saved' = saved
              \/ /\ locked.step = "save" /\ locked' = Free
                 /\ saved' = saved \cup ({locked.key} \ {None})
<1>1. CASE SectionFails
  BY <1>1 DEF SectionFails, Fault, SaveResult, MarkInactivitySent, store, threadVars, deliveryVars
<1>2. ASSUME NEW item \in sweep, InactivityFails(item)
      PROVE  UNCHANGED <<store, received, stopped, sent, retries, locked, tasks, round>>
             /\ faults' = faults + 1
  BY <1>2 DEF InactivityFails, Fault
<1>3. ASSUME NEW task \in tasks, TaskFails(task)
      PROVE  /\ UNCHANGED <<store, received, stopped, sent, retries, round>>
             /\ faults' = faults + 1 /\ tasks' \subseteq tasks /\ locked' \in {locked, Free}
  BY <1>3 DEF TaskFails, Fault
<1>4. CASE Crash
  BY <1>4 DEF Crash, Fault, store, threadVars, deliveryVars
<1> QED BY <1>1, <1>2, <1>3, <1>4 DEF FaultStep, store, threadVars, deliveryVars

\* What a fault leaves of a sweep is of the items' type.
LEMMA FaultSweep ==
    ASSUME TypeOK,
           \/ FaultStep
           \/ \E item \in sweep : RefuseInactivity(item)
    PROVE  /\ sweep' \subseteq [thread : ThreadIds, to : Agents, late : BOOLEAN]
           /\ \A item \in sweep' :
                 \E old \in sweep : item.thread = old.thread /\ item.to = old.to
<1> DEFINE Item == [thread : ThreadIds, to : Agents, late : BOOLEAN]
<1>1. sweep \subseteq Item
  BY DEF TypeOK
<1>2. \A old \in Item : LET item == [old EXCEPT !.late = TRUE]
                        IN item \in Item /\ item.thread = old.thread /\ item.to = old.to
  OBVIOUS
<1>3. ASSUME NEW items \in SUBSET sweep
      PROVE  /\ AllLate(items) \subseteq Item
             /\ \A item \in AllLate(items) :
                   \E old \in sweep : item.thread = old.thread /\ item.to = old.to
  <2>1. ASSUME NEW item \in AllLate(items)
        PROVE  item \in Item
               /\ \E old \in sweep : item.thread = old.thread /\ item.to = old.to
    <3>1. PICK old \in items : item = [old EXCEPT !.late = TRUE]
      BY <2>1 DEF AllLate
    <3> QED BY <1>1, <1>2, <3>1
  <2> QED BY <2>1
<1>4. \/ sweep' \subseteq sweep
      \/ \E items \in SUBSET sweep : sweep' = AllLate(items)
  BY DEF FaultStep, SectionFails, InactivityFails, TaskFails, Crash, RefuseInactivity, Others
<1> QED BY <1>1, <1>3, <1>4

\* A fault keeps the types.
LEMMA FaultType ==
    ASSUME TypeOK, FaultStep
    PROVE  TypeOK'
<1>1. StoreTypeOK'
  <2>1. quiet' \in [ThreadIds -> BOOLEAN]
    <3>1. quiet' = quiet \/ \E t : quiet' = [quiet EXCEPT ![t] = FALSE]
      BY DEF FaultStep, SectionFails, InactivityFails, TaskFails, Crash, SaveResult,
             MarkInactivitySent, store, threadVars
    <3> QED BY <3>1 DEF TypeOK, StoreTypeOK
  <2>2. saved' \subseteq RequestIds
    <3>1. locked.step = "save" => locked.key \in RequestKeys
      BY DEF TypeOK, Section
    <3> QED BY <3>1, FaultFrame DEF TypeOK, StoreTypeOK, RequestKeys
  <2>3. UNCHANGED <<status, parent, owner, pair, lastSender, log, pending, delivered>>
    BY FaultFrame
  <2> QED BY <2>1, <2>2, <2>3 DEF TypeOK, StoreTypeOK
<1>2. locked' \in Section
  BY FaultFrame DEF TypeOK, Section, Free
<1>3. sweep' \subseteq [thread : ThreadIds, to : Agents, late : BOOLEAN]
  BY FaultSweep
<1>4. /\ UNCHANGED <<received, stopped, sent, retries>> /\ faults' = faults + 1
      /\ tasks' \subseteq tasks /\ round' \subseteq round
  BY FaultFrame
<1> QED BY <1>1, <1>2, <1>3, <1>4 DEF TypeOK

\* The steps of the two background loops and the clock keep the types.
LEMMA LoopType ==
    ASSUME TypeOK,
           \/ StartRound \/ StartSweep
           \/ \E item \in round : DeliveryStep(item)
           \/ \E item \in sweep : BeginInactivity(item) \/ RefuseInactivity(item)
           \/ \E t \in ThreadIds : Clock(t)
    PROVE  TypeOK'
<1> USE DEF TypeOK
<1>1. CASE StartRound
  <2>1. DuePending \subseteq EventIds
    BY DEF DuePending, StoreTypeOK
  <2>2. round' \subseteq [event : EventIds, answer : Answers]
    <3>1. PICK due \in SUBSET DuePending :
              round' = {[event |-> e, answer |-> "awaited"] : e \in due}
      BY <1>1 DEF StartRound
    <3>2. ASSUME NEW item \in round'
          PROVE  item \in [event : EventIds, answer : Answers]
      <4>1. PICK e \in due : item = [event |-> e, answer |-> "awaited"]
        BY <3>1
      <4>2. e \in EventIds
        BY <2>1
      <4> QED BY <4>1, <4>2 DEF Answers
    <3> QED BY <3>2
  <2> QED BY <1>1, <2>2 DEF StartRound, StoreTypeOK, store, threadVars, deliveryVars
<1>2. CASE StartSweep
  <2>1. InactivityCandidates \subseteq ThreadIds \X Agents
    BY DEF InactivityCandidates, StoreTypeOK
  <2>2. ASSUME NEW c \in InactivityCandidates
        PROVE  [thread |-> c[1], to |-> c[2], late |-> FALSE]
                   \in [thread : ThreadIds, to : Agents, late : BOOLEAN]
    BY <2>1
  <2>3. sweep' \subseteq [thread : ThreadIds, to : Agents, late : BOOLEAN]
    BY <1>2, <2>2 DEF StartSweep
  <2> QED BY <1>2, <2>3 DEF StartSweep, StoreTypeOK, store, threadVars, deliveryVars
<1>4. ASSUME NEW item \in round, DeliveryStep(item)
      PROVE  TypeOK'
  <2>1. item \in [event : EventIds, answer : Answers] /\ item.event \in EventIds
    OBVIOUS
  <2>2. CASE PostEvent(item)
    <3>1. \A answer \in Answers : [item EXCEPT !.answer = answer] \in [event : EventIds, answer : Answers]
      BY <2>1
    <3>2. round' \subseteq [event : EventIds, answer : Answers]
      BY <2>2, <3>1 DEF PostEvent, Answered, Answers
    <3>3. received' \subseteq EventIds
      BY <2>1, <2>2 DEF PostEvent
    <3>4. UNCHANGED <<store, locked, tasks, sweep, stopped, sent, retries, faults>>
      BY <2>2 DEF PostEvent
    <3> QED BY <3>2, <3>3, <3>4 DEF StoreTypeOK, store, threadVars, deliveryVars
  <2>3. CASE FailEvent(item)
    BY <2>3 DEF FailEvent, StoreTypeOK, store, threadVars, deliveryVars
  <2>4. CASE FinishEvent(item)
    BY <2>1, <2>4 DEF FinishEvent, MarkDelivered, StoreTypeOK, threadVars
  <2> QED BY <1>4, <2>2, <2>3, <2>4 DEF DeliveryStep
<1>5. ASSUME NEW item \in sweep, BeginInactivity(item)
      PROVE  TypeOK'
  <2> DEFINE e == [kind |-> "inactive", from |-> None, to |-> item.to, key |-> None]
  <2>1. item.thread \in ThreadIds /\ item.to \in Agents
    OBVIOUS
  <2>2. e \in Event /\ e.kind # "message"
    BY <2>1 DEF Event, EventKinds
  <2>3. AppendEvent(item.thread, e)
    BY <1>5 DEF BeginInactivity
  <2> HIDE DEF e
  <2>4. StoreTypeOK'
    BY <2>1, <2>2, <2>3, AppendEventType
  <2>5. locked' \in Section
    BY <1>5, <2>1 DEF BeginInactivity, Section, Free
  <2> QED BY <1>5, <2>4, <2>5 DEF BeginInactivity
<1>7. ASSUME NEW item \in sweep, RefuseInactivity(item)
      PROVE  TypeOK'
  <2>1. sweep' \subseteq [thread : ThreadIds, to : Agents, late : BOOLEAN]
    BY <1>7, FaultSweep
  <2> QED BY <1>7, <2>1 DEF RefuseInactivity, StoreTypeOK, store, threadVars, deliveryVars
<1>6. ASSUME NEW t \in ThreadIds, Clock(t)
      PROVE  TypeOK'
  BY <1>6 DEF Clock, TimeoutElapses, StoreTypeOK, serviceVars, deliveryVars
<1> QED BY <1>1, <1>2, <1>4, <1>5, <1>6, <1>7

\* Every state of the service has its variables in their types: the columns of
\* the store, the section that holds the lock, and the work in flight outside it.
THEOREM TypeCorrect == Spec => []TypeOK
<1>1. TypeOK /\ [Next]_vars => TypeOK'
  <2> SUFFICES ASSUME TypeOK, [Next]_vars PROVE TypeOK'
    OBVIOUS
  <2>1. CASE UNCHANGED vars
    BY <2>1 DEF TypeOK, StoreTypeOK, vars, serviceVars, store, threadVars, deliveryVars
  <2> QED BY <2>1, ClientType, SectionType, CascadeType, LoopType, FaultType DEF Next, FlowStep
<1> QED BY InitType, <1>1, PTL DEF Spec
-----------------------------------------------------------------------------
(***************************************************************************)
(* What the lock, the cascades and the round know.                         *)
(***************************************************************************)

\* The section that withdraws the events of a thread, or is about to save its
\* response, works on the thread its notification made terminal.
LockInv ==
    /\ locked.step \in {"cancel", "save"} /\ locked.request.kind \in TerminalStatuses
           => locked.thread = locked.request.target
    /\ locked.step = "cancel" => Terminal(locked.thread)

\* A cascade only deals with threads that exist, and while one cancels events it
\* holds the lock, alone, for a thread that is terminal.
TaskInv ==
    /\ \A task \in tasks :
          task.stage \in {"halt", "close"} => status[task.thread] # "absent"
    /\ \A task \in tasks :
          task.stage = "cancel" => locked.step = "cascade" /\ Terminal(task.thread)
    /\ \A one, other \in tasks : one.stage = "cancel" /\ other.stage = "cancel" => one = other

\* An event whose answer has come back has been received.
AnswerInv == \A item \in round : item.answer = "accepted" => item.event \in received

\* What most steps leave alone.
calmVars == <<status, parent, pair, log, pending, locked, tasks, faults>>

CalmStep ==
    \/ UNCHANGED vars \/ StartRound \/ StartSweep
    \/ \E item \in round : PostEvent(item) \/ FailEvent(item)
    \/ \E item \in sweep : RefuseInactivity(item)
    \/ \E t \in ThreadIds : Clock(t)

\* The steps that only deal with the loops' snapshots leave the threads, the
\* lock and the cascades alone.
LEMMA CalmFrame == CalmStep => UNCHANGED calmVars
BY DEF CalmStep, calmVars, vars, store, threadVars, deliveryVars, serviceVars, StartRound,
       StartSweep, PostEvent, FailEvent, RefuseInactivity, Clock, TimeoutElapses

\* The steps of the service, those that change the threads, the lock or the
\* cascades one by one.
LEMMA StepCases ==
    ASSUME [Next]_vars
    PROVE  \/ CalmStep
           \/ \E r \in Message, k \in Keys \cup {None}, t \in ThreadIds : BeginMessage(r, k, t)
           \/ \E r \in Notification, k \in Keys \cup {None} :
                 BeginNotification(r, k) \/ RepeatNotification(r, k)
           \/ AppendMessage \/ CancelEvents \/ SaveResponse \/ FinishInactivity
           \/ \E task \in tasks : CascadeStep(task)
           \/ \E item \in round : FinishEvent(item)
           \/ \E item \in sweep : BeginInactivity(item)
           \/ FaultStep
BY DEF Next, ClientStep, FlowStep, DeliveryStep, CalmStep

\* The sections that hold the lock have the thread and the request of their step.
LEMMA SectionFields ==
    ASSUME TypeOK
    PROVE  /\ locked.step \in {"append", "cancel", "save", "mark"} => locked.thread \in ThreadIds
           /\ locked.step = "append" => locked.request \in Message
           /\ locked.step = "cancel" => locked.request \in Notification
           /\ locked.step = "save" => locked.request \in Request
BY DEF TypeOK, Section
-----------------------------------------------------------------------------
(***************************************************************************)
(* What a step does to the threads.                                        *)
(***************************************************************************)

\* No thread is deleted, and a terminal one keeps its status and its log.
KeepsThreads ==
    \A t \in ThreadIds :
        /\ status[t] # "absent" => status'[t] # "absent"
        /\ Terminal(t) => status'[t] = status[t] /\ log'[t] = log[t]

\* Appending an event keeps every other thread, and needs a live one.
LEMMA AppendKeeps ==
    ASSUME StoreTypeOK, NEW t \in ThreadIds, NEW e \in Event, AppendEvent(t, e)
    PROVE  KeepsThreads
BY DEF StoreTypeOK, AppendEvent, RecordEvent, KeepsThreads, Live, Terminal, NonTerminalStatuses,
       TerminalStatuses, Event, EventKinds, NotificationStatuses

\* Every step keeps the threads in that sense.
LEMMA StepKeepsThreads ==
    ASSUME TypeOK, [Next]_vars
    PROVE  KeepsThreads
<1> USE DEF TypeOK
<1>1. CASE UNCHANGED <<status, log>>
  BY <1>1 DEF KeepsThreads
<1>2. ASSUME NEW r \in Message, NEW k \in Keys \cup {None}, NEW t \in ThreadIds,
             BeginMessage(r, k, t)
      PROVE  KeepsThreads
  <2>1. \/ UNCHANGED <<status, log>>
        \/ status[t] = "absent" /\ status' = [status EXCEPT ![t] = "open"] /\ log' = log
    BY <1>2 DEF BeginMessage, ResolveThread, GetOrCreate, InsertThread, store, threadVars
  <2> QED BY <2>1 DEF KeepsThreads, StoreTypeOK, Terminal, TerminalStatuses
<1>3. ASSUME NEW r \in Notification, NEW k \in Keys \cup {None}, BeginNotification(r, k)
      PROVE  KeepsThreads
  <2>1. [kind |-> r.kind, from |-> r.from, to |-> r.to, key |-> RequestKey(r, k)] \in Event
    BY DEF Event, EventKinds, Notification, RequestKey, RequestIds
  <2>2. r.target \in ThreadIds
    BY DEF Notification
  <2> QED BY <1>3, <2>1, <2>2, AppendKeeps DEF BeginNotification
<1>4. CASE AppendMessage
  <2>1. locked \in [step : {"append"}, thread : ThreadIds, request : Message, key : RequestKeys]
    BY <1>4 DEF AppendMessage, Section
  <2>2. [kind |-> "message", from |-> locked.request.from, to |-> locked.request.to,
         key |-> locked.key] \in Event
    BY <2>1 DEF Event, EventKinds, RequestKeys, Message
  <2> QED BY <1>4, <2>1, <2>2, AppendKeeps DEF AppendMessage
<1>5. ASSUME NEW item \in sweep, BeginInactivity(item)
      PROVE  KeepsThreads
  <2>1. [kind |-> "inactive", from |-> None, to |-> item.to, key |-> None] \in Event
    BY DEF Event, EventKinds
  <2> QED BY <1>5, <2>1, AppendKeeps DEF BeginInactivity
<1>6. ASSUME NEW task \in tasks, CascadeStep(task)
      PROVE  KeepsThreads
  <2>1. task.thread \in ThreadIds
    BY DEF Task
  <2>2. CASE CloseChild(task)
    BY <2>1, <2>2 DEF CloseChild, CloseThread, KeepsThreads, StoreTypeOK, Live, Terminal,
                      NonTerminalStatuses, TerminalStatuses
  <2>3. CASE ~CloseChild(task)
    BY <1>1, <1>6, <2>3 DEF CascadeStep, NotifyPeer, ListChildren, HaltParticipants,
                            CancelChildEvents, CancelPending, store, threadVars
  <2> QED BY <2>2, <2>3
<1>7. CASE CalmStep
  BY <1>1, <1>7, CalmFrame DEF calmVars
<1>8. ASSUME NEW r \in Notification, NEW k \in Keys \cup {None}, RepeatNotification(r, k)
      PROVE  KeepsThreads
  BY <1>1, <1>8 DEF RepeatNotification, store, threadVars
<1>9. CASE CancelEvents \/ SaveResponse \/ FinishInactivity \/ FaultStep
  BY <1>1, <1>9, FaultFrame DEF CancelEvents, CancelPending, SaveResponse, SaveResult,
                                FinishInactivity, MarkInactivitySent, store, threadVars
<1>10. ASSUME NEW item \in round, FinishEvent(item)
       PROVE  KeepsThreads
  BY <1>1, <1>10 DEF FinishEvent, MarkDelivered, threadVars
<1> HIDE DEF TypeOK
<1> QED BY <1>2, <1>3, <1>4, <1>5, <1>6, <1>7, <1>8, <1>9, <1>10, StepCases

\* done and closed are final: whatever message, notification, cascade or sweep is
\* under way, a terminal thread keeps its status and gets no further event.
THEOREM TerminalThreadsAreFinal == Spec => TerminalIsFinal
<1>1. TypeOK /\ [Next]_vars =>
          [\A t \in ThreadIds : Terminal(t) => status'[t] = status[t] /\ log'[t] = log[t]]_vars
  BY StepKeepsThreads DEF KeepsThreads
<1> QED BY <1>1, TypeCorrect, PTL DEF Spec, TerminalIsFinal
-----------------------------------------------------------------------------
(***************************************************************************)
(* The lock and the cascades.                                              *)
(***************************************************************************)

\* A terminal thread stays terminal.
LEMMA TerminalStays ==
    ASSUME KeepsThreads, NEW t \in ThreadIds, Terminal(t)
    PROVE  Terminal(t)'
BY DEF KeepsThreads, Terminal

\* Every step keeps what the lock and the cascades know.
LEMMA LockTaskStep ==
    ASSUME TypeOK, LockInv, TaskInv, [Next]_vars
    PROVE  LockInv' /\ TaskInv'
<1>0. KeepsThreads
  BY StepKeepsThreads
<1>a. ASSUME NEW task \in tasks PROVE task.thread \in ThreadIds /\ task \in Task
  BY DEF TypeOK, Task
<1>b. \A task \in tasks : task.stage \in {"halt", "close"} => status'[task.thread] # "absent"
  BY <1>0, <1>a DEF KeepsThreads, TaskInv
<1>c. \A task \in tasks : task.stage = "cancel" => locked.step = "cascade" /\ Terminal(task.thread)'
  BY <1>0, <1>a, TerminalStays DEF TaskInv
<1>d. locked.step = "cancel" => status'[locked.thread] \in TerminalStatuses
  BY <1>0, SectionFields DEF LockInv, KeepsThreads, Terminal
<1>1. CASE CalmStep
  BY <1>1, <1>b, <1>c, <1>d, CalmFrame DEF calmVars, LockInv, TaskInv, Terminal
<1>2. ASSUME NEW r \in Message, NEW k \in Keys \cup {None}, NEW t \in ThreadIds,
             BeginMessage(r, k, t)
      PROVE  LockInv' /\ TaskInv'
  <2>1. locked'.step = "append" /\ tasks' = tasks /\ locked.step = "free"
    BY <1>2 DEF BeginMessage, LockFree
  <2> QED BY <2>1, <1>b, <1>c DEF LockInv, TaskInv
<1>3. ASSUME NEW r \in Notification, NEW k \in Keys \cup {None}, BeginNotification(r, k)
      PROVE  LockInv' /\ TaskInv'
  <2>1. /\ locked'.step \in {"cancel", "save"} /\ tasks' = tasks /\ locked.step = "free"
        /\ locked'.thread = r.target /\ locked'.request = r
        /\ locked'.step = "cancel" => r.kind \in TerminalStatuses
    BY <1>3 DEF BeginNotification, LockFree
  <2>2. r.target \in ThreadIds /\ r.kind \in NotificationStatuses
    BY DEF Notification
  <2>3. r.kind \in TerminalStatuses => Terminal(r.target)'
    BY <1>3, <2>2 DEF BeginNotification, AppendEvent, RecordEvent, TypeOK, StoreTypeOK, Terminal,
                      TerminalStatuses, NotificationStatuses
  <2> QED BY <2>1, <2>3, <1>b, <1>c DEF LockInv, TaskInv
<1>4. ASSUME NEW r \in Notification, NEW k \in Keys \cup {None}, RepeatNotification(r, k)
      PROVE  LockInv' /\ TaskInv'
  <2>1. \A task \in TerminalTasks(r, retries + 1) : task.stage \in {"notify", "list"}
    BY DEF TerminalTasks
  <2>2. locked' = locked /\ tasks' = tasks \cup TerminalTasks(r, retries + 1)
    BY <1>4 DEF RepeatNotification
  <2> QED BY <2>1, <2>2, <1>b, <1>c, <1>d DEF LockInv, TaskInv, Terminal
<1>5. CASE AppendMessage
  <2>1. locked \in [step : {"append"}, thread : ThreadIds, request : Message, key : RequestKeys]
    BY <1>5 DEF AppendMessage, TypeOK, Section
  <2>2. locked' = [locked EXCEPT !.step = "save"] /\ tasks' = tasks
    BY <1>5 DEF AppendMessage
  <2>3. locked'.step = "save" /\ locked'.request.kind \notin TerminalStatuses
    BY <2>1, <2>2 DEF Message, TerminalStatuses
  <2> QED BY <2>1, <2>2, <2>3, <1>b, <1>c DEF LockInv, TaskInv
<1>6. CASE CancelEvents
  <2>1. locked \in [step : {"cancel"}, thread : ThreadIds, request : Notification, key : RequestKeys]
    BY <1>6 DEF CancelEvents, TypeOK, Section
  <2>2. locked' = [locked EXCEPT !.step = "save"] /\ tasks' = tasks
    BY <1>6 DEF CancelEvents
  <2> QED BY <2>1, <2>2, <1>b, <1>c DEF LockInv, TaskInv
<1>7. CASE SaveResponse
  <2>1. \A task \in TerminalTasks(locked.request, 0) : task.stage \in {"notify", "list"}
    BY DEF TerminalTasks
  <2>2. locked.step = "save" /\ locked' = Free /\ tasks' = tasks \cup TerminalTasks(locked.request, 0)
    BY <1>7 DEF SaveResponse
  <2> QED BY <2>1, <2>2, <1>b, <1>c DEF LockInv, TaskInv, Free
<1>8. CASE FinishInactivity
  BY <1>8, <1>b, <1>c DEF FinishInactivity, LockInv, TaskInv, Free
<1>9. ASSUME NEW task \in tasks, CascadeStep(task)
      PROVE  LockInv' /\ TaskInv'
  <2>0. \A stage \in Stages : [task EXCEPT !.stage = stage].stage = stage
                              /\ [task EXCEPT !.stage = stage].thread = task.thread
    BY <1>a DEF Task
  <2>1. CASE NotifyPeer(task)
    BY <2>0, <2>1, <1>b, <1>c, <1>d DEF NotifyPeer, MoveTask, LockInv, TaskInv, Terminal, Stages
  <2>2. CASE ListChildren(task)
    <3>1. \A c \in LiveChildren(task.thread) :
              /\ [task EXCEPT !.thread = c, !.stage = "halt"].stage = "halt"
              /\ [task EXCEPT !.thread = c, !.stage = "halt"].thread = c
      BY <1>a DEF Task
    <3>2. \A c \in LiveChildren(task.thread) : status'[c] # "absent"
      BY <2>2 DEF ListChildren, store, threadVars, LiveChildren, Live, NonTerminalStatuses
    <3>3. locked' = locked
      BY <2>2 DEF ListChildren
    <3>4. ASSUME NEW other \in tasks'
          PROVE  \/ other \in tasks
                 \/ other.stage = "halt" /\ status'[other.thread] # "absent"
      <4>1. CASE other \in tasks
        BY <4>1
      <4>2. CASE other \notin tasks
        <5>1. PICK c \in LiveChildren(task.thread) :
                  other = [task EXCEPT !.thread = c, !.stage = "halt"]
          BY <2>2, <4>2 DEF ListChildren
        <5> QED BY <5>1, <3>1, <3>2
      <4> QED BY <4>1, <4>2
    <3> QED BY <3>3, <3>4, <1>b, <1>c, <1>d DEF LockInv, TaskInv, Terminal
  <2>3. CASE HaltParticipants(task)
    <3>1. task.stage = "halt" /\ locked' = locked
      BY <2>3 DEF HaltParticipants
    <3>2. tasks' = (tasks \ {task}) \cup {[task EXCEPT !.stage = "close"]}
      BY <2>3 DEF HaltParticipants, MoveTask
    <3>3. [task EXCEPT !.stage = "close"].stage = "close"
          /\ [task EXCEPT !.stage = "close"].thread = task.thread
      BY <2>0 DEF Stages
    <3>4. ASSUME NEW other \in tasks'
          PROVE  \/ other \in tasks
                 \/ other.stage = "close" /\ status'[other.thread] # "absent"
      BY <3>1, <3>2, <3>3, <1>b
    <3> QED BY <3>1, <3>4, <1>b, <1>c, <1>d DEF LockInv, TaskInv, Terminal
  <2>4. CASE CloseChild(task)
    <3>1. locked.step = "free" /\ locked'.step = "cascade" /\ task.stage = "close"
      BY <2>4 DEF CloseChild, LockFree, Free
    <3>2. tasks' = (tasks \ {task}) \cup {[task EXCEPT !.stage = "cancel"]}
      BY <2>4 DEF CloseChild, MoveTask
    <3>3. \A other \in tasks : other.stage # "cancel"
      BY <3>1 DEF TaskInv
    <3>4. Terminal(task.thread)'
      BY <2>4, <3>1, <1>a DEF CloseChild, CloseThread, TypeOK, StoreTypeOK, TaskInv, Live, Terminal,
                              NonTerminalStatuses, TerminalStatuses
    <3>5. [task EXCEPT !.stage = "cancel"].stage = "cancel"
          /\ [task EXCEPT !.stage = "cancel"].thread = task.thread
      BY <2>0 DEF Stages
    <3> QED BY <3>1, <3>2, <3>3, <3>4, <3>5, <1>b DEF LockInv, TaskInv
  <2>5. CASE CancelChildEvents(task)
    <3>1. task.stage = "cancel" /\ locked'.step = "free"
      BY <2>5 DEF CancelChildEvents, Free
    <3>2. tasks' = (tasks \ {task}) \cup {[task EXCEPT !.stage = "list"]}
      BY <2>5 DEF CancelChildEvents, MoveTask
    <3>3. \A other \in tasks \ {task} : other.stage # "cancel"
      BY <3>1 DEF TaskInv
    <3>4. [task EXCEPT !.stage = "list"].stage = "list"
      BY <2>0 DEF Stages
    <3> QED BY <3>1, <3>2, <3>3, <3>4, <1>b DEF LockInv, TaskInv
  <2> QED BY <1>9, <2>1, <2>2, <2>3, <2>4, <2>5 DEF CascadeStep
<1>10. ASSUME NEW item \in round, FinishEvent(item)
       PROVE  LockInv' /\ TaskInv'
  BY <1>10, <1>b, <1>c, <1>d DEF FinishEvent, LockInv, TaskInv, Terminal
<1>11. ASSUME NEW item \in sweep, BeginInactivity(item)
       PROVE  LockInv' /\ TaskInv'
  <2>1. locked.step = "free" /\ locked'.step = "mark" /\ tasks' = tasks
    BY <1>11 DEF BeginInactivity, LockFree, Free
  <2> QED BY <2>1, <1>b, <1>c DEF LockInv, TaskInv
<1>12. CASE FaultStep
  <2>1. status' = status /\ tasks' \subseteq tasks
    BY <1>12, FaultFrame
  <2>2. \/ locked' = locked
        \/ locked' = Free /\ \A task \in tasks' : task.stage # "cancel"
    <3>1. CASE SectionFails
      BY <3>1 DEF SectionFails, TaskInv
    <3>2. ASSUME NEW item \in sweep, InactivityFails(item)
          PROVE  locked' = locked
      BY <3>2 DEF InactivityFails
    <3>3. ASSUME NEW task \in tasks, TaskFails(task)
          PROVE  \/ locked' = locked
                 \/ locked' = Free /\ \A other \in tasks' : other.stage # "cancel"
      BY <3>3 DEF TaskFails, TaskInv
    <3>4. CASE Crash
      BY <3>4 DEF Crash
    <3> QED BY <1>12, <3>1, <3>2, <3>3, <3>4 DEF FaultStep
  <2> QED BY <2>1, <2>2 DEF Free, LockInv, TaskInv, Terminal
<1> QED BY <1>1, <1>2, <1>3, <1>4, <1>5, <1>6, <1>7, <1>8, <1>9, <1>10, <1>11, <1>12, StepCases

\* What the lock and the cascades know holds in every state.
LEMMA LockTaskInvariant == Spec => [](TypeOK /\ LockInv /\ TaskInv)
<1>1. Init => LockInv /\ TaskInv
  BY DEF Init, LockInv, TaskInv, Free
<1>2. TypeOK /\ TypeOK' /\ LockInv /\ TaskInv /\ [Next]_vars => LockInv' /\ TaskInv'
  BY LockTaskStep
<1> QED BY <1>1, <1>2, TypeCorrect, PTL DEF Spec
-----------------------------------------------------------------------------
(***************************************************************************)
(* Threads of a pair.                                                      *)
(***************************************************************************)

\* Only the first step of a message makes a thread, or gives one a parent.
NoThreadOpens ==
    /\ UNCHANGED <<parent, pair>>
    /\ \A t \in ThreadIds : status'[t] \in NonTerminalStatuses => Live(t)

\* Appending an event opens no thread.
LEMMA AppendOpensNothing ==
    ASSUME StoreTypeOK, NEW t \in ThreadIds, NEW e, AppendEvent(t, e)
    PROVE  NoThreadOpens
BY DEF StoreTypeOK, AppendEvent, RecordEvent, NoThreadOpens, Live

\* No step but the first of a message opens a thread.
LEMMA StepOpensNothing ==
    ASSUME TypeOK, [Next]_vars,
           ~ \E r \in Message, k \in Keys \cup {None}, t \in ThreadIds : BeginMessage(r, k, t)
    PROVE  NoThreadOpens
<1> USE DEF TypeOK
<1>1. CASE UNCHANGED <<status, parent, pair>>
  BY <1>1 DEF NoThreadOpens, Live
<1>2. ASSUME NEW r \in Notification, NEW k \in Keys \cup {None}, BeginNotification(r, k)
      PROVE  NoThreadOpens
  BY <1>2, AppendOpensNothing DEF BeginNotification, Notification
<1>3. CASE AppendMessage
  BY <1>3, SectionFields, AppendOpensNothing DEF AppendMessage
<1>4. ASSUME NEW item \in sweep, BeginInactivity(item)
      PROVE  NoThreadOpens
  BY <1>4, AppendOpensNothing DEF BeginInactivity
<1>5. ASSUME NEW task \in tasks, CascadeStep(task)
      PROVE  NoThreadOpens
  <2>1. CASE CloseChild(task)
    BY <2>1 DEF CloseChild, CloseThread, NoThreadOpens, StoreTypeOK, Task, Live,
                NonTerminalStatuses
  <2>2. CASE ~CloseChild(task)
    BY <1>1, <1>5, <2>2 DEF CascadeStep, NotifyPeer, ListChildren, HaltParticipants,
                            CancelChildEvents, CancelPending, store, threadVars
  <2> QED BY <2>1, <2>2
<1>6. CASE CalmStep
  BY <1>1, <1>6, CalmFrame DEF calmVars
<1>7. ASSUME NEW r \in Notification, NEW k \in Keys \cup {None}, RepeatNotification(r, k)
      PROVE  NoThreadOpens
  BY <1>1, <1>7 DEF RepeatNotification, store, threadVars
<1>8. CASE CancelEvents \/ SaveResponse \/ FinishInactivity \/ FaultStep
  BY <1>1, <1>8, FaultFrame DEF CancelEvents, CancelPending, SaveResponse, SaveResult,
                                FinishInactivity, MarkInactivitySent, store, threadVars
<1>9. ASSUME NEW item \in round, FinishEvent(item)
      PROVE  NoThreadOpens
  BY <1>1, <1>9 DEF FinishEvent, MarkDelivered, threadVars
<1> HIDE DEF TypeOK
<1> QED BY <1>2, <1>3, <1>4, <1>5, <1>6, <1>7, <1>8, <1>9, StepCases

\* What the first step of a message does to the threads: nothing, or one new row
\* for a pair that has no live thread under that parent, which is live itself.
LEMMA MessageOpensOne ==
    ASSUME NEW r \in Message, NEW k, NEW t \in ThreadIds, BeginMessage(r, k, t)
    PROVE  \/ UNCHANGED store
           \/ \E p \in ThreadIds \cup {None} :
                 /\ p # None => Live(p)
                 /\ LiveThreads(p, {r.from, r.to}) = {}
                 /\ InsertThread(t, p, r.from, r.to)
BY DEF BeginMessage, ResolveThread, GetOrCreate, Message

\* Two agents have at most one live thread under a parent.
THEOREM OneThreadPerPair == Spec => []OneLiveThreadPerPair
<1>1. Init => OneLiveThreadPerPair
  BY DEF Init, StoreInit, OneLiveThreadPerPair, Live, NonTerminalStatuses
<1>2. ASSUME TypeOK, OneLiveThreadPerPair, [Next]_vars
      PROVE  OneLiveThreadPerPair'
  <2>1. ASSUME NEW r \in Message, NEW k \in Keys \cup {None}, NEW t \in ThreadIds,
               BeginMessage(r, k, t)
        PROVE  OneLiveThreadPerPair'
    <3>1. CASE UNCHANGED store
      BY <1>2, <3>1 DEF OneLiveThreadPerPair, Live, store, threadVars
    <3>2. ASSUME NEW p \in ThreadIds \cup {None}, LiveThreads(p, {r.from, r.to}) = {},
                 InsertThread(t, p, r.from, r.to)
          PROVE  OneLiveThreadPerPair'
      <4> SUFFICES ASSUME NEW u \in ThreadIds, NEW w \in ThreadIds, Live(u)', Live(w)',
                          parent'[u] = parent'[w], pair'[u] = pair'[w]
                   PROVE  u = w
        BY DEF OneLiveThreadPerPair
      <4>1. \A x \in ThreadIds \ {t} :
                status'[x] = status[x] /\ parent'[x] = parent[x] /\ pair'[x] = pair[x]
        BY <1>2, <3>2 DEF InsertThread, TypeOK, StoreTypeOK
      <4>2. parent'[t] = p /\ pair'[t] = {r.from, r.to}
        BY <1>2, <3>2 DEF InsertThread, TypeOK, StoreTypeOK
      <4>3. CASE u # t /\ w # t
        BY <1>2, <4>1, <4>3 DEF OneLiveThreadPerPair, Live
      <4>4. \A x \in ThreadIds \ {t} :
                ~(status'[x] \in NonTerminalStatuses /\ parent'[x] = p /\ pair'[x] = {r.from, r.to})
        BY <3>2, <4>1 DEF LiveThreads, Live
      <4> QED BY <4>2, <4>3, <4>4 DEF Live
    <3> QED BY <2>1, <3>1, <3>2, MessageOpensOne
  <2>2. CASE NoThreadOpens
    BY <1>2, <2>2 DEF NoThreadOpens, OneLiveThreadPerPair, Live
  <2> QED BY <1>2, <2>1, <2>2, StepOpensNothing
<1> QED BY <1>1, <1>2, TypeCorrect, PTL DEF Spec
-----------------------------------------------------------------------------
(***************************************************************************)
(* The cascade misses no child.                                            *)
(***************************************************************************)

\* A step that opens no thread, ends no thread and keeps what follows up the
\* terminal ones keeps the children covered.
LEMMA CoveredFrame ==
    ASSUME CascadeCoversChildren, StoreTypeOK, NoThreadOpens,
           faults' = 0 => faults = 0,
           \A t \in ThreadIds : Terminal(t)' => Terminal(t) \/ FollowedUp(t)',
           \A t \in ThreadIds : FollowedUp(t) => FollowedUp(t)',
           \A t \in ThreadIds : BeingClosed(t) /\ Live(t)' => BeingClosed(t)'
    PROVE  CascadeCoversChildren'
<1> SUFFICES ASSUME NEW t \in ThreadIds, faults' = 0, Live(t)', parent'[t] # None,
                    Terminal(parent[t])'
             PROVE  FollowedUp(parent[t])' \/ BeingClosed(t)'
  BY DEF CascadeCoversChildren, NoThreadOpens, Terminal
<1>1. parent'[t] = parent[t] /\ parent[t] \in ThreadIds /\ Live(t)
  BY DEF NoThreadOpens, StoreTypeOK, Live
<1>2. CASE Terminal(parent[t])
  BY <1>1, <1>2 DEF CascadeCoversChildren
<1>3. CASE ~Terminal(parent[t])
  BY <1>1, <1>3
<1> QED BY <1>2, <1>3

\* Every step keeps the children of the terminal threads covered.
LEMMA CoveredStep ==
    ASSUME TypeOK, LockInv, TaskInv, CascadeCoversChildren, [Next]_vars
    PROVE  CascadeCoversChildren'
<1>0. StoreTypeOK /\ KeepsThreads
  BY StepKeepsThreads DEF TypeOK
<1>a. ASSUME NEW task \in tasks PROVE task.thread \in ThreadIds /\ task \in Task
  BY DEF TypeOK, Task
<1>1. ASSUME NEW r \in Message, NEW k \in Keys \cup {None}, NEW t \in ThreadIds,
             BeginMessage(r, k, t)
      PROVE  CascadeCoversChildren'
  <2>1. tasks' = tasks /\ faults' = faults /\ locked.step = "free" /\ locked'.step = "append"
    BY <1>1 DEF BeginMessage, LockFree
  <2>2. \A u \in ThreadIds : /\ FollowedUp(u) => FollowedUp(u)'
                             /\ BeingClosed(u) => BeingClosed(u)'
    BY <2>1 DEF FollowedUp, BeingClosed
  <2>3. CASE UNCHANGED store
    <3>1. NoThreadOpens /\ \A u \in ThreadIds : Terminal(u)' => Terminal(u)
      BY <2>3 DEF NoThreadOpens, Terminal, Live, store, threadVars
    <3> QED BY <1>0, <2>1, <2>2, <3>1, CoveredFrame
  <2>4. ASSUME NEW p \in ThreadIds \cup {None}, p # None => Live(p),
               InsertThread(t, p, r.from, r.to)
        PROVE  CascadeCoversChildren'
    <3>1. /\ parent' = [parent EXCEPT ![t] = p] /\ status' = [status EXCEPT ![t] = "open"]
          /\ status[t] = "absent"
      BY <2>4 DEF InsertThread
    <3>2. \A u \in ThreadIds : status'[u] \in TerminalStatuses => Terminal(u) /\ u # t
      BY <1>0, <3>1 DEF StoreTypeOK, Terminal, TerminalStatuses
    <3>3. parent'[t] # None => ~Terminal(parent'[t])
      BY <1>0, <2>4, <3>1 DEF StoreTypeOK, Live, Terminal, NonTerminalStatuses, TerminalStatuses
    <3> SUFFICES ASSUME NEW u \in ThreadIds, faults' = 0, Live(u)', parent'[u] # None,
                        status'[parent'[u]] \in TerminalStatuses
                 PROVE  FollowedUp(parent'[u]) \/ BeingClosed(u)
      <4>1. \A u \in ThreadIds : parent'[u] \in ThreadIds \cup {None}
        BY <1>0, <3>1 DEF StoreTypeOK
      <4> QED BY <2>1, <4>1 DEF CascadeCoversChildren, Terminal, FollowedUp, BeingClosed
    <3>4. parent'[u] \in ThreadIds
      BY <1>0, <3>1 DEF StoreTypeOK
    <3>5. u # t
      BY <3>2, <3>3, <3>4
    <3>6. parent'[u] = parent[u] /\ Live(u)
      BY <1>0, <3>1, <3>5 DEF StoreTypeOK, Live
    <3> QED BY <2>1, <3>2, <3>4, <3>6 DEF CascadeCoversChildren
  <2> QED BY <1>1, <2>3, <2>4, MessageOpensOne
<1>2. ASSUME ~ \E r \in Message, k \in Keys \cup {None}, t \in ThreadIds : BeginMessage(r, k, t)
      PROVE  CascadeCoversChildren'
  <2>0. NoThreadOpens
    BY <1>2, StepOpensNothing
  <2>1. CASE CalmStep
    <3>1. UNCHANGED <<status, locked, tasks, faults>>
      BY <2>1, CalmFrame DEF calmVars
    <3> QED BY <1>0, <2>0, <3>1, CoveredFrame DEF Terminal, FollowedUp, BeingClosed
  <2>2. ASSUME NEW r \in Notification, NEW k \in Keys \cup {None}, BeginNotification(r, k)
        PROVE  CascadeCoversChildren'
    <3>1. /\ tasks' = tasks /\ faults' = faults /\ locked.step = "free"
          /\ locked'.step \in {"cancel", "save"} /\ locked'.thread = r.target
          /\ locked'.request = r
      BY <2>2 DEF BeginNotification, LockFree
    <3>2. status' = [status EXCEPT ![r.target] = r.kind]
      BY <2>2 DEF BeginNotification, AppendEvent, RecordEvent, Notification, NotificationStatuses
    <3>3. \A t \in ThreadIds : Terminal(t)' => Terminal(t) \/ FollowedUp(t)'
      BY <1>0, <3>1, <3>2 DEF Terminal, FollowedUp, StoreTypeOK
    <3> QED BY <1>0, <2>0, <3>1, <3>3, CoveredFrame DEF FollowedUp, BeingClosed
  <2>3. ASSUME NEW r \in Notification, NEW k \in Keys \cup {None}, RepeatNotification(r, k)
        PROVE  CascadeCoversChildren'
    <3>1. /\ tasks \subseteq tasks' /\ UNCHANGED <<status, locked, faults>>
      BY <2>3 DEF RepeatNotification, store, threadVars
    <3> QED BY <1>0, <2>0, <3>1, CoveredFrame DEF Terminal, FollowedUp, BeingClosed
  <2>4. CASE AppendMessage
    <3>1. /\ tasks' = tasks /\ faults' = faults /\ locked.step = "append"
          /\ AppendEvent(locked.thread, [kind |-> "message", from |-> locked.request.from,
                                         to |-> locked.request.to, key |-> locked.key])
      BY <2>4 DEF AppendMessage
    <3>2. status' = [status EXCEPT ![locked.thread] = "open"]
      BY <3>1 DEF AppendEvent, RecordEvent
    <3>3. \A t \in ThreadIds : Terminal(t)' => Terminal(t)
      BY <1>0, <3>2 DEF Terminal, TerminalStatuses, StoreTypeOK
    <3> QED BY <1>0, <2>0, <3>1, <3>3, CoveredFrame DEF FollowedUp, BeingClosed
  <2>5. CASE CancelEvents
    <3>1. /\ tasks' = tasks /\ faults' = faults /\ locked.step = "cancel" /\ status' = status
          /\ locked' = [locked EXCEPT !.step = "save"]
      BY <2>5 DEF CancelEvents, CancelPending, threadVars
    <3>2. locked \in [step : {"cancel"}, thread : ThreadIds, request : Notification,
                      key : RequestKeys]
      BY <3>1 DEF TypeOK, Section
    <3>3. locked'.step = "save" /\ locked'.thread = locked.thread /\ locked'.request = locked.request
      BY <3>1, <3>2
    <3> QED BY <1>0, <2>0, <3>1, <3>3, CoveredFrame DEF Terminal, FollowedUp, BeingClosed
  <2>6. CASE SaveResponse
    <3>1. /\ tasks' = tasks \cup TerminalTasks(locked.request, 0) /\ faults' = faults
          /\ locked.step = "save" /\ status' = status
      BY <2>6 DEF SaveResponse, SaveResult, threadVars
    <3>2. locked.request.kind \in TerminalStatuses =>
              \E task \in tasks' : task.thread = locked.thread /\ task.stage \in {"notify", "list"}
      <4> DEFINE first == [root |-> locked.request.target, run |-> 0,
                           thread |-> locked.request.target,
                           stage |-> IF locked.request.kind = "closed" THEN "notify" ELSE "list"]
      <4>1. locked.request.kind \in TerminalStatuses => first \in tasks'
        BY <3>1 DEF TerminalTasks
      <4>2. locked.request.kind \in TerminalStatuses => first.thread = locked.thread
        BY <3>1 DEF LockInv
      <4>3. first.stage \in {"notify", "list"}
        OBVIOUS
      <4> QED BY <4>1, <4>2, <4>3
    <3>3. \A t \in ThreadIds : FollowedUp(t) => FollowedUp(t)'
      BY <3>1, <3>2 DEF FollowedUp
    <3> QED BY <1>0, <2>0, <3>1, <3>3, CoveredFrame DEF Terminal, BeingClosed
  <2>7. CASE FinishInactivity
    <3>1. UNCHANGED <<status, tasks, faults>> /\ locked.step = "mark"
      BY <2>7 DEF FinishInactivity, MarkInactivitySent
    <3> QED BY <1>0, <2>0, <3>1, CoveredFrame DEF Terminal, FollowedUp, BeingClosed
  <2>8. ASSUME NEW item \in round, FinishEvent(item)
        PROVE  CascadeCoversChildren'
    <3>1. UNCHANGED <<status, locked, tasks, faults>>
      BY <2>8 DEF FinishEvent, MarkDelivered, threadVars
    <3> QED BY <1>0, <2>0, <3>1, CoveredFrame DEF Terminal, FollowedUp, BeingClosed
  <2>9. ASSUME NEW item \in sweep, BeginInactivity(item)
        PROVE  CascadeCoversChildren'
    <3>1. UNCHANGED <<status, tasks, faults>> /\ locked.step = "free"
      BY <2>9 DEF BeginInactivity, AppendEvent, RecordEvent, LockFree
    <3> QED BY <1>0, <2>0, <3>1, CoveredFrame DEF Terminal, FollowedUp, BeingClosed
  <2>10. CASE FaultStep
    BY <2>10, FaultFrame DEF TypeOK, CascadeCoversChildren
  <2>11. ASSUME NEW task \in tasks, CascadeStep(task)
         PROVE  CascadeCoversChildren'
    <3>0. /\ task.thread \in ThreadIds /\ faults' = faults
          /\ \A stage \in Stages : [task EXCEPT !.stage = stage].stage = stage
                                   /\ [task EXCEPT !.stage = stage].thread = task.thread
      BY <1>a, <2>11 DEF Task, CascadeStep, NotifyPeer, ListChildren, HaltParticipants, CloseChild,
                         CancelChildEvents
    <3>1. CASE NotifyPeer(task)
      <4>1. UNCHANGED <<status, locked>> /\ task.stage = "notify"
            /\ tasks' = (tasks \ {task}) \cup {[task EXCEPT !.stage = "list"]}
        BY <3>1 DEF NotifyPeer, MoveTask, store, threadVars
      <4>a. FollowedUp(task.thread)'
        BY <3>0, <4>1 DEF FollowedUp, Stages
      <4>b. \A t \in ThreadIds \ {task.thread} : FollowedUp(t) => FollowedUp(t)'
        BY <4>1 DEF FollowedUp
      <4>2. \A t \in ThreadIds : FollowedUp(t) => FollowedUp(t)'
        BY <4>a, <4>b
      <4>3. \A t \in ThreadIds : BeingClosed(t) => BeingClosed(t)'
        BY <4>1 DEF BeingClosed
      <4> QED BY <1>0, <2>0, <3>0, <4>1, <4>2, <4>3, CoveredFrame DEF Terminal
    <3>2. CASE HaltParticipants(task)
      <4>1. UNCHANGED <<status, locked>> /\ task.stage = "halt"
            /\ tasks' = (tasks \ {task}) \cup {[task EXCEPT !.stage = "close"]}
        BY <3>2 DEF HaltParticipants, MoveTask, store, threadVars
      <4>2. \A t \in ThreadIds : FollowedUp(t) => FollowedUp(t)'
        BY <4>1 DEF FollowedUp
      <4>3. \A t \in ThreadIds : BeingClosed(t) => BeingClosed(t)'
        BY ZenonT(60), <3>0, <4>1 DEF BeingClosed, Stages
      <4> QED BY <1>0, <2>0, <3>0, <4>1, <4>2, <4>3, CoveredFrame DEF Terminal
    <3>3. CASE CloseChild(task)
      <4>1. /\ locked.step = "free" /\ task.stage = "close"
            /\ tasks' = (tasks \ {task}) \cup {[task EXCEPT !.stage = "cancel"]}
        BY <3>3 DEF CloseChild, MoveTask, LockFree
      <4>2. \A t \in ThreadIds \ {task.thread} : status'[t] = status[t]
        BY <1>0, <3>0, <3>3 DEF CloseChild, CloseThread, StoreTypeOK
      <4>3. status'[task.thread] \in TerminalStatuses
        BY <1>0, <3>0, <3>3, <4>1 DEF CloseChild, CloseThread, StoreTypeOK, TaskInv, Live,
                                      NonTerminalStatuses, TerminalStatuses
      <4>4. FollowedUp(task.thread)'
        BY <3>0, <4>1 DEF FollowedUp, Stages
      <4>5. \A t \in ThreadIds : FollowedUp(t) => FollowedUp(t)'
        BY <4>1 DEF FollowedUp
      <4>6. \A t \in ThreadIds \ {task.thread} : BeingClosed(t) => BeingClosed(t)'
        BY <4>1 DEF BeingClosed
      <4>7. \A t \in ThreadIds : BeingClosed(t) /\ Live(t)' => BeingClosed(t)'
        BY <4>3, <4>6 DEF Live, NonTerminalStatuses, TerminalStatuses
      <4>8. \A t \in ThreadIds : Terminal(t)' => Terminal(t) \/ FollowedUp(t)'
        BY <4>2, <4>4 DEF Terminal
      <4> QED BY <1>0, <2>0, <3>0, <4>5, <4>7, <4>8, CoveredFrame
    <3>4. CASE CancelChildEvents(task)
      <4>1. UNCHANGED status /\ task.stage = "cancel"
            /\ tasks' = (tasks \ {task}) \cup {[task EXCEPT !.stage = "list"]}
        BY <3>4 DEF CancelChildEvents, CancelPending, MoveTask, threadVars
      <4>2. locked.step = "cascade"
        BY <4>1 DEF TaskInv
      <4>a. FollowedUp(task.thread)'
        BY <3>0, <4>1 DEF FollowedUp, Stages
      <4>b. \A t \in ThreadIds \ {task.thread} : FollowedUp(t) => FollowedUp(t)'
        BY <4>1, <4>2 DEF FollowedUp
      <4>3. \A t \in ThreadIds : FollowedUp(t) => FollowedUp(t)'
        BY <4>a, <4>b
      <4>4. \A t \in ThreadIds : BeingClosed(t) => BeingClosed(t)'
        BY <4>1 DEF BeingClosed
      <4> QED BY <1>0, <2>0, <3>0, <4>1, <4>3, <4>4, CoveredFrame DEF Terminal
    <3>5. CASE ListChildren(task)
      <4>1. /\ UNCHANGED <<status, parent, locked>> /\ task.stage = "list"
            /\ tasks' = (tasks \ {task}) \cup
                   {[task EXCEPT !.thread = c, !.stage = "halt"] : c \in LiveChildren(task.thread)}
        BY <3>5 DEF ListChildren, store, threadVars
      <4>2. \A t \in ThreadIds : BeingClosed(t) => BeingClosed(t)'
        BY <4>1 DEF BeingClosed
      <4>3. \A t \in ThreadIds \ {task.thread} : FollowedUp(t) => FollowedUp(t)'
        BY <4>1 DEF FollowedUp
      <4>4. ASSUME NEW t \in LiveChildren(task.thread) PROVE BeingClosed(t)'
        <5> DEFINE child == [task EXCEPT !.thread = t, !.stage = "halt"]
        <5>1. child \in tasks'
          BY <4>1
        <5>2. child.thread = t /\ child.stage = "halt"
          BY <1>a DEF Task
        <5> QED BY <5>1, <5>2 DEF BeingClosed
      <4> SUFFICES ASSUME NEW t \in ThreadIds, faults = 0, Live(t), parent[t] # None,
                          Terminal(parent[t])
                   PROVE  FollowedUp(parent[t])' \/ BeingClosed(t)'
        BY <3>0, <4>1 DEF CascadeCoversChildren, Live, Terminal, FollowedUp
      <4>5. parent[t] \in ThreadIds
        BY <1>0 DEF StoreTypeOK
      <4>6. CASE parent[t] = task.thread
        BY <4>4, <4>6 DEF LiveChildren
      <4>7. CASE parent[t] # task.thread
        <5>1. FollowedUp(parent[t]) \/ BeingClosed(t)
          BY DEF CascadeCoversChildren
        <5>2. FollowedUp(parent[t]) => FollowedUp(parent[t])'
          <6> DEFINE up == parent[t]
          <6>1. up \in ThreadIds \ {task.thread}
            BY <4>5, <4>7
          <6>2. up' = up
            BY <4>1
          <6> HIDE DEF up
          <6> QED BY <4>3, <6>1, <6>2 DEF up
        <5> QED BY <4>2, <5>1, <5>2
      <4> QED BY <4>6, <4>7
    <3> QED BY <2>11, <3>1, <3>2, <3>3, <3>4, <3>5 DEF CascadeStep
  <2> QED BY <1>2, <2>1, <2>2, <2>3, <2>4, <2>5, <2>6, <2>7, <2>8, <2>9, <2>10, <2>11, StepCases
<1> QED BY <1>1, <1>2

\* While the service has met no fault, every live child of a terminal thread is
\* accounted for by the section or the cascade that follows its parent up.
THEOREM CascadeMissesNoChild == Spec => []CascadeCoversChildren
<1>1. Init => CascadeCoversChildren
  BY DEF Init, StoreInit, CascadeCoversChildren, Live, NonTerminalStatuses
<1>2. /\ TypeOK /\ LockInv /\ TaskInv /\ CascadeCoversChildren /\ [Next]_vars
      => CascadeCoversChildren'
  BY CoveredStep
<1> QED BY <1>1, <1>2, LockTaskInvariant, PTL DEF Spec
-----------------------------------------------------------------------------
(***************************************************************************)
(* Why a thread is closed and an agent told to stop: every cascade runs    *)
(* under a thread that is terminal.  A retry restarts a cascade without    *)
(* looking at the thread, so this rests on what the service has saved: if  *)
(* clients use a key for one request only, a saved terminal notification   *)
(* is one whose thread is terminal.                                        *)
(***************************************************************************)

\* What a task of a cascade works for is terminal: the parent of the thread it
\* is about to close, else its own thread.
Caused(task) ==
    IF task.stage \in {"halt", "close"}
    THEN parent[task.thread] # None /\ Terminal(parent[task.thread])
    ELSE Terminal(task.thread)

\* A terminal notification whose section goes on has ended its thread, and all
\* tasks have their cause.
CauseInv ==
    /\ locked.step \in {"cancel", "save"} /\ locked.request.kind \in TerminalStatuses
           => Terminal(locked.request.target)
    /\ \A task \in tasks : Caused(task)

\* The request of the section that holds the lock is the one its key stands for,
\* and a saved terminal notification has ended its thread.
SentInv ==
    /\ locked.key # None => sent[locked.key] = locked.request
    /\ \A k \in saved :
          /\ sent[k] # None
          /\ sent[k].kind \in TerminalStatuses => Terminal(sent[k].target)

\* The primary key a request is saved under is NULL only without a
\* client_request_id.
LEMMA KeyOfRequest ==
    ASSUME NEW r \in Request, NEW k \in Keys \cup {None}
    PROVE  /\ RequestKey(r, k) \in RequestKeys
           /\ k # None <=> RequestKey(r, k) # None
           /\ k # None => RequestKey(r, k) = <<r.from, k>> /\ <<r.from, k>> \in RequestIds
BY NoneAssumption DEF RequestKey, RequestKeys, RequestIds, Request, Message, Notification

\* The request a key stands for after the first step of one with that key.
LEMMA RememberedRequest ==
    ASSUME TypeOK, ~KeyReuse, NEW r \in Request, NEW k \in Keys \cup {None},
           FaithfulKey(r, k), ~Cached(r, k), Remember(r, k)
    PROVE  /\ RequestKey(r, k) # None => sent'[RequestKey(r, k)] = r
           /\ RequestKey(r, k) \notin saved
           /\ \A other \in saved : sent'[other] = sent[other]
<1>1. CASE k = None
  <2>1. RequestKey(r, k) = None /\ sent' = sent
    BY <1>1 DEF RequestKey, Remember
  <2>2. None \notin saved
    BY NoneAssumption DEF TypeOK, StoreTypeOK, RequestIds
  <2> QED BY <2>1, <2>2
<1>2. CASE k # None
  <2> DEFINE id == <<r.from, k>>
  <2>1. RequestKey(r, k) = id /\ id \in RequestIds
    BY <1>2, KeyOfRequest
  <2>2. id \notin saved /\ sent[id] \in {None, r}
    BY <1>2 DEF Cached, FaithfulKey
  <2>3. sent' = sent \/ (sent[id] = None /\ sent' = [sent EXCEPT ![id] = r])
    BY <1>2 DEF Remember
  <2>4. sent[id] # None => sent' = sent
    BY <1>2 DEF Remember
  <2>5. sent[id] = None => sent' = [sent EXCEPT ![id] = r]
    BY <1>2 DEF Remember
  <2>6. sent \in [RequestIds -> Request \cup {None}]
    BY DEF TypeOK
  <2> HIDE DEF id
  <2>7. sent'[id] = r
    BY <2>1, <2>2, <2>4, <2>5, <2>6
  <2>8. \A other \in saved : sent'[other] = sent[other]
    BY <2>2, <2>3, <2>6 DEF TypeOK, StoreTypeOK
  <2> QED BY <2>1, <2>2, <2>7, <2>8
<1> QED BY <1>1, <1>2

\* A request that ended its thread has ended it for good.
LEMMA EndedStays ==
    ASSUME KeepsThreads, NEW r \in Request, r.kind \in TerminalStatuses, Terminal(r.target)
    PROVE  Terminal(r.target)'
<1>1. r.target \in ThreadIds
  BY DEF Request, Message, Notification, TerminalStatuses
<1> QED BY <1>1, TerminalStays

\* A step that saves nothing and keeps the section keeps the keys in order.
LEMMA SentFrame ==
    ASSUME TypeOK, SentInv, KeepsThreads, UNCHANGED <<saved, sent>>,
           locked'.key = None \/ (locked'.key = locked.key /\ locked'.request = locked.request)
    PROVE  SentInv'
<1>1. \A k \in saved : sent[k] \in Request
  BY DEF SentInv, TypeOK, StoreTypeOK
<1> QED BY <1>1, EndedStays DEF SentInv

\* Every step keeps what the keys stand for.
LEMMA SentStep ==
    ASSUME TypeOK, ~KeyReuse, CauseInv, SentInv, [Next]_vars
    PROVE  SentInv'
<1>0. KeepsThreads
  BY StepKeepsThreads
<1>a. \A k \in saved : sent[k] \in Request
  BY DEF SentInv, TypeOK, StoreTypeOK
<1>1. ASSUME UNCHANGED <<saved, locked, sent>> PROVE SentInv'
  BY <1>0, <1>1, SentFrame
<1>2. ASSUME NEW r \in Request, NEW k \in Keys \cup {None},
             FaithfulKey(r, k), ~Cached(r, k), Remember(r, k), saved' = saved,
             locked'.request = r, locked'.key = RequestKey(r, k)
      PROVE  SentInv'
  <2>1. /\ RequestKey(r, k) # None => sent'[RequestKey(r, k)] = r
        /\ \A other \in saved : sent'[other] = sent[other]
    BY <1>2, RememberedRequest
  <2>2. ASSUME NEW other \in saved, sent[other].kind \in TerminalStatuses
        PROVE  Terminal(sent[other].target)'
    <3>1. PICK req \in Request : req = sent[other]
      BY <1>a
    <3>2. sent[other].target = req.target
      BY <3>1
    <3>3. Terminal(req.target)'
      BY <1>0, <2>2, <3>1, EndedStays DEF SentInv
    <3> QED BY <2>1, <3>1, <3>3 DEF Terminal
  <2> QED BY <1>2, <2>1, <2>2 DEF SentInv, Terminal
<1>3. ASSUME NEW r \in Message, NEW k \in Keys \cup {None}, NEW t \in ThreadIds,
             BeginMessage(r, k, t)
      PROVE  SentInv'
  <2>1. saved' = saved
    BY <1>3, MessageOpensOne DEF BeginMessage, InsertThread, store
  <2>2. r \in Request
    BY DEF Request
  <2> QED BY <1>3, <2>1, <2>2, <1>2 DEF BeginMessage
<1>4. ASSUME NEW r \in Notification, NEW k \in Keys \cup {None}, BeginNotification(r, k)
      PROVE  SentInv'
  <2>1. saved' = saved
    BY <1>4 DEF BeginNotification, AppendEvent, RecordEvent
  <2>2. r \in Request
    BY DEF Request
  <2> QED BY <1>4, <2>1, <2>2, <1>2 DEF BeginNotification
<1>b. ASSUME locked.step = "save", locked' = Free, sent' = sent,
             saved' = saved \cup ({locked.key} \ {None})
      PROVE  SentInv'
  <2>1. /\ locked.step = "save" /\ locked' = Free /\ sent' = sent
        /\ saved' = saved \cup ({locked.key} \ {None})
    BY <1>b
  <2>2. locked.request \in Request
    BY <2>1, SectionFields
  <2>3. ASSUME NEW k \in saved', sent[k].kind \in TerminalStatuses
        PROVE  Terminal(sent[k].target)'
    <3>1. PICK req \in Request : req = sent[k] /\ Terminal(req.target)
      BY <1>a, <2>1, <2>2, <2>3 DEF SentInv, CauseInv
    <3>2. Terminal(req.target)'
      BY <1>0, <2>3, <3>1, EndedStays
    <3> QED BY <2>1, <3>1, <3>2 DEF Terminal
  <2>4. \A k \in saved' : sent[k] # None
    BY <2>1, <2>2, NoRequestAssumption DEF SentInv
  <2> QED BY <2>1, <2>3, <2>4 DEF SentInv, Terminal, Free
<1>5. CASE SaveResponse
  BY <1>5, <1>b DEF SaveResponse, SaveResult
<1>6. CASE CalmStep
  <2>1. UNCHANGED <<saved, locked, sent>>
    BY <1>6 DEF CalmStep, vars, store, serviceVars, StartRound, StartSweep, PostEvent, FailEvent,
                RefuseInactivity, Clock, TimeoutElapses
  <2> QED BY <1>1, <2>1
<1>7. ASSUME NEW r \in Notification, NEW k \in Keys \cup {None}, RepeatNotification(r, k)
      PROVE  SentInv'
  BY <1>1, <1>7 DEF RepeatNotification, store
<1>8. CASE AppendMessage \/ CancelEvents
  <2>1. UNCHANGED <<saved, sent>> /\ locked' = [locked EXCEPT !.step = "save"]
    BY <1>8 DEF AppendMessage, CancelEvents, AppendEvent, RecordEvent, CancelPending
  <2>2. locked \in Section
    BY DEF TypeOK
  <2>3. locked'.key = locked.key /\ locked'.request = locked.request
    BY <2>1, <2>2 DEF Section
  <2> QED BY <1>0, <2>1, <2>3, SentFrame
<1>9. ASSUME NEW task \in tasks, CascadeStep(task)
      PROVE  SentInv'
  <2>1. UNCHANGED <<saved, sent>> /\ (locked' = locked \/ locked'.key = None)
    <3>1. CASE CloseChild(task)
      BY <3>1 DEF CloseChild, CloseThread, Free
    <3>2. CASE CancelChildEvents(task)
      BY <3>2 DEF CancelChildEvents, CancelPending, Free
    <3>3. CASE NotifyPeer(task) \/ ListChildren(task) \/ HaltParticipants(task)
      BY <3>3 DEF NotifyPeer, ListChildren, HaltParticipants, store
    <3> QED BY <1>9, <3>1, <3>2, <3>3 DEF CascadeStep
  <2> QED BY <1>0, <2>1, SentFrame
<1>10. ASSUME NEW item \in round, FinishEvent(item)
       PROVE  SentInv'
  BY <1>1, <1>10 DEF FinishEvent, MarkDelivered
<1>11. CASE \/ \E item \in sweep : BeginInactivity(item)
            \/ FinishInactivity
  <2>1. UNCHANGED <<saved, sent>> /\ locked'.key = None
    <3>1. ASSUME NEW item \in sweep, BeginInactivity(item)
          PROVE  UNCHANGED <<saved, sent>> /\ locked'.key = None
      BY <3>1 DEF BeginInactivity, AppendEvent, RecordEvent, Free
    <3>2. CASE FinishInactivity
      BY <3>2 DEF FinishInactivity, MarkInactivitySent, Free
    <3> QED BY <1>11, <3>1, <3>2
  <2> QED BY <1>0, <2>1, SentFrame
<1>12. CASE FaultStep
  <2>1. CASE saved' = saved
    <3>1. sent' = sent /\ (locked' = locked \/ locked'.key = None)
      BY <1>12, FaultFrame DEF Free
    <3> QED BY <1>0, <2>1, <3>1, SentFrame
  <2>2. CASE saved' # saved
    <3>1. /\ sent' = sent /\ locked.step = "save" /\ locked' = Free
          /\ saved' = saved \cup ({locked.key} \ {None})
      BY <1>12, <2>2, FaultFrame
    <3> QED BY <1>b, <3>1
  <2> QED BY <2>1, <2>2
<1> QED BY <1>3, <1>4, <1>5, <1>6, <1>7, <1>8, <1>9, <1>10, <1>11, <1>12, StepCases

\* A thread keeps its parent.
LEMMA ParentStays ==
    ASSUME TypeOK, [Next]_vars, NEW t \in ThreadIds, status[t] # "absent"
    PROVE  parent'[t] = parent[t]
<1>1. ASSUME NEW r \in Message, NEW k \in Keys \cup {None}, NEW u \in ThreadIds,
             BeginMessage(r, k, u)
      PROVE  parent'[t] = parent[t]
  BY <1>1, MessageOpensOne DEF InsertThread, store, threadVars, TypeOK, StoreTypeOK
<1> QED BY <1>1, StepOpensNothing DEF NoThreadOpens

\* Every step keeps the cause of a task.
LEMMA CauseStays ==
    ASSUME TypeOK, TaskInv, [Next]_vars, NEW task \in tasks, Caused(task)
    PROVE  Caused(task)'
<1>1. KeepsThreads /\ task.thread \in ThreadIds
  BY StepKeepsThreads DEF TypeOK, Task
<1>2. CASE task.stage \in {"halt", "close"}
  <2>1. status[task.thread] # "absent"
    BY <1>2 DEF TaskInv
  <2> DEFINE up == parent[task.thread]
  <2>2. up' = up
    BY <1>1, <2>1, ParentStays
  <2>3. up \in ThreadIds /\ up # None /\ Terminal(up)
    BY <1>1, <1>2 DEF Caused, TypeOK, StoreTypeOK
  <2> HIDE DEF up
  <2>4. up' # None /\ status'[up'] \in TerminalStatuses
    BY <1>1, <2>2, <2>3 DEF KeepsThreads, Terminal
  <2> QED BY <1>2, <2>4 DEF Caused, Terminal, up
<1>3. CASE task.stage \notin {"halt", "close"}
  BY <1>1, <1>3, TerminalStays DEF Caused
<1> QED BY <1>2, <1>3

\* A saved terminal notification that its client sends again has ended its
\* thread before.
LEMMA RepeatIsCaused ==
    ASSUME TypeOK, ~KeyReuse, SentInv, NEW r \in Notification, NEW k \in Keys \cup {None},
           RepeatNotification(r, k)
    PROVE  Terminal(r.target)
<1>1. k # None /\ <<r.from, k>> \in saved /\ r.kind \in TerminalStatuses
  BY DEF RepeatNotification, Cached
<1>2. sent[<<r.from, k>>] = r
  BY <1>1 DEF RepeatNotification, FaithfulKey, SentInv
<1> QED BY <1>1, <1>2 DEF SentInv

\* The tasks that follow a notification up work for its thread.
LEMMA FollowUpIsCaused ==
    ASSUME NEW r, NEW n, r.kind \in TerminalStatuses => Terminal(r.target)
    PROVE  \A task \in TerminalTasks(r, n) : Caused(task)
BY DEF TerminalTasks, Caused

\* Every step keeps: each cascade runs under a thread that is terminal.
LEMMA CauseStep ==
    ASSUME TypeOK, ~KeyReuse, LockInv, TaskInv, SentInv, CauseInv, [Next]_vars
    PROVE  CauseInv'
<1>0. KeepsThreads
  BY StepKeepsThreads
<1>a. \A task \in tasks : Caused(task)'
  BY CauseStays DEF CauseInv
<1>b. ASSUME locked.step \in {"cancel", "save"}, locked.request.kind \in TerminalStatuses
      PROVE  Terminal(locked.request.target) /\ status'[locked.request.target] \in TerminalStatuses
  <2>1. PICK req \in Request : req = locked.request
    BY <1>b, SectionFields DEF Request
  <2>2. Terminal(req.target)
    BY <1>b, <2>1 DEF CauseInv
  <2> QED BY <1>0, <1>b, <2>1, <2>2, EndedStays DEF Terminal
<1>1. ASSUME UNCHANGED locked, tasks' \subseteq tasks PROVE CauseInv'
  BY <1>1, <1>a, <1>b DEF CauseInv, Terminal
<1>2. ASSUME locked'.step \notin {"cancel", "save"}, tasks' \subseteq tasks PROVE CauseInv'
  BY <1>2, <1>a DEF CauseInv
<1>3. ASSUME NEW r \in Message, NEW k \in Keys \cup {None}, NEW t \in ThreadIds,
             BeginMessage(r, k, t)
      PROVE  CauseInv'
  BY <1>2, <1>3 DEF BeginMessage
<1>4. ASSUME NEW r \in Notification, NEW k \in Keys \cup {None}, BeginNotification(r, k)
      PROVE  CauseInv'
  <2>1. tasks' = tasks /\ locked'.request = r
    BY <1>4 DEF BeginNotification
  <2>2. r.target \in ThreadIds /\ r.kind \in NotificationStatuses
    BY DEF Notification
  <2>3. r.kind \in TerminalStatuses => status'[r.target] \in TerminalStatuses
    BY <1>4, <2>2 DEF BeginNotification, AppendEvent, RecordEvent, TypeOK, StoreTypeOK,
                      TerminalStatuses, NotificationStatuses
  <2> QED BY <2>1, <2>3, <1>a DEF CauseInv, Terminal
<1>5. ASSUME NEW r \in Notification, NEW k \in Keys \cup {None}, RepeatNotification(r, k)
      PROVE  CauseInv'
  <2>1. locked' = locked /\ status' = status /\ parent' = parent
        /\ tasks' = tasks \cup TerminalTasks(r, retries + 1)
    BY <1>5 DEF RepeatNotification, store, threadVars
  <2>2. \A task \in TerminalTasks(r, retries + 1) : Caused(task)
    BY <1>5, RepeatIsCaused, FollowUpIsCaused
  <2>3. \A task \in TerminalTasks(r, retries + 1) : Caused(task)'
    BY <2>1, <2>2 DEF Caused, Terminal
  <2> QED BY <2>1, <2>3, <1>a, <1>b DEF CauseInv, Terminal
<1>6. CASE AppendMessage
  <2>1. locked \in [step : {"append"}, thread : ThreadIds, request : Message, key : RequestKeys]
    BY <1>6 DEF AppendMessage, TypeOK, Section
  <2>2. locked' = [locked EXCEPT !.step = "save"] /\ tasks' = tasks
    BY <1>6 DEF AppendMessage
  <2>3. locked'.request.kind \notin TerminalStatuses
    BY <2>1, <2>2 DEF Message, TerminalStatuses
  <2> QED BY <2>2, <2>3, <1>a DEF CauseInv
<1>7. CASE CancelEvents
  <2>1. locked \in [step : {"cancel"}, thread : ThreadIds, request : Notification, key : RequestKeys]
    BY <1>7 DEF CancelEvents, TypeOK, Section
  <2>2. locked' = [locked EXCEPT !.step = "save"] /\ tasks' = tasks /\ locked.step = "cancel"
    BY <1>7 DEF CancelEvents
  <2>3. locked'.request = locked.request
    BY <2>1, <2>2
  <2> QED BY <2>2, <2>3, <1>a, <1>b DEF CauseInv, Terminal
<1>8. CASE SaveResponse
  <2>1. /\ locked.step = "save" /\ locked'.step = "free" /\ UNCHANGED <<status, parent>>
        /\ tasks' = tasks \cup TerminalTasks(locked.request, 0)
    BY <1>8 DEF SaveResponse, SaveResult, Free, threadVars
  <2>2. \A task \in TerminalTasks(locked.request, 0) : Caused(task)
    BY <2>1, <1>b, FollowUpIsCaused
  <2>3. \A task \in TerminalTasks(locked.request, 0) : Caused(task)'
    BY <2>1, <2>2 DEF Caused, Terminal
  <2> QED BY <2>1, <2>3, <1>a DEF CauseInv
<1>9. ASSUME NEW task \in tasks, CascadeStep(task)
      PROVE  CauseInv'
  <2>0. /\ task \in Task /\ task.thread \in ThreadIds
        /\ \A stage \in Stages : /\ [task EXCEPT !.stage = stage].stage = stage
                                 /\ [task EXCEPT !.stage = stage].thread = task.thread
    BY DEF TypeOK, Task
  <2>1. Caused(task) /\ Caused(task)'
    BY <1>a DEF CauseInv
  <2>2. CASE NotifyPeer(task)
    <3>1. /\ locked' = locked /\ tasks' = (tasks \ {task}) \cup {[task EXCEPT !.stage = "list"]}
          /\ task.stage = "notify"
      BY <2>2 DEF NotifyPeer, MoveTask
    <3>2. Caused([task EXCEPT !.stage = "list"])'
      BY <2>0, <2>1, <3>1 DEF Caused, Stages
    <3> QED BY <3>1, <3>2, <1>a, <1>b DEF CauseInv, Terminal
  <2>3. CASE ListChildren(task)
    <3>1. /\ locked' = locked /\ UNCHANGED <<status, parent>> /\ task.stage = "list"
          /\ tasks' = (tasks \ {task}) \cup
                 {[task EXCEPT !.thread = c, !.stage = "halt"] : c \in LiveChildren(task.thread)}
      BY <2>3 DEF ListChildren, store, threadVars
    <3>2. ASSUME NEW c \in LiveChildren(task.thread)
          PROVE  Caused([task EXCEPT !.thread = c, !.stage = "halt"])'
      <4>1. /\ [task EXCEPT !.thread = c, !.stage = "halt"].stage = "halt"
            /\ [task EXCEPT !.thread = c, !.stage = "halt"].thread = c
        BY <2>0 DEF Task
      <4>2. parent'[c] = task.thread /\ task.thread # None
        BY <2>0, <3>1, NoneAssumption DEF LiveChildren
      <4>3. status'[task.thread] \in TerminalStatuses
        BY <2>1, <3>1 DEF Caused, Terminal
      <4> QED BY <4>1, <4>2, <4>3 DEF Caused, Terminal
    <3> QED BY <3>1, <3>2, <1>a, <1>b DEF CauseInv, Terminal
  <2>4. CASE HaltParticipants(task)
    <3>1. /\ locked' = locked /\ tasks' = (tasks \ {task}) \cup {[task EXCEPT !.stage = "close"]}
          /\ task.stage = "halt"
      BY <2>4 DEF HaltParticipants, MoveTask
    <3>2. Caused([task EXCEPT !.stage = "close"])'
      BY <2>0, <2>1, <3>1 DEF Caused, Stages
    <3> QED BY <3>1, <3>2, <1>a, <1>b DEF CauseInv, Terminal
  <2>5. CASE CloseChild(task)
    <3>1. /\ locked'.step = "cascade" /\ task.stage = "close"
          /\ tasks' = (tasks \ {task}) \cup {[task EXCEPT !.stage = "cancel"]}
      BY <2>5 DEF CloseChild, MoveTask, Free
    <3>2. status'[task.thread] \in TerminalStatuses
      BY <2>0, <2>5, <3>1 DEF CloseChild, CloseThread, TypeOK, StoreTypeOK, TaskInv, Live,
                              NonTerminalStatuses, TerminalStatuses
    <3>3. Caused([task EXCEPT !.stage = "cancel"])'
      BY <2>0, <3>2 DEF Caused, Stages, Terminal
    <3> QED BY <3>1, <3>3, <1>a DEF CauseInv
  <2>6. CASE CancelChildEvents(task)
    <3>1. /\ locked'.step = "free" /\ task.stage = "cancel"
          /\ tasks' = (tasks \ {task}) \cup {[task EXCEPT !.stage = "list"]}
      BY <2>6 DEF CancelChildEvents, MoveTask, Free
    <3>2. Caused([task EXCEPT !.stage = "list"])'
      BY <2>0, <2>1, <3>1 DEF Caused, Stages
    <3> QED BY <3>1, <3>2, <1>a DEF CauseInv
  <2> QED BY <1>9, <2>2, <2>3, <2>4, <2>5, <2>6 DEF CascadeStep
<1>10. CASE CalmStep
  BY <1>1, <1>10, CalmFrame DEF calmVars
<1>11. ASSUME NEW item \in round, FinishEvent(item)
       PROVE  CauseInv'
  BY <1>1, <1>11 DEF FinishEvent
<1>12. ASSUME NEW item \in sweep, BeginInactivity(item)
       PROVE  CauseInv'
  <2>1. locked'.step = "mark" /\ tasks' = tasks
    BY <1>12 DEF BeginInactivity, Free
  <2> QED BY <1>2, <2>1
<1>13. CASE FinishInactivity
  BY <1>2, <1>13 DEF FinishInactivity, Free
<1>14. CASE FaultStep
  BY <1>1, <1>2, <1>14, FaultFrame DEF Free
<1> QED BY <1>3, <1>4, <1>5, <1>6, <1>7, <1>8, <1>9, <1>10, <1>11, <1>12, <1>13, <1>14,
           StepCases

\* As long as clients keep to one request for each key, each cascade runs under a
\* thread that is terminal, in every state.
LEMMA CauseInvariant ==
    ASSUME ~KeyReuse
    PROVE  Spec => [](TypeOK /\ LockInv /\ TaskInv /\ SentInv /\ CauseInv)
<1>1. Init => SentInv /\ CauseInv
  BY DEF Init, StoreInit, SentInv, CauseInv, Free
<1>2. /\ TypeOK /\ LockInv /\ TaskInv /\ SentInv /\ CauseInv /\ [Next]_vars
      => SentInv' /\ CauseInv'
  BY SentStep, CauseStep
<1> QED BY <1>1, <1>2, LockTaskInvariant, PTL DEF Spec

\* As long as clients keep to one request for each key, a step that ends a thread
\* without a notification in its log is a cascade's, and the parent of that thread
\* is terminal: no retry and no stale list of children closes a thread that is
\* still wanted.
THEOREM CascadesCloseOrphans ==
    ASSUME ~KeyReuse
    PROVE  Spec => ClosedOnlyUnderTerminalParent
<1>1. ASSUME TypeOK, CauseInv, [Next]_vars, NEW t \in ThreadIds, Live(t), Terminal(t)',
             log'[t] = log[t]
      PROVE  parent[t] # None /\ Terminal(parent[t])
  <2>1. ASSUME status' = status PROVE FALSE
    BY <1>1, <2>1 DEF Live, Terminal, NonTerminalStatuses, TerminalStatuses
  <2>2. ASSUME NEW u \in ThreadIds, NEW e, AppendEvent(u, e)
        PROVE  FALSE
    <3>1. log[t] \in Seq(Event) /\ Len(log[t]) \in Nat
      BY <1>1 DEF TypeOK, StoreTypeOK
    <3>2. CASE u = t
      <4>1. log'[t] = Append(log[t], e)
        BY <1>1, <2>2, <3>2 DEF AppendEvent, RecordEvent, TypeOK, StoreTypeOK
      <4> QED BY <1>1, <3>1, <4>1
    <3>3. CASE u # t
      <4>1. status'[t] = status[t]
        BY <1>1, <2>2, <3>3 DEF AppendEvent, RecordEvent, TypeOK, StoreTypeOK
      <4> QED BY <1>1, <4>1 DEF Live, Terminal, NonTerminalStatuses, TerminalStatuses
    <3> QED BY <3>2, <3>3
  <2>3. ASSUME NEW r \in Message, NEW k \in Keys \cup {None}, NEW u \in ThreadIds,
               BeginMessage(r, k, u)
        PROVE  FALSE
    <3>1. status'[t] = status[t]
      BY <1>1, <2>3, MessageOpensOne, ZenonT(60) DEF InsertThread, store, threadVars, Live,
                                         NonTerminalStatuses, TypeOK, StoreTypeOK
    <3> QED BY <1>1, <3>1 DEF Live, Terminal, NonTerminalStatuses, TerminalStatuses
  <2>4. ASSUME NEW r \in Notification, NEW k \in Keys \cup {None}, BeginNotification(r, k)
        PROVE  FALSE
    BY <2>2, <2>4 DEF BeginNotification, Notification
  <2>5. CASE AppendMessage
    BY <1>1, <2>2, <2>5, SectionFields DEF AppendMessage
  <2>6. ASSUME NEW item \in sweep, BeginInactivity(item)
        PROVE  FALSE
    BY <1>1, <2>2, <2>6 DEF BeginInactivity, TypeOK
  <2>7. ASSUME NEW task \in tasks, CascadeStep(task)
        PROVE  parent[t] # None /\ Terminal(parent[t])
    <3>1. CASE CloseChild(task) /\ task.thread = t
      BY <1>1, <3>1 DEF CloseChild, CauseInv, Caused
    <3>2. CASE ~(CloseChild(task) /\ task.thread = t)
      <4>1. status'[t] = status[t]
        BY <1>1, <2>7, <3>2 DEF CascadeStep, NotifyPeer, ListChildren, HaltParticipants, CloseChild,
                                CloseThread, CancelChildEvents, CancelPending, store, threadVars,
                                TypeOK, StoreTypeOK
      <4> QED BY <1>1, <4>1 DEF Live, Terminal, NonTerminalStatuses, TerminalStatuses
    <3> QED BY <3>1, <3>2
  <2>8. CASE \/ CalmStep \/ CancelEvents \/ SaveResponse \/ FinishInactivity \/ FaultStep
             \/ \E item \in round : FinishEvent(item)
             \/ \E r \in Notification, k \in Keys \cup {None} : RepeatNotification(r, k)
    <3>1. status' = status
      BY <2>8, CalmFrame, FaultFrame DEF calmVars, CancelEvents, CancelPending, SaveResponse,
         SaveResult, FinishInactivity, MarkInactivitySent, FinishEvent, MarkDelivered,
         RepeatNotification, store, threadVars
    <3> QED BY <2>1, <3>1
  <2> QED BY <1>1, <2>3, <2>4, <2>5, <2>6, <2>7, <2>8, StepCases
<1>2. TypeOK /\ CauseInv /\ [Next]_vars =>
          [\A t \in ThreadIds : Live(t) /\ Terminal(t)' /\ log'[t] = log[t]
              => parent[t] # None /\ Terminal(parent[t])]_vars
  BY <1>1
<1> QED BY <1>2, CauseInvariant, PTL DEF Spec, ClosedOnlyUnderTerminalParent

\* As long as clients keep to one request for each key and the service has met
\* no fault, a /stop is accepted only for a thread that is terminal or that a
\* cascade is about to close.
THEOREM StopsAreForEndingThreads ==
    ASSUME ~KeyReuse
    PROVE  Spec => []StopOnlyWhenClosing
<1>1. Init => StopOnlyWhenClosing
  BY DEF Init, StopOnlyWhenClosing
<1>2. ASSUME TypeOK, TaskInv, CauseInv, StopOnlyWhenClosing, [Next]_vars
      PROVE  StopOnlyWhenClosing'
  <2>0. KeepsThreads /\ stopped \subseteq ThreadIds
    BY <1>2, StepKeepsThreads DEF TypeOK
  <2>1. ASSUME stopped' = stopped, tasks \subseteq tasks', faults' = faults
        PROVE  StopOnlyWhenClosing'
    BY <1>2, <2>0, <2>1, TerminalStays DEF StopOnlyWhenClosing, BeingClosed
  <2>2. CASE FaultStep
    BY <1>2, <2>2, FaultFrame DEF StopOnlyWhenClosing, TypeOK
  <2>3. ASSUME NEW task \in tasks, CascadeStep(task)
        PROVE  StopOnlyWhenClosing'
    <3>0. /\ task \in Task /\ task.thread \in ThreadIds /\ Caused(task)
          /\ \A stage \in Stages : /\ [task EXCEPT !.stage = stage].stage = stage
                                   /\ [task EXCEPT !.stage = stage].thread = task.thread
      BY <1>2 DEF TypeOK, Task, CauseInv
    <3>1. faults' = faults
      BY <2>3 DEF CascadeStep, NotifyPeer, ListChildren, HaltParticipants, CloseChild,
                  CancelChildEvents
    <3>2. CASE NotifyPeer(task)
      <4>1. Terminal(task.thread) /\ stopped' \subseteq stopped \cup {task.thread}
        BY <3>0, <3>2 DEF NotifyPeer, Caused
      <4>2. task.stage = "notify" /\ tasks \ {task} \subseteq tasks'
        BY <3>2 DEF NotifyPeer, MoveTask
      <4> QED BY <1>2, <2>0, <3>0, <3>1, <4>1, <4>2, TerminalStays
              DEF StopOnlyWhenClosing, BeingClosed
    <3>3. CASE ListChildren(task) \/ CancelChildEvents(task)
      <4>1. /\ stopped' = stopped /\ task.stage \in {"list", "cancel"}
            /\ tasks \ {task} \subseteq tasks'
        BY <3>3 DEF ListChildren, CancelChildEvents, MoveTask
      <4> QED BY <1>2, <2>0, <3>1, <4>1, TerminalStays DEF StopOnlyWhenClosing, BeingClosed
    <3>4. CASE HaltParticipants(task)
      <4>1. /\ stopped' \subseteq stopped \cup {task.thread}
            /\ tasks' = (tasks \ {task}) \cup {[task EXCEPT !.stage = "close"]}
        BY <3>4 DEF HaltParticipants, MoveTask
      <4>2. BeingClosed(task.thread)'
        BY <3>0, <4>1 DEF BeingClosed, Stages
      <4>3. \A t \in ThreadIds : BeingClosed(t) => BeingClosed(t)'
        BY <4>1, <4>2 DEF BeingClosed
      <4> QED BY <1>2, <2>0, <3>1, <4>1, <4>2, <4>3, TerminalStays DEF StopOnlyWhenClosing
    <3>5. CASE CloseChild(task)
      <4>1. /\ stopped' = stopped /\ task.stage = "close" /\ tasks \ {task} \subseteq tasks'
        BY <3>5 DEF CloseChild, MoveTask
      <4>2. Terminal(task.thread)'
        BY <1>2, <3>0, <3>5, <4>1
           DEF CloseChild, CloseThread, TypeOK, StoreTypeOK, TaskInv, Live, Terminal,
               NonTerminalStatuses, TerminalStatuses
      <4>3. \A t \in ThreadIds : BeingClosed(t) => BeingClosed(t)' \/ t = task.thread
        BY <4>1 DEF BeingClosed
      <4> QED BY <1>2, <2>0, <3>1, <4>1, <4>2, <4>3, TerminalStays DEF StopOnlyWhenClosing
    <3> QED BY <2>3, <3>2, <3>3, <3>4, <3>5 DEF CascadeStep
  <2>4. CASE UNCHANGED <<stopped, tasks, faults>>
    BY <2>1, <2>4
  <2>5. ASSUME NEW r \in Notification, NEW k \in Keys \cup {None}, RepeatNotification(r, k)
        PROVE  StopOnlyWhenClosing'
    BY <2>1, <2>5 DEF RepeatNotification
  <2>6. CASE SaveResponse
    BY <2>1, <2>6 DEF SaveResponse
  <2>7. CASE CalmStep
    <3>1. stopped' = stopped
      BY <2>7 DEF CalmStep, vars, serviceVars, StartRound, StartSweep, PostEvent, FailEvent,
                  RefuseInactivity, Clock
    <3> QED BY <2>1, <2>7, <3>1, CalmFrame DEF calmVars
  <2>8. ASSUME NEW r \in Message, NEW k \in Keys \cup {None}, NEW t \in ThreadIds,
               BeginMessage(r, k, t)
        PROVE  StopOnlyWhenClosing'
    BY <2>4, <2>8 DEF BeginMessage
  <2>9. ASSUME NEW r \in Notification, NEW k \in Keys \cup {None}, BeginNotification(r, k)
        PROVE  StopOnlyWhenClosing'
    BY <2>4, <2>9 DEF BeginNotification
  <2>10. CASE \/ AppendMessage \/ CancelEvents \/ FinishInactivity
              \/ \E item \in round : FinishEvent(item)
              \/ \E item \in sweep : BeginInactivity(item)
    BY <2>4, <2>10 DEF AppendMessage, CancelEvents, FinishInactivity, FinishEvent, BeginInactivity
  <2> QED BY <1>2, <2>2, <2>3, <2>5, <2>6, <2>7, <2>8, <2>9, <2>10, StepCases
<1> QED BY <1>1, <1>2, CauseInvariant, PTL DEF Spec


-----------------------------------------------------------------------------
(***************************************************************************)
(* No event is lost.                                                       *)
(***************************************************************************)

\* Every step keeps: an event whose answer has come back has been received.
LEMMA AnswerStep ==
    ASSUME TypeOK, AnswerInv, [Next]_vars
    PROVE  AnswerInv'
<1>1. CASE StartRound
  <2>1. received' = received
    BY <1>1 DEF StartRound
  <2>2. ASSUME NEW item \in round' PROVE item.answer # "accepted"
    <3>1. PICK due : round' = {[event |-> e, answer |-> "awaited"] : e \in due}
      BY <1>1 DEF StartRound
    <3> QED BY <3>1
  <2> QED BY <2>1, <2>2 DEF AnswerInv
<1>2. ASSUME NEW item \in round, PostEvent(item)
      PROVE  AnswerInv'
  <2>1. item \in [event : EventIds, answer : Answers]
    BY DEF TypeOK
  <2>2. received' = received \cup {item.event}
    BY <1>2 DEF PostEvent
  <2>3. PICK answer \in {"accepted", "failed"} :
            round' = (round \ {item}) \cup {[item EXCEPT !.answer = answer]}
    BY <1>2 DEF PostEvent, Answered
  <2>4. [item EXCEPT !.answer = answer].event = item.event
    BY <2>1
  <2> QED BY <2>2, <2>3, <2>4 DEF AnswerInv
<1>3. ASSUME NEW item \in round, FailEvent(item) \/ FinishEvent(item)
      PROVE  AnswerInv'
  BY <1>3 DEF FailEvent, FinishEvent, AnswerInv
<1>4. CASE FaultStep
  BY <1>4, FaultFrame DEF AnswerInv
<1>5. CASE UNCHANGED <<round, received>>
  BY <1>5 DEF AnswerInv
<1> QED BY <1>1, <1>2, <1>3, <1>4, <1>5
        DEF Next, vars, serviceVars, ClientStep, FlowStep, DeliveryStep, BeginMessage,
            BeginNotification, RepeatNotification, AppendMessage, CancelEvents, SaveResponse,
            CascadeStep, NotifyPeer, ListChildren, HaltParticipants, CloseChild, CancelChildEvents,
            StartSweep, BeginInactivity, RefuseInactivity, FinishInactivity, Clock

\* A step that keeps the log, withdraws events of terminal threads only and
\* forgets no received one loses nothing.
LEMMA KeptFrame ==
    ASSUME NoEventLost, KeepsThreads, UNCHANGED log, received \subseteq received',
           \A e \in pending \ pending' : e[1] \in ThreadIds => Terminal(e[1])' \/ e \in received'
    PROVE  NoEventLost'
<1> SUFFICES ASSUME NEW t \in ThreadIds, ~Terminal(t)', NEW n \in DOMAIN log[t],
                    log[t][n].kind \in DeliveredKinds
             PROVE  <<t, n>> \in pending' \/ <<t, n>> \in received'
  BY DEF NoEventLost, Terminal
<1>1. ~Terminal(t)
  BY DEF KeepsThreads, Terminal
<1>2. <<t, n>> \in pending \/ <<t, n>> \in received
  BY <1>1 DEF NoEventLost
<1> QED BY <1>2

\* Appending an event loses nothing: one to be delivered is pending.
LEMMA KeptAppend ==
    ASSUME StoreTypeOK, NoEventLost, NEW t \in ThreadIds, NEW e \in Event, AppendEvent(t, e),
           received' = received
    PROVE  NoEventLost'
<1>1. /\ Live(t) /\ log' = [log EXCEPT ![t] = Append(log[t], e)]
      /\ pending \subseteq pending'
      /\ e.kind \in DeliveredKinds => <<t, Len(log[t]) + 1>> \in pending'
  BY DEF AppendEvent, RecordEvent
<1>2. KeepsThreads /\ ~Terminal(t)
  BY <1>1, AppendKeeps DEF Live, Terminal, NonTerminalStatuses, TerminalStatuses
<1> SUFFICES ASSUME NEW u \in ThreadIds, ~Terminal(u)', NEW n \in DOMAIN log'[u],
                    log'[u][n].kind \in DeliveredKinds
             PROVE  <<u, n>> \in pending' \/ <<u, n>> \in received'
  BY DEF NoEventLost, Terminal
<1>3. ~Terminal(u)
  BY <1>2 DEF KeepsThreads, Terminal
<1>4. log[u] \in Seq(Event)
  BY DEF StoreTypeOK
<1>5. CASE u # t
  BY <1>1, <1>3, <1>5 DEF NoEventLost, StoreTypeOK
<1>6. CASE u = t
  <2>1. log'[u] = Append(log[u], e)
    BY <1>1, <1>6 DEF StoreTypeOK
  <2>2. CASE n = Len(log[u]) + 1
    BY <1>1, <1>4, <1>6, <2>1, <2>2
  <2>3. CASE n # Len(log[u]) + 1
    <3>1. n \in DOMAIN log[u] /\ log'[u][n] = log[u][n]
      BY <1>4, <2>1, <2>3
    <3> QED BY <1>1, <1>3, <3>1 DEF NoEventLost
  <2> QED BY <2>2, <2>3
<1> QED BY <1>5, <1>6

\* Every step keeps the events that must be kept.
LEMMA KeptStep ==
    ASSUME TypeOK, LockInv, TaskInv, AnswerInv, NoEventLost, [Next]_vars
    PROVE  NoEventLost'
<1>0. KeepsThreads /\ StoreTypeOK
  BY StepKeepsThreads DEF TypeOK
<1>1. CASE CalmStep
  <2>1. UNCHANGED <<log, pending>> /\ received \subseteq received'
    BY <1>1, CalmFrame
       DEF CalmStep, calmVars, vars, serviceVars, StartRound, StartSweep, PostEvent, FailEvent,
           RefuseInactivity, Clock
  <2> QED BY <1>0, <2>1, KeptFrame
<1>2. ASSUME NEW r \in Message, NEW k \in Keys \cup {None}, NEW t \in ThreadIds,
             BeginMessage(r, k, t)
      PROVE  NoEventLost'
  <2>1. UNCHANGED <<log, pending, received>>
    BY <1>2, MessageOpensOne DEF BeginMessage, InsertThread, store, threadVars, deliveryVars
  <2> QED BY <1>0, <2>1, KeptFrame
<1>3. ASSUME NEW r \in Notification, NEW k \in Keys \cup {None}, BeginNotification(r, k)
      PROVE  NoEventLost'
  <2> DEFINE e == [kind |-> r.kind, from |-> r.from, to |-> r.to, key |-> RequestKey(r, k)]
  <2>1. e \in Event /\ r.target \in ThreadIds
    BY DEF Event, EventKinds, Notification, RequestKey, RequestIds
  <2>2. AppendEvent(r.target, e) /\ received' = received
    BY <1>3 DEF BeginNotification
  <2> QED BY <1>0, <2>1, <2>2, KeptAppend
<1>4. CASE AppendMessage
  <2> DEFINE e == [kind |-> "message", from |-> locked.request.from, to |-> locked.request.to,
                   key |-> locked.key]
  <2>1. locked \in [step : {"append"}, thread : ThreadIds, request : Message, key : RequestKeys]
    BY <1>4 DEF AppendMessage, TypeOK, Section
  <2>2. e \in Event
    BY <2>1 DEF Event, EventKinds, RequestKeys, Message
  <2>3. AppendEvent(locked.thread, e) /\ received' = received
    BY <1>4 DEF AppendMessage
  <2> QED BY <1>0, <2>1, <2>2, <2>3, KeptAppend
<1>5. ASSUME NEW item \in sweep, BeginInactivity(item)
      PROVE  NoEventLost'
  <2> DEFINE e == [kind |-> "inactive", from |-> None, to |-> item.to, key |-> None]
  <2>1. e \in Event /\ item.thread \in ThreadIds
    BY DEF Event, EventKinds, TypeOK
  <2>2. AppendEvent(item.thread, e) /\ received' = received
    BY <1>5 DEF BeginInactivity
  <2> QED BY <1>0, <2>1, <2>2, KeptAppend
<1>6. CASE CancelEvents
  <2>1. /\ UNCHANGED <<log, status, received>> /\ locked.step = "cancel"
        /\ pending' = {e \in pending : e[1] # locked.thread}
    BY <1>6 DEF CancelEvents, CancelPending, threadVars
  <2> QED BY <1>0, <2>1, KeptFrame DEF LockInv, Terminal
<1>7. ASSUME NEW task \in tasks, CascadeStep(task)
      PROVE  NoEventLost'
  <2>1. CASE CancelChildEvents(task)
    <3>1. /\ UNCHANGED <<log, status, received>> /\ task.stage = "cancel"
          /\ pending' = {e \in pending : e[1] # task.thread}
      BY <2>1 DEF CancelChildEvents, CancelPending, threadVars
    <3> QED BY <1>0, <3>1, KeptFrame DEF TaskInv, Terminal
  <2>2. CASE ~CancelChildEvents(task)
    <3>1. UNCHANGED <<log, pending, received>>
      BY <1>7, <2>2 DEF CascadeStep, NotifyPeer, ListChildren, HaltParticipants, CloseChild,
                        CloseThread, store, threadVars, deliveryVars
    <3> QED BY <1>0, <3>1, KeptFrame
  <2> QED BY <2>1, <2>2
<1>8. ASSUME NEW item \in round, FinishEvent(item)
      PROVE  NoEventLost'
  <2>1. /\ UNCHANGED <<log, received>> /\ item.event \in received
        /\ pending' = pending \ {item.event}
    BY <1>8 DEF FinishEvent, MarkDelivered, threadVars, AnswerInv
  <2> QED BY <1>0, <2>1, KeptFrame
<1>9. ASSUME NEW r \in Notification, NEW k \in Keys \cup {None}, RepeatNotification(r, k)
      PROVE  NoEventLost'
  <2>1. UNCHANGED <<log, pending, received>>
    BY <1>9 DEF RepeatNotification, store, threadVars, deliveryVars
  <2> QED BY <1>0, <2>1, KeptFrame
<1>10. CASE SaveResponse \/ FinishInactivity \/ FaultStep
  <2>1. UNCHANGED <<log, pending, received>>
    BY <1>10, FaultFrame DEF SaveResponse, SaveResult, FinishInactivity, MarkInactivitySent,
                             threadVars, deliveryVars
  <2> QED BY <1>0, <2>1, KeptFrame
<1> QED BY <1>1, <1>2, <1>3, <1>4, <1>5, <1>6, <1>7, <1>8, <1>9, <1>10, StepCases

\* Until its thread is terminal, an event for an agent stays pending or has been
\* accepted: failed POSTs, lost answers, crashes and the cancellation of other
\* threads' events lose none.
THEOREM EventsAreKept == Spec => []NoEventLost
<1>1. Init => AnswerInv /\ NoEventLost
  BY DEF Init, StoreInit, AnswerInv, NoEventLost
<1>2. /\ TypeOK /\ LockInv /\ TaskInv /\ AnswerInv /\ NoEventLost /\ [Next]_vars
      => AnswerInv' /\ NoEventLost'
  BY AnswerStep, KeptStep
<1> QED BY <1>1, <1>2, LockTaskInvariant, PTL DEF Spec
-----------------------------------------------------------------------------
(***************************************************************************)
(* Nothing of a terminal thread stays pending.                             *)
(***************************************************************************)

\* The events of t are about to be withdrawn by whoever holds the lock.
BeingWithdrawn(t) ==
    \/ locked.step = "cancel" /\ locked.thread = t
    \/ \E task \in tasks : task.stage = "cancel" /\ task.thread = t

\* A step that makes no thread terminal, adds events to live threads only and
\* takes no withdrawal back keeps the terminal threads without pending events.
LEMMA WithdrawnFrame ==
    ASSUME TypeOK, TerminalHasNoPending, faults' = 0 => faults = 0,
           \A e \in pending' \ pending : ~Terminal(e[1])',
           \A t \in ThreadIds : Terminal(t)' => Terminal(t) \/ BeingWithdrawn(t)',
           \A t \in ThreadIds : BeingWithdrawn(t) =>
               BeingWithdrawn(t)' \/ \A e \in pending' : e[1] # t
    PROVE  TerminalHasNoPending'
<1> SUFFICES ASSUME NEW e \in pending', faults' = 0, Terminal(e[1])'
             PROVE  BeingWithdrawn(e[1])'
  BY DEF TerminalHasNoPending, BeingWithdrawn
<1>1. e \in pending /\ e[1] \in ThreadIds
  BY DEF TypeOK, StoreTypeOK, EventIds
<1>2. CASE Terminal(e[1])
  BY <1>1, <1>2 DEF TerminalHasNoPending, BeingWithdrawn
<1>3. CASE ~Terminal(e[1])
  BY <1>1, <1>3
<1> QED BY <1>2, <1>3

\* The new events of an append are those of a live thread.
LEMMA AppendPending ==
    ASSUME StoreTypeOK, NEW t \in ThreadIds, NEW e \in Event, AppendEvent(t, e)
    PROVE  /\ \A x \in pending' \ pending : x[1] = t /\ e.kind \in DeliveredKinds
           /\ \A u \in ThreadIds \ {t} : Terminal(u)' => Terminal(u)
           /\ e.kind \notin TerminalStatuses => ~Terminal(t)'
BY DEF StoreTypeOK, AppendEvent, RecordEvent, Terminal, Live, NonTerminalStatuses,
       TerminalStatuses, Event, EventKinds, NotificationStatuses

\* Every step keeps the terminal threads without pending events.
LEMMA WithdrawnStep ==
    ASSUME TypeOK, LockInv, TaskInv, TerminalHasNoPending, [Next]_vars
    PROVE  TerminalHasNoPending'
<1>0. StoreTypeOK
  BY DEF TypeOK
<1>1. CASE CalmStep
  <2>1. UNCHANGED <<status, pending, locked, tasks, faults>>
    BY <1>1, CalmFrame DEF calmVars
  <2> QED BY <2>1, WithdrawnFrame DEF Terminal, BeingWithdrawn
<1>2. ASSUME NEW r \in Message, NEW k \in Keys \cup {None}, NEW t \in ThreadIds,
             BeginMessage(r, k, t)
      PROVE  TerminalHasNoPending'
  <2>1. UNCHANGED <<pending, tasks, faults>> /\ locked.step = "free"
    BY <1>2, MessageOpensOne
       DEF BeginMessage, InsertThread, LockFree, store, threadVars, deliveryVars
  <2>2. status' = status \/ status' = [status EXCEPT ![t] = "open"]
    <3>1. CASE UNCHANGED store
      BY <3>1 DEF store, threadVars
    <3>2. ASSUME NEW p, InsertThread(t, p, r.from, r.to)
          PROVE  status' = [status EXCEPT ![t] = "open"]
      BY <3>2 DEF InsertThread
    <3> QED BY <1>2, <3>1, <3>2, MessageOpensOne
  <2>3. \A u \in ThreadIds : Terminal(u)' => Terminal(u)
    BY <1>0, <2>2 DEF Terminal, TerminalStatuses, StoreTypeOK
  <2> QED BY <2>1, <2>3, WithdrawnFrame DEF BeingWithdrawn
<1>3. ASSUME NEW r \in Notification, NEW k \in Keys \cup {None}, BeginNotification(r, k)
      PROVE  TerminalHasNoPending'
  <2> DEFINE e == [kind |-> r.kind, from |-> r.from, to |-> r.to, key |-> RequestKey(r, k)]
  <2>1. e \in Event /\ e.kind = r.kind /\ r.target \in ThreadIds
    BY DEF Event, EventKinds, Notification, RequestKey, RequestIds
  <2>2. /\ AppendEvent(r.target, e) /\ UNCHANGED <<tasks, faults>> /\ locked.step = "free"
        /\ r.kind \in TerminalStatuses => locked'.step = "cancel" /\ locked'.thread = r.target
    BY <1>3 DEF BeginNotification, LockFree
  <2> HIDE DEF e
  <2>3. r.kind \in TerminalStatuses => BeingWithdrawn(r.target)' /\ r.kind \notin DeliveredKinds
    BY <2>2 DEF BeingWithdrawn, TerminalStatuses, DeliveredKinds
  <2>4. \A x \in pending' \ pending : ~Terminal(x[1])'
    BY <1>0, <2>1, <2>2, <2>3, AppendPending DEF Terminal
  <2>5. \A u \in ThreadIds : Terminal(u)' => Terminal(u) \/ BeingWithdrawn(u)'
    BY <1>0, <2>1, <2>2, <2>3, AppendPending
  <2>6. \A u \in ThreadIds : BeingWithdrawn(u) => BeingWithdrawn(u)'
    BY <2>2 DEF BeingWithdrawn
  <2> QED BY <2>2, <2>4, <2>5, <2>6, WithdrawnFrame
<1>4. CASE AppendMessage
  <2> DEFINE e == [kind |-> "message", from |-> locked.request.from, to |-> locked.request.to,
                   key |-> locked.key]
  <2>1. locked \in [step : {"append"}, thread : ThreadIds, request : Message, key : RequestKeys]
    BY <1>4 DEF AppendMessage, TypeOK, Section
  <2>2. e \in Event /\ e.kind \notin TerminalStatuses /\ locked.thread \in ThreadIds
    BY <2>1 DEF Event, EventKinds, RequestKeys, Message, TerminalStatuses
  <2>3. AppendEvent(locked.thread, e) /\ UNCHANGED <<tasks, faults>> /\ locked.step = "append"
    BY <1>4 DEF AppendMessage
  <2> HIDE DEF e
  <2>4. \A x \in pending' \ pending : ~Terminal(x[1])'
    BY <1>0, <2>2, <2>3, AppendPending DEF Terminal
  <2>5. \A u \in ThreadIds : Terminal(u)' => Terminal(u)
    BY <1>0, <2>2, <2>3, AppendPending DEF Terminal
  <2>6. \A u \in ThreadIds : BeingWithdrawn(u) => BeingWithdrawn(u)'
    BY <2>3 DEF BeingWithdrawn
  <2> QED BY <2>3, <2>4, <2>5, <2>6, WithdrawnFrame
<1>5. ASSUME NEW item \in sweep, BeginInactivity(item)
      PROVE  TerminalHasNoPending'
  <2> DEFINE e == [kind |-> "inactive", from |-> None, to |-> item.to, key |-> None]
  <2>1. e \in Event /\ e.kind \notin TerminalStatuses /\ item.thread \in ThreadIds
    BY DEF Event, EventKinds, TypeOK, TerminalStatuses
  <2>2. AppendEvent(item.thread, e) /\ UNCHANGED <<tasks, faults>> /\ locked.step = "free"
    BY <1>5 DEF BeginInactivity, LockFree
  <2> HIDE DEF e
  <2>3. \A x \in pending' \ pending : ~Terminal(x[1])'
    BY <1>0, <2>1, <2>2, AppendPending DEF Terminal
  <2>4. \A u \in ThreadIds : Terminal(u)' => Terminal(u)
    BY <1>0, <2>1, <2>2, AppendPending DEF Terminal
  <2>5. \A u \in ThreadIds : BeingWithdrawn(u) => BeingWithdrawn(u)'
    BY <2>2 DEF BeingWithdrawn
  <2> QED BY <2>2, <2>3, <2>4, <2>5, WithdrawnFrame
<1>6. CASE CancelEvents
  <2>1. /\ UNCHANGED <<status, tasks, faults>>
        /\ pending' = {e \in pending : e[1] # locked.thread}
    BY <1>6 DEF CancelEvents, CancelPending, threadVars
  <2> QED BY <2>1, WithdrawnFrame DEF BeingWithdrawn, Terminal
<1>7. ASSUME NEW task \in tasks, CascadeStep(task)
      PROVE  TerminalHasNoPending'
  <2>0. /\ task.thread \in ThreadIds
        /\ [task EXCEPT !.stage = "cancel"].stage = "cancel"
        /\ [task EXCEPT !.stage = "cancel"].thread = task.thread
    BY DEF TypeOK, Task
  <2>1. CASE CancelChildEvents(task)
    <3>1. /\ UNCHANGED <<status, faults>> /\ locked.step = "cascade" /\ task.stage = "cancel"
          /\ tasks \ {task} \subseteq tasks'
          /\ pending' = {e \in pending : e[1] # task.thread}
      BY <2>1 DEF CancelChildEvents, CancelPending, MoveTask, threadVars, TaskInv
    <3> QED BY <3>1, WithdrawnFrame DEF BeingWithdrawn, Terminal
  <2>2. CASE CloseChild(task)
    <3>1. /\ UNCHANGED <<pending, faults>> /\ locked.step = "free" /\ task.stage = "close"
          /\ tasks' = (tasks \ {task}) \cup {[task EXCEPT !.stage = "cancel"]}
      BY <2>2 DEF CloseChild, CloseThread, MoveTask, LockFree, deliveryVars
    <3>2. \A u \in ThreadIds \ {task.thread} : Terminal(u)' => Terminal(u)
      BY <1>0, <2>0, <2>2 DEF CloseChild, CloseThread, StoreTypeOK, Terminal
    <3>3. BeingWithdrawn(task.thread)'
      BY <2>0, <3>1 DEF BeingWithdrawn
    <3>4. \A u \in ThreadIds : BeingWithdrawn(u) => BeingWithdrawn(u)'
      BY <3>1 DEF BeingWithdrawn
    <3> QED BY <3>1, <3>2, <3>3, <3>4, WithdrawnFrame
  <2>3. CASE NotifyPeer(task) \/ ListChildren(task) \/ HaltParticipants(task)
    <3>1. /\ UNCHANGED <<status, pending, locked, faults>> /\ task.stage # "cancel"
          /\ tasks \ {task} \subseteq tasks'
      BY <2>3 DEF NotifyPeer, ListChildren, HaltParticipants, MoveTask, store, threadVars,
                  deliveryVars
    <3> QED BY <3>1, WithdrawnFrame DEF BeingWithdrawn, Terminal
  <2> QED BY <1>7, <2>1, <2>2, <2>3 DEF CascadeStep
<1>8. ASSUME NEW item \in round, FinishEvent(item)
      PROVE  TerminalHasNoPending'
  <2>1. UNCHANGED <<status, locked, tasks, faults>> /\ pending' \subseteq pending
    BY <1>8 DEF FinishEvent, MarkDelivered, threadVars
  <2> QED BY <2>1, WithdrawnFrame DEF BeingWithdrawn, Terminal
<1>9. ASSUME NEW r \in Notification, NEW k \in Keys \cup {None}, RepeatNotification(r, k)
      PROVE  TerminalHasNoPending'
  <2>1. UNCHANGED <<status, pending, locked, faults>> /\ tasks \subseteq tasks'
    BY <1>9 DEF RepeatNotification, store, threadVars, deliveryVars
  <2> QED BY <2>1, WithdrawnFrame DEF BeingWithdrawn, Terminal
<1>10. CASE SaveResponse \/ FinishInactivity
  <2>1. /\ UNCHANGED <<status, pending, faults>> /\ tasks \subseteq tasks'
        /\ locked.step # "cancel"
    BY <1>10 DEF SaveResponse, SaveResult, FinishInactivity, MarkInactivitySent, threadVars,
                 deliveryVars
  <2> QED BY <2>1, WithdrawnFrame DEF BeingWithdrawn, Terminal
<1>11. CASE FaultStep
  BY <1>11, FaultFrame DEF TypeOK, TerminalHasNoPending
<1> QED BY <1>1, <1>2, <1>3, <1>4, <1>5, <1>6, <1>7, <1>8, <1>9, <1>10, <1>11, StepCases

\* While the service has met no fault, a terminal thread has no pending event once
\* the section that made it terminal is over.
THEOREM TerminalThreadsAreSilent == Spec => []TerminalHasNoPending
<1>1. Init => TerminalHasNoPending
  BY DEF Init, StoreInit, TerminalHasNoPending
<1>2. /\ TypeOK /\ LockInv /\ TaskInv /\ TerminalHasNoPending /\ [Next]_vars
      => TerminalHasNoPending'
  BY WithdrawnStep
<1> QED BY <1>1, <1>2, LockTaskInvariant, PTL DEF Spec
-----------------------------------------------------------------------------
(***************************************************************************)
(* The promise of at-least-once delivery.                                  *)
(***************************************************************************)

\* The rows and the round only name events for an agent, an event is pending or
\* delivered, and a message that has begun has room in its thread.
RowsInv ==
    /\ pending \subseteq Deliverable /\ delivered \subseteq Deliverable
    /\ pending \cap delivered = {}
    /\ \A item \in round : item.event \in Deliverable
    /\ locked.step = "append" => Len(log[locked.thread]) < MaxSeq

\* What it takes to be an event for an agent, before and after a step.
LEMMA IsDeliverable ==
    ASSUME NEW t \in ThreadIds, NEW n \in 1..MaxSeq
    PROVE  /\ <<t, n>> \in Deliverable
              <=> n \in DOMAIN log[t] /\ log[t][n].kind \in DeliveredKinds
           /\ <<t, n>> \in Deliverable'
              <=> n \in DOMAIN log'[t] /\ log'[t][n].kind \in DeliveredKinds
BY DEF Deliverable, IsEvent

\* An append adds the one event that gets the next sequence_no.
LEMMA AppendDeliverable ==
    ASSUME StoreTypeOK, NEW t \in ThreadIds, NEW e \in Event, AppendEvent(t, e),
           Len(log[t]) < MaxSeq
    PROVE  LET new == <<t, Len(log[t]) + 1>> IN
           /\ new \in ThreadIds \X (1..MaxSeq) /\ new \notin Deliverable
           /\ Deliverable' = IF e.kind \in DeliveredKinds
                             THEN Deliverable \cup {new} ELSE Deliverable
<1> DEFINE n == Len(log[t]) + 1
<1>0. MaxSeq \in Nat
  BY ServiceAssumption
<1>1. log[t] \in Seq(Event) /\ Len(log[t]) \in Nat /\ DOMAIN log[t] = 1..Len(log[t])
  BY DEF StoreTypeOK
<1>2. n \in 1..MaxSeq /\ n \notin DOMAIN log[t]
  BY <1>0, <1>1
<1>3. log'[t] = Append(log[t], e) /\ \A u \in ThreadIds \ {t} : log'[u] = log[u]
  BY DEF AppendEvent, RecordEvent, StoreTypeOK
<1>4. /\ DOMAIN log'[t] = DOMAIN log[t] \cup {n} /\ log'[t][n] = e
      /\ \A m \in DOMAIN log[t] : log'[t][m] = log[t][m]
  BY <1>1, <1>3
<1> HIDE DEF n
<1>5. <<t, n>> \notin Deliverable /\ (<<t, n>> \in Deliverable' <=> e.kind \in DeliveredKinds)
  BY <1>2, <1>4, IsDeliverable
<1>6. ASSUME NEW u \in ThreadIds, NEW m \in 1..MaxSeq, <<u, m>> # <<t, n>>
      PROVE  <<u, m>> \in Deliverable' <=> <<u, m>> \in Deliverable
  <2>1. CASE u # t
    BY <1>3, <2>1, IsDeliverable
  <2>2. CASE u = t
    BY <1>4, <1>6, <2>2, IsDeliverable
  <2> QED BY <2>1, <2>2
<1>7. Deliverable' \subseteq ThreadIds \X (1..MaxSeq)
      /\ Deliverable \subseteq ThreadIds \X (1..MaxSeq)
  BY DEF Deliverable
<1>8. Deliverable' = IF e.kind \in DeliveredKinds THEN Deliverable \cup {<<t, n>>} ELSE Deliverable
  <2>1. ASSUME NEW x \in ThreadIds \X (1..MaxSeq), x # <<t, n>>
        PROVE  x \in Deliverable' <=> x \in Deliverable
    <3>1. PICK u \in ThreadIds, m \in 1..MaxSeq : x = <<u, m>>
      OBVIOUS
    <3> QED BY <1>6, <2>1, <3>1
  <2>2. <<t, n>> \in ThreadIds \X (1..MaxSeq)
    BY <1>2
  <2>3. CASE e.kind \in DeliveredKinds
    <3>1. <<t, n>> \in Deliverable'
      BY <1>5, <2>3
    <3>2. Deliverable' = Deliverable \cup {<<t, n>>}
      BY <1>7, <2>1, <2>2, <3>1
    <3> QED BY <2>3, <3>2
  <2>4. CASE e.kind \notin DeliveredKinds
    <3>1. <<t, n>> \notin Deliverable' /\ <<t, n>> \notin Deliverable
      BY <1>5, <2>4
    <3>2. \A x : x \in Deliverable' <=> x \in Deliverable
      BY <1>7, <2>1, <3>1
    <3>3. Deliverable' = Deliverable
      BY <3>2
    <3> QED BY <2>4, <3>3
  <2> QED BY <2>3, <2>4
<1> QED BY <1>2, <1>5, <1>8 DEF n

\* A step that keeps the log and the events that are pending or delivered.
LEMMA RowsFrame ==
    ASSUME RowsInv, UNCHANGED log, pending' \subseteq pending,
           delivered' \subseteq Deliverable, pending' \cap delivered' = {},
           \A item \in round' : item.event \in Deliverable,
           locked'.step = "append" =>
               locked' = locked \/ Len(log[locked'.thread]) < MaxSeq
    PROVE  RowsInv'
<1>1. Deliverable' = Deliverable
  BY DEF Deliverable, IsEvent
<1> QED BY <1>1 DEF RowsInv

\* Appending an event keeps the rows in order.
LEMMA RowsAppend ==
    ASSUME StoreTypeOK, RowsInv, NEW t \in ThreadIds, NEW e \in Event, AppendEvent(t, e),
           Len(log[t]) < MaxSeq, round' = round, locked'.step # "append"
    PROVE  RowsInv'
<1> DEFINE new == <<t, Len(log[t]) + 1>>
<1>1. /\ new \notin Deliverable
      /\ Deliverable' = IF e.kind \in DeliveredKinds THEN Deliverable \cup {new} ELSE Deliverable
  BY AppendDeliverable
<1>2. /\ pending' = IF e.kind \in DeliveredKinds THEN pending \cup {new} ELSE pending
      /\ delivered' = delivered
  BY DEF AppendEvent, RecordEvent
<1> HIDE DEF new
<1> QED BY <1>1, <1>2 DEF RowsInv

\* Every step keeps: rows and rounds name events for an agent only.
LEMMA RowsStep ==
    ASSUME TypeOK, RowsInv, [Next]_vars
    PROVE  RowsInv'
<1>0. StoreTypeOK
  BY DEF TypeOK
<1>1. CASE UNCHANGED <<log, pending, delivered, round>> /\ locked' = locked
  BY <1>1, RowsFrame DEF RowsInv
<1>2. CASE UNCHANGED <<log, pending, delivered, round>> /\ locked'.step # "append"
  BY <1>2, RowsFrame DEF RowsInv
<1>3. CASE CalmStep
  <2>1. CASE StartRound
    <3>1. PICK due \in SUBSET DuePending :
              round' = {[event |-> e, answer |-> "awaited"] : e \in due}
      BY <2>1 DEF StartRound
    <3>2. \A item \in round' : item.event \in Deliverable
      BY <3>1 DEF DuePending, RowsInv
    <3> QED BY <2>1, <3>2, RowsFrame DEF StartRound, RowsInv, store, threadVars, deliveryVars
  <2>2. ASSUME NEW item \in round, PostEvent(item)
        PROVE  RowsInv'
    <3>1. item \in [event : EventIds, answer : Answers]
      BY DEF TypeOK
    <3>2. PICK answer \in {"accepted", "failed"} :
              round' = (round \ {item}) \cup {[item EXCEPT !.answer = answer]}
      BY <2>2 DEF PostEvent, Answered
    <3>3. [item EXCEPT !.answer = answer].event = item.event
      BY <3>1
    <3>4. \A other \in round' : other.event \in Deliverable
      BY <3>2, <3>3 DEF RowsInv
    <3> QED BY <2>2, <3>4, RowsFrame DEF PostEvent, RowsInv, store, threadVars, deliveryVars
  <2>3. ASSUME NEW item \in round, FailEvent(item)
        PROVE  RowsInv'
    BY <2>3, RowsFrame DEF FailEvent, RowsInv, store, threadVars, deliveryVars
  <2>4. CASE \/ UNCHANGED vars \/ StartSweep
             \/ \E item \in sweep : RefuseInactivity(item)
             \/ \E t \in ThreadIds : Clock(t)
    BY <1>1, <2>4 DEF StartSweep, RefuseInactivity, Clock, TimeoutElapses, vars, serviceVars,
                      store, threadVars, deliveryVars
  <2> QED BY <1>3, <2>1, <2>2, <2>3, <2>4 DEF CalmStep
<1>4. ASSUME NEW r \in Message, NEW k \in Keys \cup {None}, NEW t \in ThreadIds,
             BeginMessage(r, k, t)
      PROVE  RowsInv'
  <2>1. UNCHANGED <<log, pending, delivered, round>>
    BY <1>4, MessageOpensOne DEF BeginMessage, InsertThread, store, threadVars, deliveryVars
  <2>2. locked'.thread = t /\ Len(log[t]) < MaxSeq
    BY <1>4 DEF BeginMessage
  <2> QED BY <2>1, <2>2, RowsFrame DEF RowsInv
<1>5. ASSUME NEW r \in Notification, NEW k \in Keys \cup {None}, BeginNotification(r, k)
      PROVE  RowsInv'
  <2> DEFINE e == [kind |-> r.kind, from |-> r.from, to |-> r.to, key |-> RequestKey(r, k)]
  <2>1. e \in Event /\ r.target \in ThreadIds
    BY DEF Event, EventKinds, Notification, RequestKey, RequestIds
  <2>2. /\ AppendEvent(r.target, e) /\ Len(log[r.target]) < MaxSeq
        /\ round' = round /\ locked'.step # "append"
    BY <1>5 DEF BeginNotification
  <2> HIDE DEF e
  <2> QED BY <1>0, <2>1, <2>2, RowsAppend
<1>6. CASE AppendMessage
  <2> DEFINE e == [kind |-> "message", from |-> locked.request.from, to |-> locked.request.to,
                   key |-> locked.key]
  <2>1. locked \in [step : {"append"}, thread : ThreadIds, request : Message, key : RequestKeys]
    BY <1>6 DEF AppendMessage, TypeOK, Section
  <2>2. e \in Event
    BY <2>1 DEF Event, EventKinds, RequestKeys, Message
  <2>3. /\ AppendEvent(locked.thread, e) /\ Len(log[locked.thread]) < MaxSeq
        /\ round' = round /\ locked'.step = "save"
    BY <1>6, <2>1 DEF AppendMessage, RowsInv
  <2> HIDE DEF e
  <2> QED BY <1>0, <2>1, <2>2, <2>3, RowsAppend
<1>7. ASSUME NEW item \in sweep, BeginInactivity(item)
      PROVE  RowsInv'
  <2> DEFINE e == [kind |-> "inactive", from |-> None, to |-> item.to, key |-> None]
  <2>1. e \in Event /\ item.thread \in ThreadIds
    BY DEF Event, EventKinds, TypeOK
  <2>2. /\ AppendEvent(item.thread, e) /\ Len(log[item.thread]) < MaxSeq
        /\ round' = round /\ locked'.step # "append"
    BY <1>7 DEF BeginInactivity, Free
  <2> HIDE DEF e
  <2> QED BY <1>0, <2>1, <2>2, RowsAppend
<1>8. CASE CancelEvents
  <2>1. UNCHANGED <<log, delivered, round>> /\ pending' \subseteq pending
    BY <1>8 DEF CancelEvents, CancelPending, threadVars
  <2>2. locked' = [locked EXCEPT !.step = "save"] /\ locked.step = "cancel"
    BY <1>8 DEF CancelEvents
  <2>3. locked'.step # "append"
    BY <2>2
  <2> QED BY <2>1, <2>3, RowsFrame DEF RowsInv
<1>9. ASSUME NEW task \in tasks, CascadeStep(task)
      PROVE  RowsInv'
  <2>1. /\ UNCHANGED <<log, delivered, round>> /\ pending' \subseteq pending
        /\ locked' = locked \/ locked'.step # "append"
    <3>1. CASE NotifyPeer(task) \/ ListChildren(task) \/ HaltParticipants(task)
      BY <3>1 DEF NotifyPeer, ListChildren, HaltParticipants, store, threadVars, deliveryVars
    <3>2. CASE CloseChild(task)
      BY <3>2 DEF CloseChild, CloseThread, Free, deliveryVars
    <3>3. CASE CancelChildEvents(task)
      BY <3>3 DEF CancelChildEvents, CancelPending, Free, threadVars
    <3> QED BY <1>9, <3>1, <3>2, <3>3 DEF CascadeStep
  <2> QED BY <2>1, RowsFrame DEF RowsInv
<1>10. ASSUME NEW item \in round, FinishEvent(item)
       PROVE  RowsInv'
  <2>1. /\ UNCHANGED <<log, locked>> /\ pending' = pending \ {item.event}
        /\ delivered' = delivered \cup {item.event} /\ round' = round \ {item}
    BY <1>10 DEF FinishEvent, MarkDelivered, threadVars
  <2> QED BY <2>1, RowsFrame DEF RowsInv
<1>11. ASSUME NEW r \in Notification, NEW k \in Keys \cup {None}, RepeatNotification(r, k)
       PROVE  RowsInv'
  BY <1>1, <1>11 DEF RepeatNotification, store, threadVars, deliveryVars
<1>12. CASE SaveResponse \/ FinishInactivity
  BY <1>2, <1>12 DEF SaveResponse, SaveResult, FinishInactivity, MarkInactivitySent, Free,
                     threadVars, deliveryVars
<1>13. CASE FaultStep
  <2>1. UNCHANGED <<log, pending, delivered>> /\ round' \subseteq round
        /\ (locked' = locked \/ locked'.step = "free")
    BY <1>13, FaultFrame DEF Free
  <2> QED BY <2>1, RowsFrame DEF RowsInv
<1> QED BY <1>3, <1>4, <1>5, <1>6, <1>7, <1>8, <1>9, <1>10, <1>11, <1>12, <1>13, StepCases
-----------------------------------------------------------------------------
(***************************************************************************)
(* Every step of the service is a step of the promise, or none of its      *)
(* business.                                                               *)
(***************************************************************************)
LEMMA PromiseFrame ==
    ASSUME UNCHANGED <<log, pending, delivered, received>>,
           \A t \in ThreadIds : Terminal(t)' <=> Terminal(t)
    PROVE  UNCHANGED Abstract!promise
<1>1. Deliverable' = Deliverable
  BY DEF Deliverable, IsEvent
<1> QED BY <1>1 DEF Abstract!promise

\* A thread becomes terminal.
LEMMA PromiseEnd ==
    ASSUME NEW t \in ThreadIds, ~Terminal(t), Terminal(t)',
           \A u \in ThreadIds \ {t} : Terminal(u)' <=> Terminal(u),
           UNCHANGED <<pending, delivered, received, Deliverable>>
    PROVE  Abstract!PromiseNext
<1>1. Abstract!End(t)
  BY DEF Abstract!End
<1> QED BY <1>1 DEF Abstract!PromiseNext

\* An append owes the new event, or ends the thread.
LEMMA PromiseAppend ==
    ASSUME StoreTypeOK, RowsInv, NEW t \in ThreadIds, NEW e \in Event, AppendEvent(t, e),
           Len(log[t]) < MaxSeq, received' = received
    PROVE  Abstract!PromiseNext
<1> DEFINE new == <<t, Len(log[t]) + 1>>
<1>1. /\ new \in ThreadIds \X (1..MaxSeq) /\ new[1] = t /\ new \notin Deliverable
      /\ Deliverable' = IF e.kind \in DeliveredKinds THEN Deliverable \cup {new} ELSE Deliverable
  BY AppendDeliverable
<1>2. /\ pending' = IF e.kind \in DeliveredKinds THEN pending \cup {new} ELSE pending
      /\ delivered' = delivered /\ Live(t)
  BY DEF AppendEvent, RecordEvent
<1>3. /\ \A u \in ThreadIds \ {t} : Terminal(u)' <=> Terminal(u)
      /\ ~Terminal(t) /\ (Terminal(t)' <=> e.kind \notin DeliveredKinds)
  <2>1. /\ \A u \in ThreadIds \ {t} : status'[u] = status[u]
        /\ status'[t] = CASE e.kind = "inactive" -> status[t]
                          [] e.kind = "message" -> "open"
                          [] OTHER -> e.kind
    BY DEF AppendEvent, RecordEvent, StoreTypeOK
  <2> QED BY <1>2, <2>1 DEF Terminal, Live, NonTerminalStatuses, TerminalStatuses, Event,
              EventKinds, NotificationStatuses, DeliveredKinds
<1> HIDE DEF new
<1>4. CASE e.kind \in DeliveredKinds
  <2>1. Abstract!Owe(new)
    BY <1>1, <1>2, <1>3, <1>4 DEF Abstract!Owe, Abstract!Known, RowsInv
  <2> QED BY <1>1, <2>1 DEF Abstract!PromiseNext
<1>5. CASE e.kind \notin DeliveredKinds
  BY <1>1, <1>2, <1>3, <1>5, PromiseEnd
<1> QED BY <1>4, <1>5

\* Withdrawing the pending events of a terminal thread.
LEMMA PromiseWithdraw ==
    ASSUME RowsInv, NEW t \in ThreadIds, Terminal(t), CancelPending(t), received' = received
    PROVE  Abstract!PromiseNext
<1> DEFINE given == {e \in pending : e[1] = t}
<1>1. /\ UNCHANGED <<log, status, delivered>> /\ pending' = pending \ given
      /\ Deliverable' = Deliverable
  BY DEF CancelPending, threadVars, Deliverable, IsEvent
<1>2. given \subseteq Deliverable /\ given \cap delivered = {} /\ given \subseteq pending
  BY DEF RowsInv
<1>3. given = {e \in pending : [x \in ThreadIds \X (1..MaxSeq) |-> x[1]][e] = t}
  BY DEF RowsInv, Deliverable
<1>4. Abstract!Withdraw(t)
  BY <1>1, <1>2, <1>3 DEF Abstract!Withdraw, Terminal
<1> QED BY <1>4 DEF Abstract!PromiseNext

\* Every step of the service is one of AtLeastOnce, or leaves its variables alone.
LEMMA PromiseStep ==
    ASSUME TypeOK, LockInv, TaskInv, AnswerInv, RowsInv, [Next]_vars
    PROVE  [Abstract!PromiseNext]_(Abstract!promise)
<1>0. StoreTypeOK
  BY DEF TypeOK
<1>1. CASE UNCHANGED <<log, pending, delivered, received, status>>
  BY <1>1, PromiseFrame DEF Terminal
<1>2. CASE CalmStep
  <2>1. ASSUME NEW item \in round, PostEvent(item)
        PROVE  Abstract!PromiseNext
    <3>1. /\ received' = received \cup {item.event} /\ UNCHANGED <<log, status, pending, delivered>>
          /\ item.event \in Deliverable
      BY <2>1 DEF PostEvent, RowsInv, store, threadVars, deliveryVars
    <3>2. Deliverable' = Deliverable /\ item.event \in ThreadIds \X (1..MaxSeq)
      BY <3>1 DEF Deliverable, IsEvent
    <3>3. Abstract!Accept(item.event)
      BY <3>1, <3>2 DEF Abstract!Accept, Abstract!Known, Terminal
    <3> QED BY <3>2, <3>3 DEF Abstract!PromiseNext
  <2>2. CASE \/ UNCHANGED vars \/ StartRound \/ StartSweep
             \/ \E item \in round : FailEvent(item)
             \/ \E item \in sweep : RefuseInactivity(item)
             \/ \E t \in ThreadIds : Clock(t)
    BY <1>1, <2>2 DEF StartRound, FailEvent, StartSweep, RefuseInactivity, Clock, TimeoutElapses,
                      vars, serviceVars, store, threadVars, deliveryVars
  <2> QED BY <1>2, <2>1, <2>2 DEF CalmStep
<1>3. ASSUME NEW r \in Message, NEW k \in Keys \cup {None}, NEW t \in ThreadIds,
             BeginMessage(r, k, t)
      PROVE  UNCHANGED Abstract!promise
  <2>1. UNCHANGED <<log, pending, delivered, received>>
    BY <1>3, MessageOpensOne DEF BeginMessage, InsertThread, store, threadVars, deliveryVars
  <2>2. status' = status \/ (status[t] = "absent" /\ status' = [status EXCEPT ![t] = "open"])
    BY ZenonT(60), <1>3, MessageOpensOne DEF InsertThread, store, threadVars
  <2>3. \A u \in ThreadIds : Terminal(u)' <=> Terminal(u)
    BY <1>0, <2>2 DEF Terminal, TerminalStatuses, StoreTypeOK
  <2> QED BY <2>1, <2>3, PromiseFrame
<1>4. ASSUME NEW r \in Notification, NEW k \in Keys \cup {None}, BeginNotification(r, k)
      PROVE  Abstract!PromiseNext
  <2> DEFINE e == [kind |-> r.kind, from |-> r.from, to |-> r.to, key |-> RequestKey(r, k)]
  <2>1. e \in Event /\ r.target \in ThreadIds
    BY DEF Event, EventKinds, Notification, RequestKey, RequestIds
  <2>2. AppendEvent(r.target, e) /\ Len(log[r.target]) < MaxSeq /\ received' = received
    BY <1>4 DEF BeginNotification
  <2> HIDE DEF e
  <2> QED BY <1>0, <2>1, <2>2, PromiseAppend
<1>5. CASE AppendMessage
  <2> DEFINE e == [kind |-> "message", from |-> locked.request.from, to |-> locked.request.to,
                   key |-> locked.key]
  <2>1. locked \in [step : {"append"}, thread : ThreadIds, request : Message, key : RequestKeys]
    BY <1>5 DEF AppendMessage, TypeOK, Section
  <2>2. e \in Event
    BY <2>1 DEF Event, EventKinds, RequestKeys, Message
  <2>3. /\ AppendEvent(locked.thread, e) /\ Len(log[locked.thread]) < MaxSeq
        /\ received' = received
    BY <1>5, <2>1 DEF AppendMessage, RowsInv
  <2> HIDE DEF e
  <2> QED BY <1>0, <2>1, <2>2, <2>3, PromiseAppend
<1>6. ASSUME NEW item \in sweep, BeginInactivity(item)
      PROVE  Abstract!PromiseNext
  <2> DEFINE e == [kind |-> "inactive", from |-> None, to |-> item.to, key |-> None]
  <2>1. e \in Event /\ item.thread \in ThreadIds
    BY DEF Event, EventKinds, TypeOK
  <2>2. AppendEvent(item.thread, e) /\ Len(log[item.thread]) < MaxSeq /\ received' = received
    BY <1>6 DEF BeginInactivity
  <2> HIDE DEF e
  <2> QED BY <1>0, <2>1, <2>2, PromiseAppend
<1>7. CASE CancelEvents
  <2>1. locked.thread \in ThreadIds /\ Terminal(locked.thread)
    BY <1>7, SectionFields DEF CancelEvents, LockInv
  <2> QED BY <1>7, <2>1, PromiseWithdraw DEF CancelEvents
<1>8. ASSUME NEW task \in tasks, CascadeStep(task)
      PROVE  [Abstract!PromiseNext]_(Abstract!promise)
  <2>0. task.thread \in ThreadIds
    BY DEF TypeOK, Task
  <2>1. CASE CancelChildEvents(task)
    BY <2>0, <2>1, PromiseWithdraw DEF CancelChildEvents, TaskInv
  <2>2. CASE CloseChild(task)
    <3>1. /\ UNCHANGED <<log, pending, delivered, received, Deliverable>>
          /\ status' = IF Live(task.thread)
                       THEN [status EXCEPT ![task.thread] = "closed"] ELSE status
      BY <2>2 DEF CloseChild, CloseThread, deliveryVars, Deliverable, IsEvent
    <3>2. CASE Live(task.thread)
      <4>1. /\ ~Terminal(task.thread) /\ Terminal(task.thread)'
            /\ \A u \in ThreadIds \ {task.thread} : Terminal(u)' <=> Terminal(u)
        BY <1>0, <2>0, <3>1, <3>2 DEF StoreTypeOK, Live, Terminal, NonTerminalStatuses,
                                      TerminalStatuses
      <4> QED BY <2>0, <3>1, <4>1, PromiseEnd
    <3>3. CASE ~Live(task.thread)
      BY <1>1, <3>1, <3>3
    <3> QED BY <3>2, <3>3
  <2>3. CASE NotifyPeer(task) \/ ListChildren(task) \/ HaltParticipants(task)
    BY <1>1, <2>3 DEF NotifyPeer, ListChildren, HaltParticipants, store, threadVars, deliveryVars
  <2> QED BY <1>8, <2>1, <2>2, <2>3 DEF CascadeStep
<1>9. ASSUME NEW item \in round, FinishEvent(item)
      PROVE  [Abstract!PromiseNext]_(Abstract!promise)
  <2>1. /\ UNCHANGED <<log, status, received>> /\ pending' = pending \ {item.event}
        /\ delivered' = delivered \cup {item.event}
        /\ item.event \in received /\ item.event \in Deliverable
    BY <1>9 DEF FinishEvent, MarkDelivered, threadVars, AnswerInv, RowsInv
  <2>2. Deliverable' = Deliverable /\ item.event \in ThreadIds \X (1..MaxSeq)
    BY <2>1 DEF Deliverable, IsEvent
  <2>3. CASE item.event \in delivered
    <3>1. UNCHANGED <<pending, delivered>>
      BY <2>1, <2>3 DEF RowsInv
    <3> QED BY <1>1, <2>1, <3>1
  <2>4. CASE item.event \notin delivered
    <3>1. Abstract!Settle(item.event)
      BY <2>1, <2>2, <2>4 DEF Abstract!Settle, Terminal
    <3> QED BY <2>2, <3>1 DEF Abstract!PromiseNext
  <2> QED BY <2>3, <2>4
<1>10. ASSUME NEW r \in Notification, NEW k \in Keys \cup {None}, RepeatNotification(r, k)
       PROVE  UNCHANGED Abstract!promise
  BY <1>1, <1>10, PromiseFrame DEF RepeatNotification, Terminal, store, threadVars, deliveryVars
<1>11. CASE SaveResponse \/ FinishInactivity \/ FaultStep
  <2>1. UNCHANGED <<status, log, pending, received, delivered>>
    BY <1>11, FaultFrame DEF SaveResponse, SaveResult, FinishInactivity, MarkInactivitySent,
                             threadVars, deliveryVars
  <2> QED BY <1>1, <2>1
<1> QED BY <1>2, <1>3, <1>4, <1>5, <1>6, <1>7, <1>8, <1>9, <1>10, <1>11, StepCases

\* The service implements AtLeastOnce: whatever the order of replies, failures,
\* terminal notifications, cascades, delivery rounds and crashes, an event stays
\* owed until its agent has accepted it or its thread has ended, and a thread
\* that has ended owes nothing new.
THEOREM ServiceKeepsPromise == Spec => KeepsPromise
<1>1. Init => RowsInv /\ AnswerInv /\ Abstract!PromiseInit
  <2> SUFFICES ASSUME Init
               PROVE  RowsInv /\ AnswerInv /\ Abstract!PromiseInit
    OBVIOUS
  <2>1. /\ pending = {} /\ delivered = {} /\ round = {} /\ received = {} /\ locked.step # "append"
        /\ \A t \in ThreadIds : ~Terminal(t) /\ log[t] = <<>>
    BY DEF Init, StoreInit, Free, Terminal, TerminalStatuses
  <2>2. Deliverable = {}
    BY <2>1 DEF Deliverable, IsEvent
  <2> QED BY <2>1, <2>2 DEF RowsInv, AnswerInv, Abstract!PromiseInit
<1>2. /\ TypeOK /\ LockInv /\ TaskInv /\ AnswerInv /\ RowsInv /\ [Next]_vars
      => /\ AnswerInv' /\ RowsInv'
         /\ [Abstract!PromiseNext]_(Abstract!promise)
  BY AnswerStep, RowsStep, PromiseStep
<1> QED BY <1>1, <1>2, LockTaskInvariant, PTL DEF Spec, KeepsPromise, Abstract!Promise
-----------------------------------------------------------------------------
(***************************************************************************)
(* Who an inactivity event goes to.                                        *)
(***************************************************************************)

\* Only three steps write to the log; every other one keeps it, with the sender
\* of the last message.
LEMMA LogCases ==
    ASSUME [Next]_vars
    PROVE  \/ UNCHANGED <<log, lastSender>>
           \/ \E r \in Notification, k \in Keys \cup {None} : BeginNotification(r, k)
           \/ AppendMessage
           \/ \E item \in sweep : BeginInactivity(item)
<1>1. ASSUME NEW r \in Message, NEW k \in Keys \cup {None}, NEW t \in ThreadIds,
             BeginMessage(r, k, t)
      PROVE  UNCHANGED <<log, lastSender>>
  BY <1>1, MessageOpensOne DEF InsertThread, store, threadVars
<1>2. ASSUME NEW task \in tasks, CascadeStep(task)
      PROVE  UNCHANGED <<log, lastSender>>
  BY <1>2 DEF CascadeStep, NotifyPeer, ListChildren, HaltParticipants, CloseChild, CloseThread,
              CancelChildEvents, CancelPending, store, threadVars
<1>3. CASE CalmStep
  BY <1>3 DEF CalmStep, vars, store, threadVars, StartRound, StartSweep, PostEvent, FailEvent,
              RefuseInactivity, Clock, TimeoutElapses
<1>4. CASE \/ CancelEvents \/ SaveResponse \/ FinishInactivity \/ FaultStep
           \/ \E item \in round : FinishEvent(item)
           \/ \E r \in Notification, k \in Keys \cup {None} : RepeatNotification(r, k)
  BY <1>4, FaultFrame DEF CancelEvents, CancelPending, SaveResponse, SaveResult,
              FinishInactivity, MarkInactivitySent, FinishEvent, MarkDelivered,
              RepeatNotification, store, threadVars
<1> QED BY <1>1, <1>2, <1>3, <1>4, StepCases

\* An append keeps the events there were and adds one with the next sequence_no.
LEMMA AppendedLog ==
    ASSUME StoreTypeOK, NEW t \in ThreadIds, NEW e \in Event, AppendEvent(t, e)
    PROVE  /\ Len(log[t]) \in Nat /\ DOMAIN log[t] = 1..Len(log[t])
           /\ DOMAIN log'[t] = DOMAIN log[t] \cup {Len(log[t]) + 1}
           /\ log'[t][Len(log[t]) + 1] = e
           /\ \A m \in DOMAIN log[t] : log'[t][m] = log[t][m]
           /\ \A u \in ThreadIds \ {t} : log'[u] = log[u]
<1>1. log[t] \in Seq(Event) /\ log'[t] = Append(log[t], e)
  BY DEF StoreTypeOK, AppendEvent, RecordEvent
<1>2. \A u \in ThreadIds \ {t} : log'[u] = log[u]
  BY DEF StoreTypeOK, AppendEvent, RecordEvent
<1> QED BY <1>1, <1>2

\* Agent a has sent a message in thread t.
Spoke(t, a) == \E m \in DOMAIN log[t] : log[t][m].kind = "message" /\ log[t][m].from = a

\* The last sender of a thread has sent a message there, and so has the agent
\* that a snapshot of the inactivity loop names, however stale.
SenderInv ==
    /\ \A t \in ThreadIds : lastSender[t] # None => Spoke(t, lastSender[t])
    /\ \A item \in sweep : Spoke(item.thread, item.to)

\* Who has sent a message has sent it for good.
LEMMA SpokeStays ==
    ASSUME TypeOK, [Next]_vars, NEW t \in ThreadIds, NEW a, Spoke(t, a)
    PROVE  Spoke(t, a)'
<1>0. StoreTypeOK
  BY DEF TypeOK
<1>1. ASSUME NEW u \in ThreadIds, NEW e \in Event, AppendEvent(u, e)
      PROVE  Spoke(t, a)'
  BY <1>0, <1>1, AppendedLog DEF Spoke
<1>2. ASSUME NEW r \in Notification, NEW k \in Keys \cup {None}, BeginNotification(r, k)
      PROVE  Spoke(t, a)'
  <2>1. [kind |-> r.kind, from |-> r.from, to |-> r.to, key |-> RequestKey(r, k)] \in Event
        /\ r.target \in ThreadIds
    BY DEF Event, EventKinds, Notification, RequestKey, RequestIds
  <2> QED BY <1>1, <1>2, <2>1 DEF BeginNotification
<1>3. CASE AppendMessage
  <2>1. locked \in [step : {"append"}, thread : ThreadIds, request : Message, key : RequestKeys]
    BY <1>3 DEF AppendMessage, TypeOK, Section
  <2>2. [kind |-> "message", from |-> locked.request.from, to |-> locked.request.to,
         key |-> locked.key] \in Event
    BY <2>1 DEF Event, EventKinds, RequestKeys, Message
  <2> QED BY <1>1, <1>3, <2>1, <2>2 DEF AppendMessage
<1>4. ASSUME NEW item \in sweep, BeginInactivity(item)
      PROVE  Spoke(t, a)'
  <2>1. [kind |-> "inactive", from |-> None, to |-> item.to, key |-> None] \in Event
        /\ item.thread \in ThreadIds
    BY DEF Event, EventKinds, TypeOK
  <2> QED BY <1>1, <1>4, <2>1 DEF BeginInactivity
<1> QED BY <1>2, <1>3, <1>4, LogCases DEF Spoke

\* Every step keeps: last senders and snapshots name agents that have spoken.
LEMMA SenderStep ==
    ASSUME TypeOK, SenderInv, [Next]_vars
    PROVE  SenderInv'
<1>0. StoreTypeOK
  BY DEF TypeOK
<1>1. ASSUME NEW t \in ThreadIds, lastSender'[t] # None
      PROVE  Spoke(t, lastSender[t])'
  <2>1. CASE lastSender'[t] = lastSender[t]
    <3> DEFINE a == lastSender[t]
    <3>1. Spoke(t, a) /\ a' = a
      BY <1>1, <2>1 DEF SenderInv
    <3> HIDE DEF a
    <3>2. Spoke(t, a)'
      <4>1. PICK x : x = a
        OBVIOUS
      <4>2. Spoke(t, x)'
        BY <3>1, <4>1, SpokeStays
      <4> QED BY <3>1, <4>1, <4>2 DEF Spoke
    <3> QED BY <2>1, <3>2 DEF Spoke, a
  <2>2. CASE lastSender'[t] # lastSender[t]
    <3>1. ASSUME NEW u \in ThreadIds, NEW e \in Event, AppendEvent(u, e)
          PROVE  Spoke(t, lastSender[t])'
      <4>1. e.kind = "message" /\ u = t /\ lastSender'[t] = e.from
        BY <1>0, <2>2, <3>1 DEF AppendEvent, RecordEvent, StoreTypeOK
      <4> QED BY <1>0, <3>1, <4>1, AppendedLog DEF Spoke
    <3>2. ASSUME NEW r \in Notification, NEW k \in Keys \cup {None}, BeginNotification(r, k)
          PROVE  Spoke(t, lastSender[t])'
      <4>1. [kind |-> r.kind, from |-> r.from, to |-> r.to, key |-> RequestKey(r, k)] \in Event
            /\ r.target \in ThreadIds
        BY DEF Event, EventKinds, Notification, RequestKey, RequestIds
      <4> QED BY <3>1, <3>2, <4>1 DEF BeginNotification
    <3>3. CASE AppendMessage
      <4>1. locked \in [step : {"append"}, thread : ThreadIds, request : Message, key : RequestKeys]
        BY <3>3 DEF AppendMessage, TypeOK, Section
      <4>2. [kind |-> "message", from |-> locked.request.from, to |-> locked.request.to,
             key |-> locked.key] \in Event
        BY <4>1 DEF Event, EventKinds, RequestKeys, Message
      <4> QED BY <3>1, <3>3, <4>1, <4>2 DEF AppendMessage
    <3>4. ASSUME NEW item \in sweep, BeginInactivity(item)
          PROVE  Spoke(t, lastSender[t])'
      <4>1. [kind |-> "inactive", from |-> None, to |-> item.to, key |-> None] \in Event
            /\ item.thread \in ThreadIds
        BY DEF Event, EventKinds, TypeOK
      <4> QED BY <3>1, <3>4, <4>1 DEF BeginInactivity
    <3> QED BY <2>2, <3>2, <3>3, <3>4, LogCases
  <2> QED BY <2>1, <2>2
<1>2. ASSUME NEW item \in sweep'
      PROVE  Spoke(item.thread, item.to)'
  <2>1. ASSUME NEW old \in sweep
        PROVE  Spoke(old.thread, old.to)'
    <3>1. old.thread \in ThreadIds
      BY DEF TypeOK
    <3> QED BY <2>1, <3>1, SpokeStays DEF SenderInv
  <2>2. CASE item \in sweep
    BY <2>1, <2>2
  <2>3. CASE StartSweep /\ item \notin sweep
    <3>1. PICK c \in InactivityCandidates : item = [thread |-> c[1], to |-> c[2], late |-> FALSE]
      BY <2>3 DEF StartSweep
    <3>2. PICK t \in ThreadIds : c = <<t, lastSender[t]>> /\ lastSender[t] # None
      BY DEF InactivityCandidates
    <3>3. item.thread = t /\ item.to = lastSender[t]
      BY <3>1, <3>2
    <3>4. Spoke(item.thread, item.to)
      BY <3>2, <3>3 DEF SenderInv
    <3> QED BY <3>3, <3>4, SpokeStays
  <2>4. CASE FaultStep \/ \E other \in sweep : RefuseInactivity(other)
    <3>1. PICK old \in sweep : item.thread = old.thread /\ item.to = old.to
      BY <2>4, FaultSweep
    <3> QED BY <2>1, <3>1
  <2>5. ASSUME item \notin sweep, ~StartSweep, ~FaultStep,
               \A other \in sweep : ~RefuseInactivity(other)
        PROVE  FALSE
    <3>1. sweep' \subseteq sweep
      BY <2>5 DEF Next, vars, serviceVars, ClientStep, FlowStep, DeliveryStep, BeginMessage,
         BeginNotification, RepeatNotification, AppendMessage, CancelEvents, SaveResponse,
         CascadeStep, NotifyPeer, ListChildren, HaltParticipants, CloseChild, CancelChildEvents,
         StartRound, PostEvent, FailEvent, FinishEvent, BeginInactivity, FinishInactivity,
         Clock
    <3> QED BY <2>5, <3>1
  <2> QED BY <2>2, <2>3, <2>4, <2>5
<1> QED BY <1>1, <1>2 DEF SenderInv

\* Every step keeps: who gets an inactivity event has sent a message before it.
LEMMA InactiveStep ==
    ASSUME TypeOK, SenderInv, InactiveToASender, [Next]_vars
    PROVE  InactiveToASender'
<1>0. StoreTypeOK
  BY DEF TypeOK
<1>1. ASSUME NEW t \in ThreadIds, NEW e \in Event, AppendEvent(t, e),
             e.kind = "inactive" => Spoke(t, e.to)
      PROVE  InactiveToASender'
  <2> SUFFICES ASSUME NEW u \in ThreadIds, NEW n \in DOMAIN log'[u], log'[u][n].kind = "inactive"
               PROVE  \E m \in 1..(n - 1) : /\ log'[u][m].kind = "message"
                                            /\ log'[u][m].from = log'[u][n].to
    BY DEF InactiveToASender
  <2>1. CASE u # t
    BY <1>0, <1>1, <2>1, AppendedLog DEF InactiveToASender
  <2>2. CASE u = t /\ n = Len(log[t]) + 1
    <3>1. PICK m \in DOMAIN log[t] : log[t][m].kind = "message" /\ log[t][m].from = e.to
      BY <1>0, <1>1, <2>2, AppendedLog DEF Spoke
    <3>2. m \in 1..(n - 1) /\ log'[t][m] = log[t][m] /\ log'[t][n] = e
      BY <1>0, <1>1, <2>2, <3>1, AppendedLog
    <3> QED BY <2>2, <3>1, <3>2
  <2>3. CASE u = t /\ n # Len(log[t]) + 1
    <3>1. n \in DOMAIN log[t] /\ log'[t][n] = log[t][n] /\ n \in 1..Len(log[t])
      BY <1>0, <1>1, <2>3, AppendedLog
    <3>2. PICK m \in 1..(n - 1) : /\ log[t][m].kind = "message"
                                  /\ log[t][m].from = log[t][n].to
      BY <2>3, <3>1 DEF InactiveToASender
    <3>3. m \in DOMAIN log[t]
      BY <1>0, <1>1, <3>1, <3>2, AppendedLog
    <3>4. log'[t][m] = log[t][m]
      BY <1>0, <1>1, <3>3, AppendedLog
    <3> QED BY <2>3, <3>1, <3>2, <3>4
  <2> QED BY <2>1, <2>2, <2>3
<1>2. ASSUME NEW r \in Notification, NEW k \in Keys \cup {None}, BeginNotification(r, k)
      PROVE  InactiveToASender'
  <2> DEFINE e == [kind |-> r.kind, from |-> r.from, to |-> r.to, key |-> RequestKey(r, k)]
  <2>1. e \in Event /\ r.target \in ThreadIds /\ e.kind # "inactive"
    BY DEF Event, EventKinds, Notification, NotificationStatuses, RequestKey, RequestIds
  <2>2. AppendEvent(r.target, e)
    BY <1>2 DEF BeginNotification
  <2> HIDE DEF e
  <2> QED BY <1>1, <2>1, <2>2
<1>3. CASE AppendMessage
  <2> DEFINE e == [kind |-> "message", from |-> locked.request.from, to |-> locked.request.to,
                   key |-> locked.key]
  <2>1. locked \in [step : {"append"}, thread : ThreadIds, request : Message, key : RequestKeys]
    BY <1>3 DEF AppendMessage, TypeOK, Section
  <2>2. e \in Event /\ e.kind # "inactive"
    BY <2>1 DEF Event, EventKinds, RequestKeys, Message
  <2>3. AppendEvent(locked.thread, e)
    BY <1>3 DEF AppendMessage
  <2> HIDE DEF e
  <2>4. PICK t \in ThreadIds, x \in Event : t = locked.thread /\ x = e
    BY <2>1, <2>2
  <2> QED BY <1>1, <2>2, <2>3, <2>4
<1>4. ASSUME NEW item \in sweep, BeginInactivity(item)
      PROVE  InactiveToASender'
  <2> DEFINE e == [kind |-> "inactive", from |-> None, to |-> item.to, key |-> None]
  <2>1. e \in Event /\ item.thread \in ThreadIds /\ e.to = item.to
    BY DEF Event, EventKinds, TypeOK
  <2>2. AppendEvent(item.thread, e) /\ Spoke(item.thread, item.to)
    BY <1>4 DEF BeginInactivity, SenderInv
  <2> HIDE DEF e
  <2> QED BY <1>1, <2>1, <2>2
<1>5. CASE UNCHANGED log
  BY <1>5 DEF InactiveToASender
<1> QED BY <1>2, <1>3, <1>4, <1>5, LogCases

\* An inactivity event goes to an agent that has sent a message in the thread
\* before, whatever happened between the snapshot that named it and its section.
THEOREM InactivityGoesToSenders == Spec => []InactiveToASender
<1>1. Init => SenderInv /\ InactiveToASender
  BY DEF Init, StoreInit, SenderInv, InactiveToASender
<1>2. TypeOK /\ SenderInv /\ InactiveToASender /\ [Next]_vars => SenderInv' /\ InactiveToASender'
  BY SenderStep, InactiveStep
<1> QED BY <1>1, <1>2, TypeCorrect, PTL DEF Spec
-----------------------------------------------------------------------------
(***************************************************************************)
(* How often a request is carried out.  The key of a request is looked up, *)
(* the event appended and the answer saved in three transactions of one    *)
(* section: a crash, or an error that ends the section, between the last   *)
(* two makes the client's next attempt append again, and nothing else does.*)
(***************************************************************************)

\* The request with key k needs no further event: it is saved, or about to be.
Spent(k) == k \in saved \/ (locked.key = k /\ locked.step \in {"cancel", "save"})

\* The section that holds the lock works on a request that is not saved, and
\* each fault has cost a request one event at most.
KeyInv ==
    /\ locked.key # None => locked.key \notin saved
    /\ \A k \in RequestIds :
          /\ IsFiniteSet(EventsOf(k))
          /\ Cardinality(EventsOf(k)) <= faults + (IF Spent(k) THEN 1 ELSE 0)

\* An append adds at most one event to those of the key it has.
LEMMA AppendedEvents ==
    ASSUME StoreTypeOK, NEW t \in ThreadIds, NEW e \in Event, AppendEvent(t, e), NEW k
    PROVE  /\ e.key # k => EventsOf(k)' \subseteq EventsOf(k)
           /\ EventsOf(k)' \subseteq EventsOf(k) \cup {<<t, Len(log[t]) + 1>>}
<1> SUFFICES ASSUME NEW x \in EventsOf(k)'
             PROVE  x \in EventsOf(k) \/ (e.key = k /\ x = <<t, Len(log[t]) + 1>>)
  OBVIOUS
<1>1. PICK u \in ThreadIds, n \in 1..MaxSeq : x = <<u, n>>
  BY DEF EventsOf
<1>2. n \in DOMAIN log'[u] /\ log'[u][n].key = k
  BY <1>1 DEF EventsOf, IsEvent
<1>3. CASE n \in DOMAIN log[u] /\ log'[u][n] = log[u][n]
  BY <1>1, <1>2, <1>3 DEF EventsOf, IsEvent
<1>4. CASE u = t /\ n = Len(log[t]) + 1
  BY <1>1, <1>2, <1>4, AppendedLog
<1> QED BY <1>2, <1>3, <1>4, AppendedLog

\* A step that writes no event, and leaves a key unspent only if it is a fault.
LEMMA KeyFrame ==
    ASSUME TypeOK, KeyInv, UNCHANGED log, locked'.key # None => locked'.key \notin saved',
           \/ faults' = faults /\ \A k \in RequestIds : Spent(k) => Spent(k)'
           \/ faults' = faults + 1
    PROVE  KeyInv'
<1> SUFFICES ASSUME NEW k \in RequestIds
             PROVE  /\ IsFiniteSet(EventsOf(k)')
                    /\ Cardinality(EventsOf(k)') <= faults' + (IF Spent(k)' THEN 1 ELSE 0)
  BY DEF KeyInv
<1>1. EventsOf(k)' = EventsOf(k)
  BY DEF EventsOf, IsEvent
<1>2. IsFiniteSet(EventsOf(k)) /\ Cardinality(EventsOf(k)) \in Nat
  BY FS_CardinalityType DEF KeyInv
<1>3. Cardinality(EventsOf(k)) <= faults + (IF Spent(k) THEN 1 ELSE 0) /\ faults \in Nat
  BY DEF KeyInv, TypeOK
<1>4. faults + (IF Spent(k) THEN 1 ELSE 0) <= faults' + (IF Spent(k)' THEN 1 ELSE 0)
  BY <1>3
<1>5. faults' + (IF Spent(k)' THEN 1 ELSE 0) \in Nat
  BY <1>3
<1> HIDE DEF Spent, EventsOf
<1> QED BY <1>1, <1>2, <1>3, <1>4, <1>5

\* Appending the event of a request that is not spent spends its key.
LEMMA KeyAppend ==
    ASSUME TypeOK, KeyInv, NEW t \in ThreadIds, NEW e \in Event, AppendEvent(t, e),
           faults' = faults, saved' = saved, locked'.key # None => locked'.key \notin saved,
           \A k \in RequestIds : Spent(k) => Spent(k)' /\ e.key # k,
           e.key \in RequestIds => Spent(e.key)'
    PROVE  KeyInv'
<1>0. StoreTypeOK
  BY DEF TypeOK
<1>1. ASSUME NEW k \in RequestIds
      PROVE  /\ IsFiniteSet(EventsOf(k)')
             /\ Cardinality(EventsOf(k)') <= faults' + (IF Spent(k)' THEN 1 ELSE 0)
  <2>1. /\ IsFiniteSet(EventsOf(k)) /\ Cardinality(EventsOf(k)) \in Nat /\ faults \in Nat
        /\ Cardinality(EventsOf(k)) <= faults + (IF Spent(k) THEN 1 ELSE 0)
    BY FS_CardinalityType DEF KeyInv, TypeOK
  <2>2. CASE e.key # k
    <3>1. EventsOf(k)' \subseteq EventsOf(k)
      BY <1>0, <2>2, AppendedEvents
    <3>2. IsFiniteSet(EventsOf(k)') /\ Cardinality(EventsOf(k)') <= Cardinality(EventsOf(k))
          /\ Cardinality(EventsOf(k)') \in Nat
      BY <2>1, <3>1, FS_Subset, FS_CardinalityType
    <3>3. Spent(k) => Spent(k)'
      OBVIOUS
    <3> HIDE DEF Spent, EventsOf
    <3> QED BY <2>1, <3>2, <3>3
  <2>3. CASE e.key = k
    <3> DEFINE new == <<t, Len(log[t]) + 1>>
    <3>1. EventsOf(k)' \subseteq EventsOf(k) \cup {new}
      BY <1>0, AppendedEvents
    <3> HIDE DEF new
    <3>2. IsFiniteSet(EventsOf(k) \cup {new})
          /\ Cardinality(EventsOf(k) \cup {new}) \in Nat
          /\ Cardinality(EventsOf(k) \cup {new}) <= Cardinality(EventsOf(k)) + 1
      <4>1. IsFiniteSet(EventsOf(k) \cup {new})
            /\ Cardinality(EventsOf(k) \cup {new}) \in {Cardinality(EventsOf(k)),
                                                       Cardinality(EventsOf(k)) + 1}
        BY <2>1, FS_AddElement
      <4> QED BY <2>1, <4>1
    <3>3. IsFiniteSet(EventsOf(k)') /\ Cardinality(EventsOf(k)') \in Nat
          /\ Cardinality(EventsOf(k)') <= Cardinality(EventsOf(k) \cup {new})
      BY <3>1, <3>2, FS_Subset, FS_CardinalityType
    <3>4. ~Spent(k) /\ (Spent(k)' <=> TRUE)
      BY <2>3
    <3> HIDE DEF Spent, EventsOf
    <3>5. Cardinality(EventsOf(k)) <= faults
      BY <2>1, <3>4
    <3>6. Cardinality(EventsOf(k)') <= faults + 1
      BY <2>1, <3>2, <3>3, <3>5
    <3> QED BY <3>3, <3>4, <3>6
  <2> QED BY <2>2, <2>3
<1> QED BY <1>1 DEF KeyInv

\* Every step keeps: no fault, no event too many.
LEMMA KeyStep ==
    ASSUME TypeOK, TaskInv, KeyInv, [Next]_vars
    PROVE  KeyInv'
<1>0. faults \in Nat /\ locked \in Section /\ None \notin RequestIds
  BY NoneAssumption DEF TypeOK, RequestIds
<1>1. ASSUME UNCHANGED <<log, locked, saved, faults>> PROVE KeyInv'
  BY <1>1, KeyFrame DEF KeyInv, Spent
<1>2. ASSUME UNCHANGED <<log, saved, faults>>, locked'.key = None,
             locked.step \notin {"cancel", "save"}
      PROVE KeyInv'
  BY <1>2, KeyFrame DEF Spent
<1>3. ASSUME NEW r \in Message, NEW k \in Keys \cup {None}, NEW t \in ThreadIds,
             BeginMessage(r, k, t)
      PROVE  KeyInv'
  <2>1. UNCHANGED <<log, saved, faults>>
    BY <1>3, MessageOpensOne DEF BeginMessage, InsertThread, store, threadVars
  <2>2. locked.step = "free" /\ locked'.key = RequestKey(r, k)
    BY <1>3 DEF BeginMessage, LockFree
  <2>3. RequestKey(r, k) # None => RequestKey(r, k) \notin saved
    BY <1>3 DEF BeginMessage, Cached, RequestKey
  <2> QED BY <2>1, <2>2, <2>3, KeyFrame DEF Spent
<1>4. ASSUME NEW r \in Notification, NEW k \in Keys \cup {None}, BeginNotification(r, k)
      PROVE  KeyInv'
  <2> DEFINE e == [kind |-> r.kind, from |-> r.from, to |-> r.to, key |-> RequestKey(r, k)]
  <2>1. e \in Event /\ r.target \in ThreadIds /\ e.key = RequestKey(r, k)
    BY DEF Event, EventKinds, Notification, RequestKey, RequestIds
  <2>2. /\ AppendEvent(r.target, e) /\ faults' = faults /\ locked.step = "free"
        /\ locked'.step \in {"cancel", "save"} /\ locked'.key = RequestKey(r, k)
    BY <1>4 DEF BeginNotification, LockFree
  <2>3. saved' = saved
    BY <2>2 DEF AppendEvent, RecordEvent
  <2>4. RequestKey(r, k) # None => RequestKey(r, k) \notin saved
    BY <1>4 DEF BeginNotification, Cached, RequestKey
  <2> HIDE DEF e
  <2>5. \A id \in RequestIds : Spent(id) => Spent(id)' /\ e.key # id
    BY <1>0, <2>1, <2>2, <2>3, <2>4 DEF Spent
  <2>6. e.key \in RequestIds => Spent(e.key)'
    BY <2>1, <2>2 DEF Spent
  <2> QED BY <2>1, <2>2, <2>3, <2>4, <2>5, <2>6, KeyAppend
<1>5. CASE AppendMessage
  <2> DEFINE e == [kind |-> "message", from |-> locked.request.from, to |-> locked.request.to,
                   key |-> locked.key]
  <2>1. locked \in [step : {"append"}, thread : ThreadIds, request : Message, key : RequestKeys]
    BY <1>5 DEF AppendMessage, TypeOK, Section
  <2>2. e \in Event /\ e.key = locked.key
    BY <2>1 DEF Event, EventKinds, RequestKeys, Message
  <2>3. /\ AppendEvent(locked.thread, e) /\ faults' = faults /\ locked.step = "append"
        /\ locked' = [locked EXCEPT !.step = "save"]
    BY <1>5 DEF AppendMessage
  <2>4. locked'.step = "save" /\ locked'.key = locked.key
    BY <2>1, <2>3
  <2>5. saved' = saved
    BY <2>3 DEF AppendEvent, RecordEvent
  <2> HIDE DEF e
  <2>6. PICK t \in ThreadIds, x \in Event : t = locked.thread /\ x = e
    BY <2>1, <2>2
  <2>7. AppendEvent(t, x) /\ x.key = locked.key
    BY <2>2, <2>3, <2>6
  <2>8. \A id \in RequestIds : Spent(id) => Spent(id)' /\ x.key # id
    BY <1>0, <2>3, <2>4, <2>5, <2>7 DEF Spent, KeyInv
  <2>9. x.key \in RequestIds => Spent(x.key)'
    BY <2>4, <2>7 DEF Spent
  <2>10. locked'.key # None => locked'.key \notin saved
    BY <2>4 DEF KeyInv
  <2> QED BY <2>3, <2>5, <2>7, <2>8, <2>9, <2>10, KeyAppend
<1>6. ASSUME NEW item \in sweep, BeginInactivity(item)
      PROVE  KeyInv'
  <2> DEFINE e == [kind |-> "inactive", from |-> None, to |-> item.to, key |-> None]
  <2>1. e \in Event /\ item.thread \in ThreadIds /\ e.key = None
    BY DEF Event, EventKinds, TypeOK
  <2>2. /\ AppendEvent(item.thread, e) /\ faults' = faults /\ locked.step = "free"
        /\ locked'.key = None
    BY <1>6 DEF BeginInactivity, LockFree, Free
  <2>3. saved' = saved
    BY <2>2 DEF AppendEvent, RecordEvent
  <2> HIDE DEF e
  <2>4. \A id \in RequestIds : Spent(id) => Spent(id)' /\ e.key # id
    BY <1>0, <2>1, <2>2, <2>3 DEF Spent
  <2> QED BY <1>0, <2>1, <2>2, <2>3, <2>4, KeyAppend
<1>7. CASE CancelEvents
  <2>1. UNCHANGED <<log, saved, faults>> /\ locked' = [locked EXCEPT !.step = "save"]
    BY <1>7 DEF CancelEvents, CancelPending, threadVars
  <2>2. locked'.step = "save" /\ locked'.key = locked.key
    BY <1>0, <2>1 DEF Section
  <2> QED BY <2>1, <2>2, KeyFrame DEF Spent, KeyInv
<1>8. CASE SaveResponse
  <2>1. /\ UNCHANGED <<log, faults>> /\ saved' = saved \cup ({locked.key} \ {None})
        /\ locked'.key = None
    BY <1>8 DEF SaveResponse, SaveResult, threadVars, Free
  <2>2. \A id \in RequestIds : Spent(id) => Spent(id)'
    BY <1>0, <2>1 DEF Spent
  <2> QED BY <2>1, <2>2, KeyFrame
<1>9. CASE FinishInactivity
  BY <1>2, <1>9 DEF FinishInactivity, MarkInactivitySent, Free
<1>10. CASE FaultStep
  <2>1. log' = log /\ faults' = faults + 1
    BY <1>10, FaultFrame
  <2>2. locked'.key # None => locked'.key \notin saved'
    BY <1>10, FaultFrame DEF Free, KeyInv
  <2> QED BY <2>1, <2>2, KeyFrame
<1>11. ASSUME NEW task \in tasks, CascadeStep(task)
       PROVE  KeyInv'
  <2>1. CASE NotifyPeer(task) \/ ListChildren(task) \/ HaltParticipants(task)
    BY <1>1, <2>1 DEF NotifyPeer, ListChildren, HaltParticipants, store, threadVars
  <2>2. CASE CloseChild(task)
    BY <1>2, <2>2 DEF CloseChild, CloseThread, LockFree, Free
  <2>3. CASE CancelChildEvents(task)
    <3>1. locked.step = "cascade"
      BY <2>3 DEF CancelChildEvents, TaskInv
    <3> QED BY <1>2, <2>3, <3>1 DEF CancelChildEvents, CancelPending, Free, threadVars
  <2> QED BY <1>11, <2>1, <2>2, <2>3 DEF CascadeStep
<1>12. CASE CalmStep
  <2>1. saved' = saved
    BY <1>12 DEF CalmStep, vars, store, StartRound, StartSweep, PostEvent, FailEvent,
                 RefuseInactivity, Clock, TimeoutElapses
  <2> QED BY <1>1, <1>12, <2>1, CalmFrame DEF calmVars
<1>13. ASSUME NEW r \in Notification, NEW k \in Keys \cup {None}, RepeatNotification(r, k)
       PROVE  KeyInv'
  BY <1>1, <1>13 DEF RepeatNotification, store, threadVars
<1>14. ASSUME NEW item \in round, FinishEvent(item)
       PROVE  KeyInv'
  BY <1>1, <1>14 DEF FinishEvent, MarkDelivered, threadVars
<1> QED BY <1>3, <1>4, <1>5, <1>6, <1>7, <1>8, <1>9, <1>10, <1>11, <1>12, <1>13, <1>14, StepCases

\* A request sent again under its key, whether by its client or with another
\* content, is carried out once, and once more at most for every crash of the
\* service and every statement that fails and ends a section.
THEOREM RequestsAreCarriedOutOnce == Spec => []OneAppendPerKey
<1>1. Init => KeyInv
  <2> SUFFICES ASSUME Init PROVE KeyInv
    OBVIOUS
  <2>1. ASSUME NEW k PROVE EventsOf(k) = {}
    BY DEF Init, StoreInit, EventsOf, IsEvent
  <2>2. IsFiniteSet({}) /\ Cardinality({}) = 0
    BY FS_EmptySet
  <2>3. locked.key = None /\ faults = 0
    BY DEF Init, Free
  <2> QED BY <2>1, <2>2, <2>3 DEF KeyInv
<1>2. TypeOK /\ LockInv /\ TaskInv /\ KeyInv /\ [Next]_vars => KeyInv'
  BY KeyStep
<1>3. TypeOK /\ KeyInv => OneAppendPerKey
  <2> SUFFICES ASSUME TypeOK, KeyInv, NEW k \in RequestIds
               PROVE  Cardinality(EventsOf(k)) <= 1 + faults
    BY DEF OneAppendPerKey
  <2>1. Cardinality(EventsOf(k)) \in Nat /\ faults \in Nat
        /\ Cardinality(EventsOf(k)) <= faults + (IF Spent(k) THEN 1 ELSE 0)
    BY FS_CardinalityType DEF KeyInv, TypeOK
  <2> HIDE DEF Spent, EventsOf
  <2> QED BY <2>1
<1> QED BY <1>1, <1>2, <1>3, LockTaskInvariant, PTL DEF Spec
===============================================================================
