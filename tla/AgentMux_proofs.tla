--------------------------- MODULE AgentMux_proofs ---------------------------
(***************************************************************************)
(* Theorems about AgentMux, for every set of events, threads and processor *)
(* tasks and every bound.                                                  *)
(***************************************************************************)
EXTENDS AgentMux, FiniteSetTheorems, TLAPS

\* The processor tasks are of their type, and one that dispatches has an entry.
TasksOK(tasks) ==
    /\ tasks \in [Processors -> Task]
    /\ \A p \in Processors : tasks[p].step \in {"spawning", "running"} => tasks[p].entry \in Entry

\* A task that is given a new state of its type leaves the tasks of their type.
LEMMA UpdateType ==
    ASSUME TypeOK, NEW p \in Processors, NEW new \in Task,
           new.step \in {"spawning", "running"} => new.entry \in Entry,
           task' = [task EXCEPT ![p] = new]
    PROVE  TasksOK(task')
BY DEF TypeOK, TasksOK, Dispatching

\* A task that has nothing to dispatch is of its type.
LEMMA IdleType ==
    ASSUME NEW step \in Steps \ {"spawning", "running"}
    PROVE  /\ [Ended EXCEPT !.step = step] \in Task
           /\ [Ended EXCEPT !.step = step].step = step
BY DEF Ended, Task, Steps

\* When the runtime has gone down every task has ended.
LEMMA DownType ==
    ASSUME GoneDown
    PROVE  TasksOK(task') /\ clearing' = NotClearing /\ up' = FALSE /\ restarts' = restarts + 1
           /\ current' = None /\ process' = None /\ activeEvent' = None
<1>1. Ended \in Task /\ Ended.step = "ended"
  BY DEF Ended, Task, Steps
<1> QED BY <1>1 DEF GoneDown, TasksOK

\* Killing the active process keeps the tasks' types.
LEMMA InterruptedType ==
    ASSUME TypeOK
    PROVE  TasksOK(Interrupted(task))
BY ZenonT(60) DEF TypeOK, TasksOK, Interrupted, Task, Dispatching

\* Scheduling a processor keeps the types of the tasks.
LEMMA ScheduleType ==
    ASSUME TypeOK, NEW tasks, TasksOK(tasks), ScheduleProcessor(tasks)
    PROVE  TasksOK(task') /\ current' \in Processors \cup {None}
<1>1. /\ [Ended EXCEPT !.step = "scheduled"] \in Task
      /\ [Ended EXCEPT !.step = "scheduled"].step = "scheduled"
  BY IdleType DEF Steps
<1> QED BY <1>1 DEF TypeOK, TasksOK, ScheduleProcessor

\* The positions of a delivery that are taken up are finitely many.
LEMMA PositionsFinite ==
    ASSUME NEW batch \in Batches, NEW positions, positions \subseteq DOMAIN batch
    PROVE  /\ IsFiniteSet(positions) /\ Cardinality(positions) \in Nat
           /\ positions \subseteq Int
           /\ \A i \in positions : batch[i] \in Events
<1>1. PICK n \in 1..MaxBatch : batch \in [1..n -> Events]
  BY DEF Batches
<1>2. n \in Int /\ DOMAIN batch = 1..n
  BY <1>1, AgentMuxAssumption
<1>3. IsFiniteSet(positions)
  BY <1>2, FS_Interval, FS_Subset
<1> QED BY <1>1, <1>2, <1>3, FS_CardinalityType

\* The queue entries of a delivery are entries.
LEMMA QueueFilesType ==
    ASSUME TypeOK, NEW batch \in Batches, NEW positions, positions \subseteq DOMAIN batch
    PROVE  QueueFiles(batch, positions) \subseteq Entry
<1> SUFFICES ASSUME NEW i \in positions
             PROVE  [id |-> counter + Place(i, positions), event |-> batch[i], attempts |-> 0]
                        \in Entry
  BY DEF QueueFiles
<1>1. Place(i, positions) \in Nat
  BY PositionsFinite DEF Place
<1>2. batch[i] \in Events
  BY PositionsFinite
<1> QED BY <1>1, <1>2 DEF TypeOK, Entry
-----------------------------------------------------------------------------
(***************************************************************************)
(* Type correctness.                                                       *)
(***************************************************************************)

\* The handlers of deliveries and /stop requests keep the types.
LEMMA HandlerType ==
    ASSUME TypeOK,
           \/ \E batch \in Batches : HandleEvents(batch)
           \/ \E thread, parent \in Threads \cup {None} : Stop(thread, parent)
           \/ \E batch \in Batches, n \in 1..MaxBatch : CrashWhileQueueing(batch, n)
    PROVE  TypeOK'
<1> USE AgentMuxAssumption
<1>1. ASSUME NEW batch \in Batches, HandleEvents(batch)
      PROVE  TypeOK'
  <2> DEFINE fresh == Fresh(batch)
             interrupted == IF Range(batch) \cap Interrupting # {} THEN Interrupted(task) ELSE task
  <2>1. fresh \subseteq DOMAIN batch
    BY DEF Fresh
  <2>2. /\ QueueFiles(batch, fresh) \subseteq Entry /\ Cardinality(fresh) \in Nat
        /\ EventsAt(batch, fresh) \subseteq Events
    <3> HIDE DEF fresh
    <3>1. Cardinality(fresh) \in Nat /\ \A i \in fresh : batch[i] \in Events
      BY <2>1, PositionsFinite
    <3> QED BY <2>1, <3>1, QueueFilesType DEF EventsAt
  <2>3. TasksOK(interrupted)
    BY InterruptedType DEF TasksOK, TypeOK, Dispatching
  <2>4. IF fresh = {} THEN task' = interrupted /\ current' = current
                      ELSE ScheduleProcessor(interrupted)
    BY <1>1 DEF HandleEvents
  <2>5. TasksOK(task') /\ current' \in Processors \cup {None}
    BY <2>3, <2>4, ScheduleType DEF TypeOK
  <2>6. /\ queue' = queue \cup QueueFiles(batch, fresh) /\ counter' = counter + Cardinality(fresh)
        /\ handled' = handled \cup EventsAt(batch, fresh) /\ stopped' \subseteq stopped
        /\ deliveries' = deliveries + 1
        /\ UNCHANGED <<processing, failed, generation, up, process, activeEvent, clearing,
                       finished, withdrawn, restarts>>
    BY <1>1 DEF HandleEvents
  <2> HIDE DEF fresh, interrupted
  <2> QED BY <2>2, <2>5, <2>6 DEF TypeOK, TasksOK, Dispatching
<1>2. ASSUME NEW thread \in Threads \cup {None}, NEW parent \in Threads \cup {None},
             Stop(thread, parent)
      PROVE  TypeOK'
  <2>1. task' \in {task, Interrupted(task)}
    BY <1>2 DEF Stop
  <2>2. TasksOK(task')
    BY <2>1, InterruptedType DEF TypeOK, TasksOK, Dispatching
  <2>3. /\ queue' \subseteq queue
        /\ \A e \in withdrawn' : e \in withdrawn \/ \E x \in queue : e = x.event
        /\ stopped' \subseteq stopped \cup Events
        /\ UNCHANGED <<processing, failed, handled, counter, generation, up, current, process,
                       activeEvent, clearing, finished, deliveries, restarts>>
    BY <1>2 DEF Stop, EventsIn
  <2>4. withdrawn' \subseteq Events
    BY <2>3 DEF TypeOK, Entry
  <2> QED BY <2>2, <2>3, <2>4 DEF TypeOK, TasksOK, Dispatching
<1>3. ASSUME NEW batch \in Batches, NEW n \in 1..MaxBatch, CrashWhileQueueing(batch, n)
      PROVE  TypeOK'
  <2> DEFINE written == {i \in Fresh(batch) : Place(i, Fresh(batch)) <= n}
  <2>1. written \subseteq DOMAIN batch
    BY DEF Fresh
  <2>2. QueueFiles(batch, written) \subseteq Entry
    BY <2>1, QueueFilesType
  <2>3. /\ queue' = queue \cup QueueFiles(batch, written) /\ counter' = counter + n
        /\ deliveries' = deliveries + 1 /\ stopped' \subseteq stopped
        /\ UNCHANGED <<processing, failed, handled, generation, finished, withdrawn>>
    BY <1>3 DEF CrashWhileQueueing
  <2>4. GoneDown
    BY <1>3 DEF CrashWhileQueueing
  <2> HIDE DEF written
  <2> QED BY <2>2, <2>3, <2>4, DownType DEF TypeOK, TasksOK, NotClearing, Dispatching
<1> QED BY <1>1, <1>2, <1>3

\* /clear_context, in its parts, keeps the types.
LEMMA ClearType ==
    ASSUME TypeOK, BeginClear \/ ClearStep
    PROVE  TypeOK'
<1>1. EventsIn(queue \cup processing) \subseteq Events
  BY DEF TypeOK, EventsIn, Entry
<1>2. CASE BeginClear
  <2>1. TasksOK(task') /\ generation' = generation + 1
    BY <1>2, InterruptedType DEF BeginClear
  <2>2. CASE EmptyQueue
    <3>1. /\ queue' = {} /\ processing' = {} /\ clearing' = NotClearing
          /\ withdrawn' \subseteq Events
          /\ current' = None /\ process' = None /\ activeEvent' = None
          /\ UNCHANGED <<failed, handled, counter, up, finished, stopped, deliveries, restarts>>
      BY <1>1, <2>2 DEF EmptyQueue, TypeOK
    <3> QED BY <2>1, <3>1 DEF TypeOK, TasksOK, Dispatching, NotClearing
  <2>3. CASE ~EmptyQueue
    <3>1. /\ current # None /\ clearing' = [stage |-> "cancelling", target |-> current]
          /\ UNCHANGED <<queue, processing, failed, handled, counter, up, current, process,
                         activeEvent, history>>
      BY <1>2, <2>3 DEF BeginClear
    <3> QED BY <2>1, <3>1 DEF TypeOK, TasksOK, Dispatching, history
  <2> QED BY <2>2, <2>3
<1>3. ASSUME NEW p \in Processors, CancelledTask(p)
      PROVE  TypeOK'
  BY <1>3 DEF CancelledTask, TypeOK, Task, Steps, Ended, Dispatching, files, history
<1>4. CASE FinishClear
  BY <1>1, <1>4 DEF FinishClear, EmptyQueue, TypeOK, NotClearing, Dispatching
<1> QED BY <1>2, <1>3, <1>4 DEF ClearStep

\* The steps of a processor task keep the types.
LEMMA TaskType ==
    ASSUME TypeOK, NEW p \in Processors, TaskStep(p)
    PROVE  TypeOK'
<1>1. task[p] \in Task /\ (Dispatching(p) => task[p].entry \in Entry)
  BY DEF TypeOK
<1>2. Ended \in Task /\ Ended.step = "ended"
  BY DEF Ended, Task, Steps
<1>3. \A step \in {"claiming", "pausing"} :
          /\ [Ended EXCEPT !.step = step] \in Task /\ [Ended EXCEPT !.step = step].step = step
  BY IdleType DEF Steps
<1>4. CASE FindNothing(p)
  <2>1. TasksOK(task')
    BY <1>2, <1>4, UpdateType DEF FindNothing
  <2> QED BY <1>4, <2>1 DEF FindNothing, TypeOK, TasksOK, Dispatching, files, history
<1>5. ASSUME NEW x \in queue, ClaimNote(p, x)
      PROVE  TypeOK'
  <2>1. TasksOK(task')
    BY <1>3, <1>5, UpdateType DEF ClaimNote
  <2>2. finished' = [finished EXCEPT ![x.event] = @ + 1] /\ queue' \subseteq queue
    BY <1>5 DEF ClaimNote
  <2>3. x.event \in Events
    BY DEF TypeOK, Entry
  <2>4. finished' \in [Events -> Nat]
    BY <2>2, <2>3 DEF TypeOK
  <2> QED BY <1>5, <2>1, <2>2, <2>4 DEF ClaimNote, TypeOK, TasksOK, Dispatching
<1>6. ASSUME NEW x \in queue, ClaimEntry(p, x)
      PROVE  TypeOK'
  <2>1. x \in Entry
    BY DEF TypeOK
  <2>2. TasksOK(task')
    <3> DEFINE new == [step |-> "spawning", entry |-> x, killed |-> FALSE, context |-> generation]
    <3>1. new \in Task /\ new.entry = x /\ task' = [task EXCEPT ![p] = new]
      BY <1>6, <2>1 DEF ClaimEntry, TypeOK, Task, Steps
    <3> QED BY <2>1, <3>1, UpdateType
  <2>3. activeEvent' \in Events
    BY <1>6, <2>1 DEF ClaimEntry, Entry
  <2> QED BY <1>6, <2>1, <2>2, <2>3 DEF ClaimEntry, TypeOK, TasksOK, Dispatching, history
<1>7. CASE ProcessStarts(p)
  <2>1. TasksOK(task')
    BY <1>1, <1>7 DEF ProcessStarts, TypeOK, TasksOK, Task, Steps, Dispatching
  <2> QED BY <1>7, <2>1 DEF ProcessStarts, TypeOK, TasksOK, Dispatching, files, history
<1>8. CASE DispatchCompletes(p)
  <2>1. TasksOK(task')
    BY <1>3, <1>8, UpdateType DEF DispatchCompletes
  <2> DEFINE e == task[p].entry.event
  <2>2. finished' = [finished EXCEPT ![e] = @ + 1] /\ processing' \subseteq processing
    BY <1>8 DEF DispatchCompletes
  <2>3. e \in Events
    BY <1>1, <1>8 DEF DispatchCompletes, Dispatching, Entry
  <2> HIDE DEF e
  <2>4. finished' \in [Events -> Nat]
    BY <2>2, <2>3 DEF TypeOK
  <2> QED BY <1>8, <2>1, <2>2, <2>4
          DEF DispatchCompletes, ClearDispatch, TypeOK, TasksOK, Dispatching
<1>9. CASE DispatchFails(p)
  <2> DEFINE x == task[p].entry
  <2>1. x \in Entry /\ [x EXCEPT !.attempts = @ + 1] \in Entry
    <3>1. x \in Entry
      BY <1>1, <1>9 DEF DispatchFails
    <3> HIDE DEF x
    <3> QED BY <3>1 DEF Entry
  <2>2. TasksOK(task')
    <3>1. PICK step \in {"claiming", "pausing"} :
              task' = [task EXCEPT ![p] = [Ended EXCEPT !.step = step]]
      BY <1>9 DEF DispatchFails
    <3> QED BY <1>3, <3>1, UpdateType
  <2>3. /\ queue' \subseteq queue \cup {[x EXCEPT !.attempts = @ + 1]}
        /\ failed' \subseteq failed \cup {x} /\ processing' \subseteq processing
        /\ process' = None /\ activeEvent' = None
        /\ UNCHANGED <<handled, counter, generation, up, current, clearing, history>>
    BY <1>9 DEF DispatchFails, ClearDispatch
  <2> HIDE DEF x
  <2> QED BY <2>1, <2>2, <2>3 DEF TypeOK, TasksOK, Dispatching, history
<1> QED BY <1>4, <1>5, <1>6, <1>7, <1>8, <1>9 DEF TaskStep

\* Going down and coming up again keeps the types.
LEMMA RestartType ==
    ASSUME TypeOK, GoDown \/ OnStart
    PROVE  TypeOK'
<1>1. CASE GoDown
  <2>1. GoneDown /\ UNCHANGED <<files, finished, withdrawn, stopped, deliveries>>
    BY <1>1 DEF GoDown
  <2> QED BY <2>1, DownType DEF TypeOK, TasksOK, NotClearing, Dispatching, files
<1>2. CASE OnStart
  <2>1. ScheduleProcessor(task) \/ UNCHANGED <<task, current>>
    BY <1>2 DEF OnStart
  <2>2. TasksOK(task)
    BY DEF TypeOK, TasksOK, Dispatching
  <2>3. TasksOK(task') /\ current' \in Processors \cup {None}
    BY <2>1, <2>2, ScheduleType DEF TypeOK
  <2> QED BY <1>2, <2>3 DEF OnStart, TypeOK, TasksOK, Dispatching, files, history
<1> QED BY <1>1, <1>2

\* The variables keep their types in every behaviour.
THEOREM MuxTypeCorrect == Spec => []TypeOK
<1>1. Init => TypeOK
  BY DEF Init, TypeOK, Ended, Task, Steps, NotClearing, Dispatching
<1>2. TypeOK /\ [Next]_vars => TypeOK'
  <2> SUFFICES ASSUME TypeOK, [Next]_vars PROVE TypeOK'
    OBVIOUS
  <2>1. CASE UNCHANGED vars
    BY <2>1 DEF vars, files, memory, history, TypeOK, Dispatching
  <2>2. CASE Next
    BY <2>2, HandlerType, ClearType, TaskType, RestartType DEF Next
  <2> QED BY <2>1, <2>2
<1> QED BY <1>1, <1>2, PTL DEF Spec
-----------------------------------------------------------------------------
(***************************************************************************)
(* What has been handled is kept.                                          *)
(***************************************************************************)

\* The entries of the three directories.
Entries == queue \cup processing \cup failed

\* The event has been dealt with: there need be no file of it.
Over(e) == e \in withdrawn \/ finished[e] > 0

\* A step that adds to the handled events only what has an entry, and removes an
\* entry only for good, keeps what has been handled.
LEMMA KeptFrame ==
    ASSUME HandledIsKept, TypeOK,
           \A e \in handled' \ handled : e \in EventsIn(Entries'),
           \A x \in Entries : x.event \in EventsIn(Entries') \/ Over(x.event)',
           \A e \in Events : Over(e) => Over(e)'
    PROVE  HandledIsKept'
<1> SUFFICES ASSUME NEW e \in handled'
             PROVE  e \in EventsIn(Entries') \/ Over(e)'
  BY DEF HandledIsKept, Over, Entries, EventsIn
<1>1. CASE e \notin handled
  BY <1>1
<1>2. CASE e \in handled
  <2>1. e \in EventsIn(Entries) \/ Over(e)
    BY <1>2 DEF HandledIsKept, Over, Entries
  <2>2. CASE e \in EventsIn(Entries)
    BY <2>2 DEF EventsIn
  <2>3. CASE Over(e)
    BY <1>2, <2>3 DEF TypeOK
  <2> QED BY <2>1, <2>2, <2>3
<1> QED BY <1>1, <1>2

\* One more completion of an event is over, and none is taken back.
LEMMA FinishedGrows ==
    ASSUME TypeOK, NEW x \in Entry, finished' = [finished EXCEPT ![x.event] = @ + 1],
           withdrawn' = withdrawn
    PROVE  Over(x.event)' /\ \A e \in Events : Over(e) => Over(e)'
<1>1. x.event \in Events
  BY DEF Entry
<1>2. \A e \in Events : finished[e] \in Nat
  BY DEF TypeOK
<1>3. finished'[x.event] = finished[x.event] + 1
  BY <1>1 DEF TypeOK
<1>4. \A e \in Events : finished'[e] >= finished[e]
  BY <1>1, <1>2 DEF TypeOK
<1> QED BY <1>1, <1>2, <1>3, <1>4 DEF Over

\* Every step keeps what has been handled.
LEMMA KeptStep ==
    ASSUME TypeOK, HandledIsKept, [Next]_vars
    PROVE  HandledIsKept'
<1>1. CASE UNCHANGED <<queue, processing, failed, handled, finished, withdrawn>>
  BY <1>1 DEF HandledIsKept, EventsIn
<1>2. ASSUME NEW batch \in Batches, HandleEvents(batch)
      PROVE  HandledIsKept'
  <2> DEFINE fresh == Fresh(batch)
  <2>1. /\ queue' = queue \cup QueueFiles(batch, fresh)
        /\ handled' = handled \cup EventsAt(batch, fresh)
        /\ UNCHANGED <<processing, failed, finished, withdrawn>>
    BY <1>2 DEF HandleEvents
  <2>2. ASSUME NEW i \in fresh PROVE \E x \in QueueFiles(batch, fresh) : x.event = batch[i]
    <3> DEFINE x == [id |-> counter + Place(i, fresh), event |-> batch[i], attempts |-> 0]
    <3>1. x \in QueueFiles(batch, fresh)
      BY DEF QueueFiles
    <3>2. x.event = batch[i]
      OBVIOUS
    <3> QED BY <3>1, <3>2
  <2> HIDE DEF fresh
  <2>3. \A e \in handled' \ handled : e \in EventsIn(Entries')
    BY <2>1, <2>2 DEF EventsAt, EventsIn, Entries
  <2> QED BY <2>1, <2>3, KeptFrame DEF Entries, EventsIn, Over
<1>3. ASSUME NEW thread, NEW parent, Stop(thread, parent)
      PROVE  HandledIsKept'
  <2>1. PICK cleared \in SUBSET queue :
            queue' = queue \ cleared /\ withdrawn' = withdrawn \cup EventsIn(cleared)
    BY <1>3 DEF Stop
  <2>2. UNCHANGED <<processing, failed, handled, finished>>
    BY <1>3 DEF Stop
  <2> QED BY <2>1, <2>2, KeptFrame DEF Entries, EventsIn, Over
<1>4. ASSUME NEW batch \in Batches, NEW n \in 1..MaxBatch, CrashWhileQueueing(batch, n)
      PROVE  HandledIsKept'
  <2>1. queue \subseteq queue' /\ UNCHANGED <<processing, failed, handled, finished, withdrawn>>
    BY <1>4 DEF CrashWhileQueueing
  <2> QED BY <2>1, KeptFrame DEF Entries, EventsIn, Over
<1>5. CASE EmptyQueue
  <2>1. /\ withdrawn' = withdrawn \cup EventsIn(queue \cup processing)
        /\ UNCHANGED <<failed, handled, finished>>
    BY <1>5 DEF EmptyQueue
  <2> QED BY <2>1, KeptFrame DEF Entries, EventsIn, Over
<1>6. ASSUME NEW p \in Processors, NEW x \in queue, ClaimNote(p, x)
      PROVE  HandledIsKept'
  <2>1. /\ queue' = queue \ {x} /\ UNCHANGED <<processing, failed, handled, withdrawn>>
        /\ finished' = [finished EXCEPT ![x.event] = @ + 1]
    BY <1>6 DEF ClaimNote
  <2>2. x \in Entry
    BY DEF TypeOK
  <2> QED BY <2>1, <2>2, FinishedGrows, KeptFrame DEF Entries, EventsIn
<1>7. ASSUME NEW p \in Processors, NEW x \in queue, ClaimEntry(p, x)
      PROVE  HandledIsKept'
  <2>1. /\ queue' = queue \ {x} /\ processing' = processing \cup {x}
        /\ UNCHANGED <<failed, handled, finished, withdrawn>>
    BY <1>7 DEF ClaimEntry, history
  <2> QED BY <2>1, KeptFrame DEF Entries, EventsIn, Over
<1>8. ASSUME NEW p \in Processors, DispatchCompletes(p)
      PROVE  HandledIsKept'
  <2> DEFINE x == task[p].entry
  <2>1. /\ processing' = processing \ {x} /\ UNCHANGED <<queue, failed, handled, withdrawn>>
        /\ finished' = [finished EXCEPT ![x.event] = @ + 1]
    BY <1>8 DEF DispatchCompletes
  <2>2. x \in Entry
    BY <1>8 DEF TypeOK, DispatchCompletes, Dispatching
  <2> HIDE DEF x
  <2> QED BY <2>1, <2>2, FinishedGrows, KeptFrame DEF Entries, EventsIn
<1>9. ASSUME NEW p \in Processors, DispatchFails(p)
      PROVE  HandledIsKept'
  <2> DEFINE x == task[p].entry
             again == [x EXCEPT !.attempts = @ + 1]
  <2>1. x \in Entry
    BY <1>9 DEF TypeOK, DispatchFails
  <2>2. /\ processing' = processing \ {x}
        /\ \/ failed' = failed \cup {x} /\ queue' = queue
           \/ queue' = queue \cup {again} /\ failed' = failed
        /\ UNCHANGED <<handled, finished, withdrawn>>
    BY <1>9 DEF DispatchFails, history
  <2> HIDE DEF x
  <2>3. again.event = x.event
    BY <2>1 DEF Entry
  <2> HIDE DEF again
  <2> QED BY <2>2, <2>3, KeptFrame DEF Entries, EventsIn, Over
<1>10. ASSUME NEW p \in Processors, FindNothing(p) \/ ProcessStarts(p) \/ CancelledTask(p)
       PROVE  HandledIsKept'
  BY <1>1, <1>10 DEF FindNothing, ProcessStarts, CancelledTask, files, history
<1>11. CASE (BeginClear /\ ~EmptyQueue) \/ GoDown \/ OnStart \/ UNCHANGED vars
  BY <1>1, <1>11 DEF BeginClear, GoDown, OnStart, vars, files, history
<1> QED BY <1>2, <1>3, <1>4, <1>5, <1>6, <1>7, <1>8, <1>9, <1>10, <1>11
        DEF Next, ClearStep, FinishClear, TaskStep

\* An event that a redelivery would be answered "duplicate" for has a file or has
\* been dealt with, wherever the runtime went down, was stopped or was cleared.
THEOREM HandledEventsAreKept == Spec => []HandledIsKept
<1>1. Init => HandledIsKept
  BY DEF Init, HandledIsKept
<1>2. TypeOK /\ HandledIsKept /\ [Next]_vars => HandledIsKept'
  BY KeptStep
<1> QED BY <1>1, <1>2, MuxTypeCorrect, PTL DEF Spec
-----------------------------------------------------------------------------
(***************************************************************************)
(* What the steps do to the tasks they do not move.                        *)
(***************************************************************************)
Same(q) ==
    /\ task'[q].step = task[q].step
    /\ task'[q].entry = task[q].entry
    /\ task'[q].context = task[q].context

Woken(q) == task[q].step = "ended" /\ task'[q].step = "scheduled" /\ current' = q

\* Killing the process of a dispatch leaves the dispatch to notice it.
LEMMA InterruptedSame ==
    ASSUME TypeOK
    PROVE  \A q \in Processors :
              /\ Interrupted(task)[q].step = task[q].step
              /\ Interrupted(task)[q].entry = task[q].entry
              /\ Interrupted(task)[q].context = task[q].context
<1> TAKE q \in Processors
<1>1. CASE process = None
  BY <1>1 DEF Interrupted
<1>2. CASE process # None
  <2>1. process \in Processors /\ task \in [Processors -> Task]
    BY <1>2 DEF TypeOK
  <2>2. CASE q = process
    <3>1. Interrupted(task)[q] = [task[q] EXCEPT !.killed = TRUE]
      BY <1>2, <2>1, <2>2 DEF Interrupted
    <3>2. task[q] \in Task
      BY <2>1
    <3> QED BY <3>1, <3>2 DEF Task
  <2>3. CASE q # process
    BY <1>2, <2>1, <2>3 DEF Interrupted
  <2> QED BY <2>2, <2>3
<1> QED BY <1>1, <1>2

\* schedule_processor wakes a task that has ended, unless the current one lives.
LEMMA ScheduleWakes ==
    ASSUME TypeOK, NEW tasks, TasksOK(tasks), ScheduleProcessor(tasks)
    PROVE  /\ current' \in Processors /\ task'[current'].step # "ended"
           /\ \A q \in Processors :
                 \/ task'[q] = tasks[q]
                 \/ tasks[q].step = "ended" /\ task'[q].step = "scheduled" /\ current' = q
           /\ \/ current' = current
              \/ /\ current = None \/ tasks[current].step = "ended"
                 /\ task'[current'].step = "scheduled"
<1>1. /\ [Ended EXCEPT !.step = "scheduled"] \in Task
      /\ [Ended EXCEPT !.step = "scheduled"].step = "scheduled"
  BY IdleType DEF Steps
<1>2. CASE current # None /\ tasks[current].step # "ended"
  BY <1>2 DEF ScheduleProcessor, TypeOK
<1>3. CASE ~(current # None /\ tasks[current].step # "ended")
  <2>1. PICK p \in Processors :
            /\ tasks[p].step = "ended"
            /\ task' = [tasks EXCEPT ![p] = [Ended EXCEPT !.step = "scheduled"]]
            /\ current' = p
    BY <1>3 DEF ScheduleProcessor
  <2> QED BY <1>1, <1>3, <2>1 DEF TasksOK
<1> QED BY <1>2, <1>3

\* The handlers of deliveries, of /stop and of the start leave the tasks to go
\* on, and wake at most one, which is then the current one.
LEMMA HandlersKeepTasks ==
    ASSUME TypeOK,
           \/ \E batch \in Batches : HandleEvents(batch)
           \/ \E thread, parent \in Threads \cup {None} : Stop(thread, parent)
           \/ OnStart
    PROVE  /\ \A q \in Processors : Same(q) \/ Woken(q)
           /\ \/ current' = current
              \/ /\ current = None \/ task[current].step = "ended"
                 /\ current' \in Processors /\ task'[current'].step = "scheduled"
<1>1. TasksOK(task) /\ TasksOK(Interrupted(task))
  BY InterruptedType DEF TypeOK, TasksOK, Dispatching
<1>2. PICK tasks \in {task, Interrupted(task)} :
          \/ task' = tasks /\ current' = current
          \/ ScheduleProcessor(tasks)
  BY DEF HandleEvents, Stop, OnStart
<1>3. /\ TasksOK(tasks)
      /\ \A q \in Processors : /\ tasks[q].step = task[q].step
                               /\ tasks[q].entry = task[q].entry
                               /\ tasks[q].context = task[q].context
  BY <1>1, InterruptedSame
<1>4. current # None => current \in Processors
  BY DEF TypeOK
<1> QED BY <1>2, <1>3, <1>4, ScheduleWakes DEF Same, Woken

\* When the runtime goes down every task is gone.
LEMMA DownEndsTasks ==
    ASSUME GoneDown
    PROVE  \A q \in Processors : task'[q].step = "ended" /\ ~Dispatching(q)'
<1>1. Ended.step = "ended"
  BY DEF Ended
<1> QED BY <1>1 DEF GoneDown, Dispatching

\* A step of a task, or its cancellation, leaves the other tasks alone.
LEMMA OthersKeepTasks ==
    ASSUME TypeOK, NEW p \in Processors, TaskStep(p) \/ CancelledTask(p)
    PROVE  \A q \in Processors \ {p} : task'[q] = task[q]
BY DEF TypeOK, TaskStep, FindNothing, ClaimNote, ClaimEntry, ProcessStarts, DispatchCompletes,
       DispatchFails, CancelledTask

\* The steps a task is in after it has moved.
LEMMA NextStep ==
    ASSUME TypeOK, NEW p \in Processors
    PROVE  /\ FindNothing(p) \/ CancelledTask(p) => task'[p].step = "ended"
           /\ (\E x \in queue : ClaimNote(p, x)) \/ DispatchCompletes(p) => task'[p].step = "claiming"
           /\ DispatchFails(p) => task'[p].step \in {"claiming", "pausing"}
           /\ \A x \in queue : ClaimEntry(p, x) =>
                 /\ task'[p].step = "spawning" /\ task'[p].entry = x
                 /\ task'[p].context = generation /\ ~Dispatching(p)
           /\ ProcessStarts(p) =>
                 /\ task'[p].step = "running" /\ task'[p].entry = task[p].entry
                 /\ task'[p].context = task[p].context /\ Dispatching(p)
<1> USE DEF TypeOK
<1>1. task \in [Processors -> Task] /\ task[p] \in Task
  OBVIOUS
<1>2. Ended.step = "ended" /\ \A step \in Steps : [Ended EXCEPT !.step = step].step = step
  BY DEF Ended
<1>3. FindNothing(p) \/ CancelledTask(p) => task'[p].step = "ended"
  BY <1>1, <1>2 DEF FindNothing, CancelledTask
<1>4. (\E x \in queue : ClaimNote(p, x)) \/ DispatchCompletes(p) => task'[p].step = "claiming"
  BY <1>1, <1>2 DEF ClaimNote, DispatchCompletes, Steps
<1>5. DispatchFails(p) => task'[p].step \in {"claiming", "pausing"}
  <2> SUFFICES ASSUME DispatchFails(p)
               PROVE  task'[p].step \in {"claiming", "pausing"}
    OBVIOUS
  <2>1. PICK step \in {"claiming", "pausing"} :
            task' = [task EXCEPT ![p] = [Ended EXCEPT !.step = step]]
    BY DEF DispatchFails
  <2> QED BY <1>1, <1>2, <2>1 DEF Steps
<1>6. ASSUME NEW x \in queue, ClaimEntry(p, x)
      PROVE  /\ task'[p].step = "spawning" /\ task'[p].entry = x
             /\ task'[p].context = generation /\ ~Dispatching(p)
  BY <1>1, <1>6 DEF ClaimEntry, Runs, Dispatching
<1>7. ProcessStarts(p) =>
          /\ task'[p].step = "running" /\ task'[p].entry = task[p].entry
          /\ task'[p].context = task[p].context /\ Dispatching(p)
  BY <1>1 DEF ProcessStarts, Dispatching, Task
<1> QED BY <1>3, <1>4, <1>5, <1>6, <1>7
-----------------------------------------------------------------------------
(***************************************************************************)
(* No event waits unnoticed.                                               *)
(***************************************************************************)

\* The queue is watched after every step: what fills it schedules a task, and a
\* task ends only at an empty queue, or is replaced by what empties it.
LEMMA WatchedStep ==
    ASSUME TypeOK, QueueIsWatched, [Next]_vars
    PROVE  QueueIsWatched'
<1>1. ASSUME NEW batch \in Batches, HandleEvents(batch)
      PROVE  QueueIsWatched'
  <2> DEFINE interrupted == IF Range(batch) \cap Interrupting # {} THEN Interrupted(task) ELSE task
  <2>1. UNCHANGED <<up, clearing>> /\ queue' = queue \cup QueueFiles(batch, Fresh(batch))
    BY <1>1 DEF HandleEvents
  <2>2. CASE Fresh(batch) = {}
    <3>1. queue' = queue
      BY <2>1, <2>2 DEF QueueFiles
    <3>2. task' = interrupted /\ current' = current
      BY <1>1, <2>2 DEF HandleEvents
    <3>3. \A q \in Processors : task'[q].step = task[q].step
      BY <3>2, InterruptedSame
    <3> QED BY <2>1, <3>1, <3>3 DEF QueueIsWatched
  <2>3. CASE Fresh(batch) # {}
    <3>1. ScheduleProcessor(interrupted)
      BY <1>1, <2>3 DEF HandleEvents
    <3>2. TasksOK(interrupted)
      BY InterruptedType DEF TypeOK, TasksOK, Dispatching
    <3> QED BY <3>1, <3>2, ScheduleWakes DEF QueueIsWatched
  <2> QED BY <2>2, <2>3
<1>2. ASSUME NEW thread \in Threads \cup {None}, NEW parent \in Threads \cup {None},
             Stop(thread, parent)
      PROVE  QueueIsWatched'
  <2>1. \A q \in Processors : Same(q) \/ Woken(q)
    BY <1>2, HandlersKeepTasks
  <2>2. UNCHANGED <<up, clearing>> /\ queue' \subseteq queue
    BY <1>2 DEF Stop
  <2> QED BY <2>1, <2>2 DEF QueueIsWatched, Same, Woken
<1>3. ASSUME BeginClear \/ FinishClear
      PROVE  QueueIsWatched'
  <2>1. queue' = {} \/ clearing'.stage = "cancelling"
    BY <1>3 DEF BeginClear, FinishClear, EmptyQueue
  <2> QED BY <2>1 DEF QueueIsWatched, NotClearing
<1>4. ASSUME NEW p \in Processors, CancelledTask(p)
      PROVE  QueueIsWatched'
  <2>1. clearing'.stage = "ready"
    BY <1>4 DEF CancelledTask, TypeOK
  <2> QED BY <2>1 DEF QueueIsWatched, NotClearing
<1>5. ASSUME NEW p \in Processors, TaskStep(p)
      PROVE  QueueIsWatched'
  <2>1. CASE FindNothing(p)
    BY <2>1 DEF FindNothing, QueueIsWatched, files
  <2>2. CASE ~FindNothing(p)
    <3>1. task'[p].step # "ended"
      BY <1>5, <2>2, NextStep DEF TaskStep
    <3> QED BY <3>1 DEF QueueIsWatched
  <2> QED BY <2>1, <2>2
<1>6. ASSUME \/ GoDown
             \/ \E batch \in Batches, n \in 1..MaxBatch : CrashWhileQueueing(batch, n)
      PROVE  QueueIsWatched'
  BY <1>6, DownType DEF GoDown, CrashWhileQueueing, QueueIsWatched
<1>7. ASSUME OnStart
      PROVE  QueueIsWatched'
  <2>1. CASE queue = {}
    BY <1>7, <2>1 DEF OnStart, QueueIsWatched, files
  <2>2. CASE queue # {}
    <3>1. ScheduleProcessor(task)
      BY <1>7, <2>2 DEF OnStart
    <3>2. TasksOK(task)
      BY DEF TypeOK, TasksOK, Dispatching
    <3> QED BY <3>1, <3>2, ScheduleWakes DEF QueueIsWatched
  <2> QED BY <2>1, <2>2
<1>8. CASE UNCHANGED vars
  BY <1>8 DEF QueueIsWatched, vars, files, memory
<1> QED BY <1>1, <1>2, <1>3, <1>4, <1>5, <1>6, <1>7, <1>8 DEF Next, ClearStep

\* While the runtime is up and no context is being cleared there is a processor
\* task for what is queued, however deliveries, stops and failures interleave.
THEOREM QueuedEventsAreWatched == Spec => []QueueIsWatched
<1>1. Init => QueueIsWatched
  BY DEF Init, QueueIsWatched
<1>2. TypeOK /\ QueueIsWatched /\ [Next]_vars => QueueIsWatched'
  BY WatchedStep
<1> QED BY <1>1, <1>2, MuxTypeCorrect, PTL DEF Spec
-----------------------------------------------------------------------------
(***************************************************************************)
(* The current task dispatches in the current context.  clear_context      *)
(* cancels the task it finds, and nothing replaces that task until its     *)
(* cancellation has been awaited; what it finds ended it forgets.          *)
(***************************************************************************)
ContextInv ==
    /\ clearing.stage = "cancelling" =>
          clearing.target = current /\ task[current].step # "ended"
    /\ \A p \in Processors :
          p = current /\ Dispatching(p) /\ ~Cancelled(p) => task[p].context = generation

\* A step that wakes at most one task, and clears nothing.
LEMMA ContextFrame ==
    ASSUME TypeOK, ContextInv, UNCHANGED <<clearing, generation>>,
           \A q \in Processors : Same(q) \/ Woken(q),
           \/ current' = current
           \/ /\ current = None \/ task[current].step = "ended"
              /\ current' \in Processors /\ task'[current'].step = "scheduled"
    PROVE  ContextInv'
<1>1. ASSUME clearing.stage = "cancelling"
      PROVE  current' = current /\ current \in Processors /\ task'[current].step # "ended"
             /\ clearing.target = current
  <2>1. current \in Processors /\ task[current].step # "ended"
    BY <1>1, AgentMuxAssumption DEF ContextInv, TypeOK
  <2> QED BY <1>1, <2>1, AgentMuxAssumption DEF ContextInv, Same, Woken
<1>2. ASSUME NEW p \in Processors, p = current', Dispatching(p)', ~Cancelled(p)'
      PROVE  task'[p].context = generation'
  <2>1. Same(p) /\ Dispatching(p) /\ ~Cancelled(p)
    BY <1>2 DEF Same, Woken, Dispatching, Cancelled
  <2>2. p = current
    BY <1>2 DEF Dispatching
  <2> QED BY <2>1, <2>2 DEF ContextInv, Same
<1> QED BY <1>1, <1>2 DEF ContextInv

\* Every step keeps the current task in its context.
LEMMA ContextStep ==
    ASSUME TypeOK, ContextInv, [Next]_vars
    PROVE  ContextInv'
<1> USE AgentMuxAssumption
<1>1. ASSUME \/ \E batch \in Batches : HandleEvents(batch)
             \/ \E thread, parent \in Threads \cup {None} : Stop(thread, parent)
             \/ OnStart
      PROVE  ContextInv'
  <2>1. UNCHANGED <<clearing, generation>>
    BY <1>1 DEF HandleEvents, Stop, OnStart, files
  <2> QED BY <1>1, <2>1, HandlersKeepTasks, ContextFrame
<1>2. ASSUME BeginClear, EmptyQueue
      PROVE  ContextInv'
  BY <1>2 DEF EmptyQueue, NotClearing, ContextInv
<1>3. ASSUME BeginClear, ~EmptyQueue
      PROVE  ContextInv'
  <2>1. /\ clearing' = [stage |-> "cancelling", target |-> current] /\ current' = current
        /\ current \in Processors /\ task[current].step # "ended"
        /\ task' = Interrupted(task)
    BY <1>3 DEF BeginClear, TypeOK
  <2>2. task'[current].step # "ended"
    BY <2>1, InterruptedSame
  <2> QED BY <2>1, <2>2 DEF ContextInv, Cancelled
<1>4. ASSUME NEW p \in Processors, CancelledTask(p)
      PROVE  ContextInv'
  <2>1. task'[p].step = "ended" /\ \A q \in Processors \ {p} : task'[q] = task[q]
    BY <1>4, NextStep, OthersKeepTasks
  <2>2. clearing'.stage = "ready" /\ current = p
    BY <1>4 DEF CancelledTask, TypeOK, ContextInv
  <2>3. current' \in {None, p}
    BY <1>4, <2>2 DEF CancelledTask
  <2> QED BY <2>1, <2>2, <2>3 DEF ContextInv, Dispatching
<1>5. ASSUME FinishClear
      PROVE  ContextInv'
  BY <1>5 DEF FinishClear, EmptyQueue, NotClearing, ContextInv
<1>6. ASSUME NEW p \in Processors, TaskStep(p)
      PROVE  ContextInv'
  <2>1. ~Cancelled(p) /\ UNCHANGED <<clearing, generation>>
    BY <1>6 DEF TaskStep, FindNothing, ClaimNote, ClaimEntry, ProcessStarts, DispatchCompletes,
                DispatchFails, files
  <2>2. \A q \in Processors \ {p} : task'[q] = task[q]
    BY <1>6, OthersKeepTasks
  <2>3. current' = current \/ (current = p /\ current' = None)
    BY <1>6 DEF TaskStep, FindNothing, ClaimNote, ClaimEntry, ProcessStarts, DispatchCompletes,
                DispatchFails
  <2>4. clearing.stage = "cancelling" => current # p /\ current \in Processors
    BY <2>1 DEF Cancelled, ContextInv, TypeOK
  <2>5. Dispatching(p)' => \/ task'[p].context = generation
                           \/ Dispatching(p) /\ task'[p].context = task[p].context
    BY <1>6, NextStep DEF TaskStep, Dispatching
  <2>6. clearing'.stage = "cancelling" =>
            clearing'.target = current' /\ task'[current'].step # "ended"
    BY <2>1, <2>2, <2>3, <2>4 DEF ContextInv
  <2>7. ASSUME NEW q \in Processors, q = current', Dispatching(q)', ~Cancelled(q)'
        PROVE  task'[q].context = generation'
    <3>1. q = current /\ ~Cancelled(q)
      BY <2>1, <2>3, <2>7 DEF Cancelled
    <3>2. CASE q = p
      BY <2>1, <2>5, <2>7, <3>1, <3>2 DEF ContextInv
    <3>3. CASE q # p
      BY <2>1, <2>2, <2>7, <3>1, <3>3 DEF ContextInv, Dispatching
    <3> QED BY <3>2, <3>3
  <2> QED BY <2>6, <2>7 DEF ContextInv
<1>7. ASSUME \/ GoDown
             \/ \E batch \in Batches, n \in 1..MaxBatch : CrashWhileQueueing(batch, n)
      PROVE  ContextInv'
  <2>1. GoneDown
    BY <1>7 DEF GoDown, CrashWhileQueueing
  <2> QED BY <2>1, DownType, DownEndsTasks DEF ContextInv, NotClearing
<1>8. CASE UNCHANGED vars
  BY <1>8 DEF vars, files, memory, ContextInv, Cancelled, Dispatching
<1> QED BY <1>1, <1>2, <1>3, <1>4, <1>5, <1>6, <1>7, <1>8 DEF Next, ClearStep

\* The process of the current task never goes on under a context that a
\* /clear_context has replaced, wherever the requests fall between its steps.
THEOREM DispatchesInContext == Spec => []DispatchInContext
<1>1. Init => ContextInv
  BY DEF Init, ContextInv, NotClearing, Dispatching, Ended
<1>2. TypeOK /\ ContextInv /\ [Next]_vars => ContextInv'
  BY ContextStep
<1>3. ContextInv => DispatchInContext
  BY DEF ContextInv, DispatchInContext, Dispatching
<1> QED BY <1>1, <1>2, <1>3, MuxTypeCorrect, PTL DEF Spec
-----------------------------------------------------------------------------
(***************************************************************************)
(* A /stop for a thread reaches what is queued.                            *)
(***************************************************************************)
StoppedInv == \A e \in stopped : e \notin EventsIn(queue) /\ e \notin Dispatched

\* The event of a dispatch that goes on, or fails, was dispatched before.
LEMMA DispatchedKeeps ==
    ASSUME TypeOK, NEW q \in Processors, Dispatching(q)', Same(q)
    PROVE  task'[q].entry.event \in Dispatched
BY DEF Same, Dispatching, Dispatched

\* Nothing that is stopped is queued or dispatched after any step: what is
\* queued again was dispatched when its thread was stopped, or came later.
LEMMA StoppedStep ==
    ASSUME TypeOK, StoppedInv, [Next]_vars
    PROVE  StoppedInv'
<1> USE AgentMuxAssumption
<1>1. ASSUME Dispatched' \subseteq Dispatched, stopped' \subseteq stopped,
             EventsIn(queue') \subseteq EventsIn(queue) \cup Dispatched
      PROVE  StoppedInv'
  BY <1>1 DEF StoppedInv
<1>2. ASSUME \A q \in Processors : Same(q) \/ ~Dispatching(q)'
      PROVE  Dispatched' \subseteq Dispatched
  BY <1>2 DEF Same, Dispatched, Dispatching
<1>3. ASSUME NEW batch \in Batches, NEW fresh, fresh \subseteq DOMAIN batch,
             queue' = queue \cup QueueFiles(batch, fresh),
             stopped' = stopped \ EventsAt(batch, fresh),
             \A q \in Processors : Same(q) \/ ~Dispatching(q)'
      PROVE  StoppedInv'
  <2>1. \A x \in QueueFiles(batch, fresh) : x.event \in EventsAt(batch, fresh)
    BY DEF QueueFiles, EventsAt
  <2> QED BY <1>2, <1>3, <2>1 DEF StoppedInv, EventsIn
<1>4. ASSUME NEW batch \in Batches, HandleEvents(batch)
      PROVE  StoppedInv'
  <2>1. \A q \in Processors : Same(q) \/ ~Dispatching(q)'
    BY <1>4, HandlersKeepTasks DEF Woken, Dispatching
  <2>2. Fresh(batch) \subseteq DOMAIN batch
    BY DEF Fresh
  <2> QED BY <1>3, <1>4, <2>1, <2>2 DEF HandleEvents
<1>5. ASSUME NEW batch \in Batches, NEW n \in 1..MaxBatch, CrashWhileQueueing(batch, n)
      PROVE  StoppedInv'
  <2> DEFINE written == {i \in Fresh(batch) : Place(i, Fresh(batch)) <= n}
  <2>1. written \subseteq DOMAIN batch
    BY DEF Fresh
  <2>2. GoneDown /\ queue' = queue \cup QueueFiles(batch, written)
        /\ stopped' = stopped \ EventsAt(batch, written)
    BY <1>5 DEF CrashWhileQueueing
  <2> HIDE DEF written
  <2> QED BY <1>3, <2>1, <2>2, DownEndsTasks
<1>6. ASSUME NEW thread \in Threads \cup {None}, NEW parent \in Threads \cup {None},
             Stop(thread, parent)
      PROVE  StoppedInv'
  <2>1. \A q \in Processors : Same(q) \/ ~Dispatching(q)'
    BY <1>6, HandlersKeepTasks DEF Woken, Dispatching
  <2>2. queue' \subseteq queue
        /\ stopped' = stopped \cup {e \in Events \ Dispatched : ThreadOf[e] = thread}
    BY <1>6 DEF Stop
  <2>3. ASSUME NEW x \in queue', ThreadOf[x.event] = thread
        PROVE  FALSE
    <3>1. x \in queue /\ ThreadOf[x.event] \in Threads
      BY <2>2 DEF TypeOK, Entry
    <3>2. thread # None
      BY <2>3, <3>1
    <3>3. parent # None => parent = ParentOf[thread]
      BY <1>6, <3>2 DEF Stop
    <3>4. MatchesFields(x.event, thread, parent)
      BY <2>3, <3>3 DEF MatchesFields
    <3>5. queue' = queue \ {y \in queue : MatchesFields(y.event, thread, parent)}
      BY <1>6, <3>2 DEF Stop
    <3> QED BY <3>1, <3>4, <3>5
  <2>4. ASSUME NEW e \in stopped'
        PROVE  e \notin EventsIn(queue') /\ e \notin Dispatched
    BY <2>2, <2>3 DEF StoppedInv, EventsIn
  <2> QED BY <1>2, <2>1, <2>4 DEF StoppedInv
<1>7. ASSUME BeginClear \/ FinishClear
      PROVE  StoppedInv'
  <2>1. queue' \subseteq queue /\ stopped' = stopped
    BY <1>7 DEF BeginClear, FinishClear, EmptyQueue, history
  <2>2. \A q \in Processors : Same(q)
    BY <1>7, InterruptedSame DEF BeginClear, FinishClear, Same
  <2> QED BY <1>1, <1>2, <2>1, <2>2 DEF EventsIn
<1>8. ASSUME NEW p \in Processors, FindNothing(p) \/ CancelledTask(p) \/ ProcessStarts(p)
                                   \/ DispatchCompletes(p)
      PROVE  StoppedInv'
  <2>1. \A q \in Processors \ {p} : Same(q)
    BY <1>8, OthersKeepTasks DEF TaskStep, Same
  <2>2. UNCHANGED <<queue, stopped>>
    BY <1>8 DEF FindNothing, CancelledTask, ProcessStarts, DispatchCompletes, files, history
  <2>3. Dispatching(p)' => task'[p].entry = task[p].entry /\ Dispatching(p)
    BY <1>8, NextStep DEF Dispatching
  <2>4. Dispatched' \subseteq Dispatched
    BY <2>1, <2>3 DEF Dispatched, Dispatching, Same
  <2> QED BY <1>1, <2>2, <2>4
<1>9. ASSUME NEW p \in Processors, NEW x \in queue, ClaimNote(p, x)
      PROVE  StoppedInv'
  <2>1. \A q \in Processors : Same(q) \/ ~Dispatching(q)'
    BY <1>9, OthersKeepTasks, NextStep DEF TaskStep, Same, Dispatching
  <2>2. queue' \subseteq queue /\ stopped' = stopped
    BY <1>9 DEF ClaimNote
  <2> QED BY <1>1, <1>2, <2>1, <2>2 DEF EventsIn
<1>10. ASSUME NEW p \in Processors, NEW x \in queue, ClaimEntry(p, x)
       PROVE  StoppedInv'
  <2>1. \A q \in Processors \ {p} : Same(q)
    BY <1>10, OthersKeepTasks DEF TaskStep, Same
  <2>2. queue' \subseteq queue /\ stopped' = stopped /\ task'[p].entry = x
    BY <1>10, NextStep DEF ClaimEntry, history
  <2>3. Dispatched' \subseteq Dispatched \cup {x.event}
    BY <2>1, <2>2 DEF Dispatched, Dispatching, Same
  <2> QED BY <2>2, <2>3 DEF StoppedInv, EventsIn
<1>11. ASSUME NEW p \in Processors, DispatchFails(p)
       PROVE  StoppedInv'
  <2>1. \A q \in Processors : Same(q) \/ ~Dispatching(q)'
    BY <1>11, OthersKeepTasks, NextStep DEF TaskStep, Same, Dispatching
  <2> DEFINE x == task[p].entry
             again == [x EXCEPT !.attempts = @ + 1]
  <2>2. queue' \subseteq queue \cup {again} /\ stopped' = stopped
    BY <1>11 DEF DispatchFails, history
  <2>3. x \in Entry /\ x.event \in Dispatched
    BY <1>11 DEF DispatchFails, TypeOK, Dispatched
  <2> HIDE DEF x
  <2>4. again.event \in Dispatched
    BY <2>3 DEF Entry
  <2> HIDE DEF again
  <2>5. EventsIn(queue') \subseteq EventsIn(queue) \cup Dispatched
    BY <2>2, <2>4 DEF EventsIn
  <2> QED BY <1>1, <1>2, <2>1, <2>2, <2>5
<1>12. ASSUME GoDown
       PROVE  StoppedInv'
  <2>1. UNCHANGED <<queue, stopped>> /\ \A q \in Processors : ~Dispatching(q)'
    BY <1>12, DownEndsTasks DEF GoDown, files
  <2> QED BY <1>1, <1>2, <2>1
<1>13. ASSUME OnStart
       PROVE  StoppedInv'
  <2>1. \A q \in Processors : Same(q) \/ ~Dispatching(q)'
    BY <1>13, HandlersKeepTasks DEF Woken, Dispatching
  <2>2. UNCHANGED <<queue, stopped>>
    BY <1>13 DEF OnStart, files, history
  <2> QED BY <1>1, <1>2, <2>1, <2>2
<1>14. CASE UNCHANGED vars
  BY <1>14 DEF vars, files, memory, history, StoppedInv, Dispatched, Dispatching, EventsIn
<1> QED BY <1>4, <1>5, <1>6, <1>7, <1>8, <1>9, <1>10, <1>11, <1>12, <1>13, <1>14
        DEF Next, ClearStep, TaskStep

\* After a /stop for a thread no event of it that was queued is taken up, unless
\* it is delivered again.
THEOREM StopsReachTheQueue == Spec => StopEmptiesQueue
<1>1. Init => StoppedInv
  BY DEF Init, StoppedInv
<1>2. TypeOK /\ StoppedInv /\ [Next]_vars => StoppedInv'
  BY StoppedStep
<1>3. TypeOK /\ StoppedInv /\ [Next]_vars =>
          [\A p \in Processors :
              Dispatching(p)' /\ ~Dispatching(p) => task'[p].entry.event \notin stopped]_vars
  <2> SUFFICES ASSUME TypeOK, StoppedInv, [Next]_vars,
                      NEW p \in Processors, Dispatching(p)', ~Dispatching(p)
               PROVE  task'[p].entry.event \notin stopped \/ UNCHANGED vars
    OBVIOUS
  <2>1. ASSUME NEW q \in Processors, TaskStep(q)
        PROVE  task'[p].entry.event \notin stopped
    <3>1. q = p
      BY <2>1, OthersKeepTasks DEF Dispatching
    <3>2. \E x \in queue : ClaimEntry(p, x)
      BY <2>1, <3>1, NextStep DEF TaskStep, Dispatching
    <3>3. task'[p].entry \in queue
      BY <3>2, NextStep
    <3> QED BY <3>3 DEF StoppedInv, EventsIn
  <2>2. ASSUME \/ \E batch \in Batches : HandleEvents(batch)
               \/ \E thread, parent \in Threads \cup {None} : Stop(thread, parent)
               \/ OnStart
        PROVE  FALSE
    BY <2>2, HandlersKeepTasks DEF Same, Woken, Dispatching
  <2>3. ASSUME BeginClear \/ ClearStep
        PROVE  FALSE
    BY <2>3, InterruptedSame, OthersKeepTasks, NextStep
       DEF BeginClear, ClearStep, FinishClear, Dispatching
  <2>4. ASSUME \/ GoDown
               \/ \E batch \in Batches, n \in 1..MaxBatch : CrashWhileQueueing(batch, n)
        PROVE  FALSE
    BY <2>4, DownEndsTasks DEF GoDown, CrashWhileQueueing
  <2> QED BY <2>1, <2>2, <2>3, <2>4 DEF Next
<1> QED BY <1>1, <1>2, <1>3, MuxTypeCorrect, PTL DEF Spec, StopEmptiesQueue
-----------------------------------------------------------------------------
(***************************************************************************)
(* Queue numbers.  The entries that are queued or dispatched have numbers  *)
(* of their own, up to the counter.                                        *)
(***************************************************************************)
IdsInv ==
    /\ \A x \in queue : x.id <= counter
    /\ \A x, y \in queue : x.id = y.id => x = y
    /\ \A p \in Processors : Dispatching(p) =>
          /\ task[p].entry.id <= counter
          /\ \A x \in queue : x.id # task[p].entry.id
          /\ \A q \in Processors \ {p} : Dispatching(q) => task[q].entry.id # task[p].entry.id

\* A dispatch that is there after the step was there before it.
Keeps(q) ==
    Dispatching(q)' =>
        /\ Dispatching(q)
        /\ task'[q].entry = task[q].entry
        /\ task'[q].context = task[q].context

\* A dispatch begins by claiming an entry, and in no other way.
LEMMA OnlyClaimsDispatch ==
    ASSUME TypeOK, [Next]_vars,
           ~ \E p \in Processors : \E x \in queue : ClaimEntry(p, x)
    PROVE  \A q \in Processors : Keeps(q)
<1>1. ASSUME \/ \E batch \in Batches : HandleEvents(batch)
             \/ \E thread, parent \in Threads \cup {None} : Stop(thread, parent)
             \/ OnStart
      PROVE  \A q \in Processors : Keeps(q)
  BY <1>1, HandlersKeepTasks DEF Keeps, Same, Woken, Dispatching
<1>2. ASSUME BeginClear \/ FinishClear
      PROVE  \A q \in Processors : Keeps(q)
  BY <1>2, InterruptedSame DEF BeginClear, FinishClear, Keeps, Dispatching
<1>3. ASSUME NEW p \in Processors, TaskStep(p) \/ CancelledTask(p)
      PROVE  \A q \in Processors : Keeps(q)
  <2>1. \A q \in Processors \ {p} : task'[q] = task[q]
    BY <1>3, OthersKeepTasks
  <2>2. Keeps(p)
    BY <1>3, NextStep DEF TaskStep, Keeps, Dispatching
  <2> QED BY <2>1, <2>2 DEF Keeps, Dispatching
<1>4. ASSUME GoneDown
      PROVE  \A q \in Processors : Keeps(q)
  BY <1>4, DownEndsTasks DEF Keeps
<1>5. CASE UNCHANGED vars
  BY <1>5 DEF vars, memory, Keeps, Dispatching
<1> QED BY <1>1, <1>2, <1>3, <1>4, <1>5 DEF Next, ClearStep, GoDown, CrashWhileQueueing

\* The places of a delivery's entries: from one up, and in their order.
LEMMA PlaceOrder ==
    ASSUME NEW batch \in Batches, NEW positions, positions \subseteq DOMAIN batch,
           NEW i \in positions
    PROVE  /\ Place(i, positions) \in 1..Cardinality(positions)
           /\ \A j \in positions : i < j => Place(i, positions) < Place(j, positions)
           /\ \A larger : positions \subseteq larger /\ larger \subseteq DOMAIN batch =>
                 Place(i, positions) <= Place(i, larger)
<1>1. IsFiniteSet(positions) /\ positions \subseteq Int
  BY PositionsFinite
<1> DEFINE upTo(j, set) == {k \in set : k <= j}
<1>2. \A j \in positions : IsFiniteSet(upTo(j, positions)) /\ Place(j, positions) \in Nat
                           /\ Place(j, positions) <= Cardinality(positions)
  <2> TAKE j \in positions
  <2>1. IsFiniteSet(upTo(j, positions)) /\ Cardinality(upTo(j, positions)) <= Cardinality(positions)
    BY <1>1, FS_Subset
  <2> QED BY <2>1, FS_CardinalityType DEF Place
<1>3. Place(i, positions) # 0
  BY <1>1, <1>2, FS_EmptySet DEF Place
<1>4. ASSUME NEW j \in positions, i < j
      PROVE  Place(i, positions) < Place(j, positions)
  <2>1. upTo(i, positions) \subseteq upTo(j, positions) /\ j \in upTo(j, positions)
        /\ j \notin upTo(i, positions)
    BY <1>1, <1>4
  <2> HIDE DEF upTo
  <2>2. /\ Cardinality(upTo(i, positions)) <= Cardinality(upTo(j, positions))
        /\ Cardinality(upTo(i, positions)) # Cardinality(upTo(j, positions))
    BY <1>2, <2>1, FS_Subset
  <2>3. /\ Place(i, positions) = Cardinality(upTo(i, positions))
        /\ Place(j, positions) = Cardinality(upTo(j, positions))
    BY DEF Place, upTo
  <2> QED BY <1>2, <2>2, <2>3
<1>5. ASSUME NEW larger, positions \subseteq larger, larger \subseteq DOMAIN batch
      PROVE  Place(i, positions) <= Place(i, larger)
  <2>1. IsFiniteSet(upTo(i, larger)) /\ upTo(i, positions) \subseteq upTo(i, larger)
    <3>1. IsFiniteSet(larger)
      BY <1>5, PositionsFinite
    <3> QED BY <1>5, <3>1, FS_Subset
  <2> QED BY <2>1, FS_Subset DEF Place
<1>6. Place(i, positions) \in 1..Cardinality(positions)
  <2>1. Cardinality(positions) \in Nat
    BY <1>1, FS_CardinalityType
  <2>2. Place(i, positions) \in Nat /\ Place(i, positions) <= Cardinality(positions)
    BY <1>2
  <2> HIDE DEF upTo
  <2> QED BY <1>3, <2>1, <2>2
<1>7. \A larger : positions \subseteq larger /\ larger \subseteq DOMAIN batch =>
          Place(i, positions) <= Place(i, larger)
  BY <1>5
<1> QED BY <1>4, <1>6, <1>7

\* The entries of a delivery: numbered anew, and one for each event.
LEMMA NewFiles ==
    ASSUME TypeOK, NEW batch \in Batches, NEW positions, positions \subseteq DOMAIN batch,
           NEW n \in Nat, \A i \in positions : Place(i, positions) <= n
    PROVE  /\ \A x \in QueueFiles(batch, positions) : x.id > counter /\ x.id <= counter + n
           /\ \A x, y \in QueueFiles(batch, positions) : x.id = y.id => x = y
           /\ \A x, y \in QueueFiles(batch, positions) : x.event = y.event => x = y
           /\ \A x \in QueueFiles(batch, positions) : x.event \in EventsAt(batch, positions)
<1> DEFINE file(i) == [id |-> counter + Place(i, positions), event |-> batch[i], attempts |-> 0]
<1>1. \A i \in positions : /\ file(i).id = counter + Place(i, positions)
                           /\ file(i).event = batch[i]
  OBVIOUS
<1>2. QueueFiles(batch, positions) = {file(i) : i \in positions}
  BY DEF QueueFiles
<1> HIDE DEF file
<1>3. \A i \in positions : Place(i, positions) \in Nat /\ Place(i, positions) > 0
  BY PlaceOrder, PositionsFinite
<1>4. counter \in Nat /\ positions \subseteq Int
  BY PositionsFinite DEF TypeOK
<1>5. \A i, j \in positions : Place(i, positions) = Place(j, positions) => i = j
  <2> SUFFICES ASSUME NEW i \in positions, NEW j \in positions,
                      Place(i, positions) = Place(j, positions), i # j
               PROVE  FALSE
    OBVIOUS
  <2>1. i < j \/ j < i
    BY <1>4
  <2>2. /\ i < j => Place(i, positions) < Place(j, positions)
        /\ j < i => Place(j, positions) < Place(i, positions)
    BY PlaceOrder
  <2> QED BY <1>3, <2>1, <2>2
<1>6. \A i, j \in positions : batch[i] = batch[j] => i = j
  BY DEF Batches, IsInjective
<1>7. \A x \in QueueFiles(batch, positions) : x.id > counter /\ x.id <= counter + n
  BY <1>1, <1>2, <1>3, <1>4
<1>8. \A x, y \in QueueFiles(batch, positions) : x.id = y.id => x = y
  BY <1>1, <1>2, <1>3, <1>4, <1>5
<1>9. \A x, y \in QueueFiles(batch, positions) : x.event = y.event => x = y
  BY <1>1, <1>2, <1>6
<1>10. \A x \in QueueFiles(batch, positions) : x.event \in EventsAt(batch, positions)
  BY <1>1, <1>2 DEF EventsAt
<1> QED BY <1>7, <1>8, <1>9, <1>10

\* What a delivery queues, whether it is carried out or the runtime goes down in
\* the middle of it.
Queued(batch, positions) ==
    /\ positions \subseteq DOMAIN batch
    /\ queue' = queue \cup QueueFiles(batch, positions)
    /\ QueueFiles(batch, positions) \subseteq Entry
    /\ counter' \in Nat /\ counter <= counter'
    /\ \A x \in QueueFiles(batch, positions) : x.id > counter /\ x.id <= counter'
    /\ \A x, y \in QueueFiles(batch, positions) : x.id = y.id \/ x.event = y.event => x = y
    /\ \A x \in QueueFiles(batch, positions) : x.event \in EventsAt(batch, positions)

\* A delivery queues its fresh events; one that is cut off, the first of them.
LEMMA DeliveriesQueue ==
    ASSUME TypeOK, NEW batch \in Batches
    PROVE  /\ HandleEvents(batch) => Queued(batch, Fresh(batch))
           /\ \A n \in 1..MaxBatch : CrashWhileQueueing(batch, n) =>
                 Queued(batch, {i \in Fresh(batch) : Place(i, Fresh(batch)) <= n})
<1>1. Fresh(batch) \subseteq DOMAIN batch
  BY DEF Fresh
<1>2. Cardinality(Fresh(batch)) \in Nat
  BY <1>1, PositionsFinite
<1>3. counter \in Nat
  BY DEF TypeOK
<1>4. ASSUME HandleEvents(batch)
      PROVE  Queued(batch, Fresh(batch))
  <2>1. \A i \in Fresh(batch) : Place(i, Fresh(batch)) <= Cardinality(Fresh(batch))
    BY <1>1, PlaceOrder
  <2>2. /\ queue' = queue \cup QueueFiles(batch, Fresh(batch))
        /\ counter' = counter + Cardinality(Fresh(batch))
    BY <1>4 DEF HandleEvents
  <2> QED BY <1>1, <1>2, <1>3, <2>1, <2>2, NewFiles, QueueFilesType DEF Queued
<1>5. ASSUME NEW n \in 1..MaxBatch, CrashWhileQueueing(batch, n)
      PROVE  Queued(batch, {i \in Fresh(batch) : Place(i, Fresh(batch)) <= n})
  <2> DEFINE written == {i \in Fresh(batch) : Place(i, Fresh(batch)) <= n}
  <2>1. written \subseteq Fresh(batch) /\ \A i \in written : Place(i, Fresh(batch)) <= n
    OBVIOUS
  <2>2. /\ queue' = queue \cup QueueFiles(batch, written) /\ counter' = counter + n
    BY <1>5 DEF CrashWhileQueueing
  <2> HIDE DEF written
  <2>3. n \in Nat
    BY AgentMuxAssumption
  <2>4. \A i \in written : Place(i, written) <= n
    <3> TAKE i \in written
    <3>1. Place(i, written) <= Place(i, Fresh(batch)) /\ Place(i, written) \in Int
      BY <1>1, <2>1, PlaceOrder, PositionsFinite
    <3>2. Place(i, Fresh(batch)) \in Int
      BY <1>1, <2>1, PlaceOrder, PositionsFinite
    <3> QED BY <2>1, <2>3, <3>1, <3>2
  <2>5. Queued(batch, written)
    BY <1>1, <1>3, <2>1, <2>2, <2>3, <2>4, NewFiles, QueueFilesType DEF Queued
  <2> QED BY <2>5 DEF written
<1> QED BY <1>4, <1>5

\* Every step keeps the queue numbers apart.
LEMMA IdsStep ==
    ASSUME TypeOK, IdsInv, [Next]_vars
    PROVE  IdsInv'
<1>0. /\ counter \in Nat /\ \A x \in queue : x.id \in Nat
      /\ \A p \in Processors : Dispatching(p) => task[p].entry.id \in Nat
  BY DEF TypeOK, Entry
<1>1. ASSUME \A q \in Processors : Keeps(q), queue' \subseteq queue, counter' = counter
      PROVE  IdsInv'
  BY <1>1 DEF IdsInv, Keeps
<1>2. ASSUME \A q \in Processors : Keeps(q), NEW batch \in Batches, NEW positions,
             Queued(batch, positions)
      PROVE  IdsInv'
  BY <1>0, <1>2 DEF IdsInv, Keeps, Queued
<1>3. ASSUME NEW p \in Processors, NEW x \in queue, ClaimEntry(p, x)
      PROVE  IdsInv'
  <2>1. queue' = queue \ {x} /\ counter' = counter
    BY <1>3 DEF ClaimEntry
  <2>2. task'[p].entry = x /\ \A q \in Processors \ {p} : task'[q] = task[q]
    BY <1>3, NextStep, OthersKeepTasks DEF TaskStep
  <2> QED BY <2>1, <2>2 DEF IdsInv, Dispatching
<1>4. ASSUME NEW p \in Processors, DispatchFails(p)
      PROVE  IdsInv'
  <2> DEFINE x == task[p].entry
             again == [x EXCEPT !.attempts = @ + 1]
  <2>1. queue' \subseteq queue \cup {again} /\ counter' = counter
    BY <1>4 DEF DispatchFails
  <2>2. x \in Entry /\ Dispatching(p)
    BY <1>4 DEF DispatchFails, TypeOK
  <2>3. ~Dispatching(p)' /\ \A q \in Processors \ {p} : task'[q] = task[q]
    BY <1>4, NextStep, OthersKeepTasks DEF TaskStep, Dispatching
  <2>4. again.id = x.id
    <3> HIDE DEF x
    <3> QED BY <2>2 DEF Entry
  <2> HIDE DEF again
  <2> QED BY <2>1, <2>2, <2>3, <2>4 DEF IdsInv, Dispatching
<1>5. ASSUME ~ \E p \in Processors : \E x \in queue : ClaimEntry(p, x),
             ~ \E p \in Processors : DispatchFails(p)
      PROVE  IdsInv'
  <2>1. \A q \in Processors : Keeps(q)
    BY <1>5, OnlyClaimsDispatch
  <2>2. CASE \/ \E batch \in Batches : HandleEvents(batch)
             \/ \E batch \in Batches, n \in 1..MaxBatch : CrashWhileQueueing(batch, n)
    BY <1>2, <2>1, <2>2, DeliveriesQueue
  <2>3. CASE ~ \/ \E batch \in Batches : HandleEvents(batch)
               \/ \E batch \in Batches, n \in 1..MaxBatch : CrashWhileQueueing(batch, n)
    <3>1. queue' \subseteq queue /\ counter' = counter
      BY <1>5, <2>3 DEF Next, Stop, BeginClear, EmptyQueue, ClearStep, FinishClear, CancelledTask,
         TaskStep, FindNothing, ClaimNote, ProcessStarts, DispatchCompletes, GoDown, OnStart,
         files, vars
    <3> QED BY <1>1, <2>1, <3>1
  <2> QED BY <2>2, <2>3
<1> QED BY <1>3, <1>4, <1>5

\* There are no entries at first.
LEMMA IdsInit == Init => IdsInv
BY DEF Init, IdsInv, Dispatching, Ended
-----------------------------------------------------------------------------
(***************************************************************************)
(* How often an event is completed.  An entry keeps its number when it is  *)
(* tried again, so an event has as many numbers queued or dispatched as    *)
(* it can still be completed.  handled_events.json lets it have one, and   *)
(* each delivery that is cut off before the file is written one more.      *)
(***************************************************************************)
Claimed == {task[p].entry : p \in {q \in Processors : Dispatching(q)}}
Numbers(e) == {x.id : x \in {y \in queue \cup Claimed : y.event = e}}

CountInv ==
    \A e \in Events :
        /\ IsFiniteSet(Numbers(e))
        /\ Cardinality(Numbers(e)) + finished[e] <= restarts + (IF e \in handled THEN 1 ELSE 0)

\* An event that gets no number and is not completed.
LEMMA CountQuiet ==
    ASSUME TypeOK, CountInv, NEW e \in Events, Numbers(e)' \subseteq Numbers(e),
           finished'[e] = finished[e], restarts' \in Nat, restarts <= restarts',
           handled \subseteq handled'
    PROVE  /\ IsFiniteSet(Numbers(e)')
           /\ Cardinality(Numbers(e)') + finished'[e] <= restarts' + (IF e \in handled' THEN 1 ELSE 0)
<1>1. /\ IsFiniteSet(Numbers(e)') /\ Cardinality(Numbers(e)') \in Nat
      /\ Cardinality(Numbers(e)') <= Cardinality(Numbers(e)) /\ Cardinality(Numbers(e)) \in Nat
  BY FS_Subset, FS_CardinalityType DEF CountInv
<1>2. Cardinality(Numbers(e)) + finished[e] <= restarts + (IF e \in handled THEN 1 ELSE 0)
  BY DEF CountInv
<1>3. finished[e] \in Nat /\ restarts \in Nat
  BY DEF TypeOK
<1> HIDE DEF Numbers
<1>4. CASE e \in handled
  BY <1>1, <1>2, <1>3, <1>4
<1>5. CASE e \notin handled
  BY <1>1, <1>2, <1>3, <1>5
<1> QED BY <1>4, <1>5

\* An event that gets a number, and with it a place in handled_events.json or
\* the end of the runtime.
LEMMA CountQueued ==
    ASSUME TypeOK, CountInv, NEW e \in Events, NEW id, Numbers(e)' \subseteq Numbers(e) \cup {id},
           finished'[e] = finished[e], e \notin handled,
           \/ restarts' = restarts /\ e \in handled'
           \/ restarts' = restarts + 1
    PROVE  /\ IsFiniteSet(Numbers(e)')
           /\ Cardinality(Numbers(e)') + finished'[e] <= restarts' + (IF e \in handled' THEN 1 ELSE 0)
<1>1. /\ IsFiniteSet(Numbers(e) \cup {id})
      /\ Cardinality(Numbers(e) \cup {id}) <= Cardinality(Numbers(e)) + 1
      /\ Cardinality(Numbers(e)) \in Nat
  <2>1. IsFiniteSet(Numbers(e)) /\ Cardinality(Numbers(e)) \in Nat
    BY FS_CardinalityType DEF CountInv
  <2>2. /\ IsFiniteSet(Numbers(e) \cup {id})
        /\ \/ Cardinality(Numbers(e) \cup {id}) = Cardinality(Numbers(e))
           \/ Cardinality(Numbers(e) \cup {id}) = Cardinality(Numbers(e)) + 1
    BY <2>1, FS_AddElement
  <2> QED BY <2>1, <2>2
<1>2. /\ IsFiniteSet(Numbers(e)') /\ Cardinality(Numbers(e)') \in Nat
      /\ Cardinality(Numbers(e)') <= Cardinality(Numbers(e) \cup {id})
      /\ Cardinality(Numbers(e) \cup {id}) \in Nat
  BY <1>1, FS_Subset, FS_CardinalityType
<1>3. Cardinality(Numbers(e)) + finished[e] <= restarts
  BY DEF CountInv, TypeOK
<1>4. finished[e] \in Nat /\ restarts \in Nat
  BY DEF TypeOK
<1> HIDE DEF Numbers
<1>5. Cardinality(Numbers(e)') + finished'[e] <= restarts + 1
  BY <1>1, <1>2, <1>3, <1>4
<1>6. CASE restarts' = restarts /\ e \in handled'
  BY <1>2, <1>5, <1>6
<1>7. CASE restarts' = restarts + 1
  <2>1. Cardinality(Numbers(e)') + finished'[e] \in Nat
    BY <1>2, <1>4
  <2>2. (IF e \in handled' THEN 1 ELSE 0) \in {0, 1}
    OBVIOUS
  <2> QED BY <1>2, <1>4, <1>5, <1>7, <2>1, <2>2
<1> QED BY <1>2, <1>6, <1>7

\* An event that is completed: its number is gone.
LEMMA CountCompleted ==
    ASSUME TypeOK, CountInv, NEW e \in Events, NEW id \in Numbers(e),
           Numbers(e)' \subseteq Numbers(e) \ {id},
           finished'[e] = finished[e] + 1, restarts' = restarts, handled' = handled
    PROVE  /\ IsFiniteSet(Numbers(e)')
           /\ Cardinality(Numbers(e)') + finished'[e] <= restarts' + (IF e \in handled' THEN 1 ELSE 0)
<1>1. /\ IsFiniteSet(Numbers(e) \ {id})
      /\ Cardinality(Numbers(e) \ {id}) = Cardinality(Numbers(e)) - 1
      /\ Cardinality(Numbers(e)) \in Nat
  BY FS_RemoveElement, FS_CardinalityType DEF CountInv
<1>2. /\ IsFiniteSet(Numbers(e)') /\ Cardinality(Numbers(e)') \in Nat
      /\ Cardinality(Numbers(e)') <= Cardinality(Numbers(e) \ {id})
  BY <1>1, FS_Subset, FS_CardinalityType
<1>3. Cardinality(Numbers(e)) + finished[e] <= restarts + (IF e \in handled THEN 1 ELSE 0)
  BY DEF CountInv
<1>4. finished[e] \in Nat /\ restarts \in Nat
  BY DEF TypeOK
<1> HIDE DEF Numbers
<1>5. CASE e \in handled
  BY <1>1, <1>2, <1>3, <1>4, <1>5
<1>6. CASE e \notin handled
  BY <1>1, <1>2, <1>3, <1>4, <1>6
<1> QED BY <1>5, <1>6

\* A step that queues nothing new gives no event a number.
LEMMA NumbersShrink ==
    ASSUME \A q \in Processors : Keeps(q), queue' \subseteq queue
    PROVE  \A e : Numbers(e)' \subseteq Numbers(e)
<1>1. Claimed' \subseteq Claimed
  BY DEF Keeps, Claimed, Dispatching
<1> QED BY <1>1 DEF Numbers

\* A delivery gives a number to the events it queues, one to each.
LEMMA QueuedCounts ==
    ASSUME TypeOK, CountInv, NEW batch \in Batches, NEW positions \in SUBSET Fresh(batch),
           Queued(batch, positions), \A q \in Processors : Keeps(q),
           finished' = finished, handled \subseteq handled',
           \/ restarts' = restarts /\ EventsAt(batch, positions) \subseteq handled'
           \/ restarts' = restarts + 1
    PROVE  CountInv'
<1>1. Claimed' \subseteq Claimed
  BY DEF Keeps, Claimed, Dispatching
<1>2. restarts \in Nat /\ restarts' \in Nat /\ restarts <= restarts'
  BY DEF TypeOK
<1>3. ASSUME NEW e \in Events
      PROVE  /\ IsFiniteSet(Numbers(e)')
             /\ Cardinality(Numbers(e)') + finished'[e]
                    <= restarts' + (IF e \in handled' THEN 1 ELSE 0)
  <2>1. CASE \E x \in QueueFiles(batch, positions) : x.event = e
    <3>1. PICK x \in QueueFiles(batch, positions) : x.event = e
      BY <2>1
    <3>2. \A y \in QueueFiles(batch, positions) : y.event = e => y = x
      BY <3>1 DEF Queued
    <3>3. Numbers(e)' \subseteq Numbers(e) \cup {x.id}
      BY <1>1, <3>2 DEF Numbers, Queued
    <3>4. e \in EventsAt(batch, positions) /\ e \notin handled
      BY <3>1 DEF Queued, EventsAt, Fresh
    <3> QED BY <3>3, <3>4, CountQueued
  <2>2. CASE ~ \E x \in QueueFiles(batch, positions) : x.event = e
    <3>1. Numbers(e)' \subseteq Numbers(e)
      BY <1>1, <2>2 DEF Numbers, Queued
    <3> QED BY <1>2, <3>1, CountQuiet
  <2> QED BY <2>1, <2>2
<1> QED BY <1>3 DEF CountInv

\* The completion of an entry takes its number, which no other entry has.
LEMMA CompletionCounts ==
    ASSUME TypeOK, CountInv, IdsInv, NEW x \in Entry, x.id \in Numbers(x.event),
           \A y \in queue' \cup Claimed' : y \in queue \cup Claimed /\ y.id # x.id,
           finished' = [finished EXCEPT ![x.event] = @ + 1],
           restarts' = restarts, handled' = handled
    PROVE  CountInv'
<1>1. x.event \in Events
  BY DEF Entry
<1>2. ASSUME NEW e \in Events
      PROVE  /\ IsFiniteSet(Numbers(e)')
             /\ Cardinality(Numbers(e)') + finished'[e]
                    <= restarts' + (IF e \in handled' THEN 1 ELSE 0)
  <2>1. Numbers(e)' \subseteq Numbers(e) \ {x.id}
    BY DEF Numbers
  <2>2. CASE e = x.event
    <3>1. finished'[e] = finished[e] + 1
      BY <1>1, <2>2 DEF TypeOK
    <3> QED BY <2>1, <2>2, <3>1, CountCompleted
  <2>3. CASE e # x.event
    <3>1. finished'[e] = finished[e] /\ restarts \in Nat
      BY <1>1, <2>3 DEF TypeOK
    <3> QED BY <2>1, <3>1, CountQuiet
  <2> QED BY <2>2, <2>3
<1> QED BY <1>2 DEF CountInv

\* Every step keeps the account of completions.
LEMMA CountStep ==
    ASSUME TypeOK, IdsInv, CountInv, [Next]_vars
    PROVE  CountInv'
<1>1. ASSUME \A e \in Events : Numbers(e)' \subseteq Numbers(e), UNCHANGED <<finished, handled>>,
             restarts' \in {restarts, restarts + 1}
      PROVE  CountInv'
  <2>1. restarts' \in Nat /\ restarts <= restarts'
    BY <1>1 DEF TypeOK
  <2> QED BY <1>1, <2>1, CountQuiet DEF CountInv
<1>2. ASSUME NEW batch \in Batches, HandleEvents(batch)
      PROVE  CountInv'
  <2>1. Queued(batch, Fresh(batch))
    BY <1>2, DeliveriesQueue
  <2>2. \A q \in Processors : Keeps(q)
    BY <1>2, HandlersKeepTasks DEF Keeps, Same, Woken, Dispatching
  <2>3. /\ UNCHANGED <<finished, restarts>>
        /\ handled' = handled \cup EventsAt(batch, Fresh(batch))
    BY <1>2 DEF HandleEvents
  <2> QED BY <2>1, <2>2, <2>3, QueuedCounts
<1>3. ASSUME NEW batch \in Batches, NEW n \in 1..MaxBatch, CrashWhileQueueing(batch, n)
      PROVE  CountInv'
  <2> DEFINE written == {i \in Fresh(batch) : Place(i, Fresh(batch)) <= n}
  <2>1. Queued(batch, written)
    BY <1>3, DeliveriesQueue
  <2>2. GoneDown /\ UNCHANGED <<finished, handled>>
    BY <1>3 DEF CrashWhileQueueing
  <2>3. restarts' = restarts + 1 /\ \A q \in Processors : Keeps(q)
    BY <2>2, DownType, DownEndsTasks DEF Keeps
  <2>4. written \in SUBSET Fresh(batch)
    OBVIOUS
  <2> HIDE DEF written
  <2> QED BY <2>1, <2>2, <2>3, <2>4, QueuedCounts
<1>4. ASSUME NEW p \in Processors, NEW x \in queue, ClaimNote(p, x)
      PROVE  CountInv'
  <2>1. queue' = queue \ {x} /\ UNCHANGED <<handled, restarts>>
        /\ finished' = [finished EXCEPT ![x.event] = @ + 1]
    BY <1>4 DEF ClaimNote
  <2>2. x \in Entry /\ x.id \in Numbers(x.event)
    BY DEF TypeOK, Numbers
  <2>3. \A q \in Processors : Keeps(q)
    BY <1>4, OthersKeepTasks, NextStep DEF TaskStep, Keeps, Dispatching
  <2>4. Claimed' \subseteq Claimed
    BY <2>3 DEF Keeps, Claimed, Dispatching
  <2>5. \A y \in Claimed : y.id # x.id
    BY DEF IdsInv, Claimed
  <2>6. \A y \in queue' \cup Claimed' : y \in queue \cup Claimed /\ y.id # x.id
    BY <2>1, <2>4, <2>5 DEF IdsInv
  <2> QED BY <2>1, <2>2, <2>6, CompletionCounts
<1>5. ASSUME NEW p \in Processors, DispatchCompletes(p)
      PROVE  CountInv'
  <2> DEFINE x == task[p].entry
  <2>1. queue' = queue /\ UNCHANGED <<handled, restarts>>
        /\ finished' = [finished EXCEPT ![x.event] = @ + 1]
    BY <1>5 DEF DispatchCompletes
  <2>2. Dispatching(p) /\ ~Dispatching(p)' /\ \A q \in Processors \ {p} : task'[q] = task[q]
    BY <1>5, NextStep, OthersKeepTasks DEF TaskStep, Dispatching, DispatchCompletes
  <2>3. x \in Entry /\ x \in Claimed
    BY <2>2 DEF TypeOK, Claimed
  <2>4. \A y \in Claimed' : y \in Claimed /\ y.id # x.id
    BY <2>2 DEF Claimed, Dispatching, IdsInv
  <2>5. \A y \in queue : y.id # x.id
    BY <2>2 DEF IdsInv
  <2> HIDE DEF x
  <2>6. x.id \in Numbers(x.event)
    BY <2>3 DEF Numbers
  <2>7. \A y \in queue' \cup Claimed' : y \in queue \cup Claimed /\ y.id # x.id
    BY <2>1, <2>4, <2>5
  <2> QED BY <2>1, <2>3, <2>6, <2>7, CompletionCounts
<1>6. ASSUME NEW p \in Processors, NEW x \in queue, ClaimEntry(p, x)
      PROVE  CountInv'
  <2>1. queue' \subseteq queue /\ UNCHANGED <<finished, handled, restarts>>
    BY <1>6 DEF ClaimEntry, history
  <2>2. task'[p].entry = x /\ \A q \in Processors \ {p} : task'[q] = task[q]
    BY <1>6, NextStep, OthersKeepTasks DEF TaskStep
  <2>3. Claimed' \subseteq Claimed \cup {x}
    BY <2>2 DEF Claimed, Dispatching
  <2>4. \A e \in Events : Numbers(e)' \subseteq Numbers(e)
    BY <2>1, <2>3 DEF Numbers
  <2> QED BY <1>1, <2>1, <2>4
<1>7. ASSUME NEW p \in Processors, DispatchFails(p)
      PROVE  CountInv'
  <2> DEFINE x == task[p].entry
             again == [x EXCEPT !.attempts = @ + 1]
  <2>1. queue' \subseteq queue \cup {again} /\ UNCHANGED <<finished, handled, restarts>>
    BY <1>7 DEF DispatchFails, history
  <2>2. Dispatching(p) /\ ~Dispatching(p)' /\ \A q \in Processors \ {p} : task'[q] = task[q]
    BY <1>7, NextStep, OthersKeepTasks DEF TaskStep, Dispatching, DispatchFails
  <2>3. x \in Entry /\ x \in Claimed
    BY <2>2 DEF TypeOK, Claimed
  <2>4. Claimed' \subseteq Claimed
    BY <2>2 DEF Claimed, Dispatching
  <2> HIDE DEF x
  <2>5. again.id = x.id /\ again.event = x.event
    BY <2>3 DEF Entry
  <2> HIDE DEF again
  <2>6. \A e \in Events : Numbers(e)' \subseteq Numbers(e)
    BY <2>1, <2>3, <2>4, <2>5 DEF Numbers
  <2> QED BY <1>1, <2>1, <2>6
<1>8. ASSUME ~ \E batch \in Batches : HandleEvents(batch),
             ~ \E batch \in Batches, n \in 1..MaxBatch : CrashWhileQueueing(batch, n),
             ~ \E p \in Processors : \E x \in queue : ClaimNote(p, x) \/ ClaimEntry(p, x),
             ~ \E p \in Processors : DispatchCompletes(p) \/ DispatchFails(p)
      PROVE  CountInv'
  <2>1. \A q \in Processors : Keeps(q)
    BY <1>8, OnlyClaimsDispatch
  <2>2. queue' \subseteq queue /\ UNCHANGED <<finished, handled>>
        /\ restarts' \in {restarts, restarts + 1}
    BY <1>8 DEF Next, Stop, BeginClear, EmptyQueue, ClearStep, FinishClear, CancelledTask,
       TaskStep, FindNothing, ProcessStarts, GoDown, GoneDown, OnStart, files, history, vars
  <2> QED BY <1>1, <2>1, <2>2, NumbersShrink
<1> QED BY <1>2, <1>3, <1>4, <1>5, <1>6, <1>7, <1>8

\* However often an event is delivered, it is completed once, and once more at
\* most for each time the runtime went down.
THEOREM EventsAreCompletedOnce == Spec => []CompletedOnce
<1>1. Init => CountInv
  <2> SUFFICES ASSUME Init, NEW e \in Events
               PROVE  IsFiniteSet(Numbers(e))
                      /\ Cardinality(Numbers(e)) + finished[e] <= restarts + (IF e \in handled THEN 1 ELSE 0)
    BY DEF CountInv
  <2>1. Numbers(e) = {}
    BY DEF Init, Numbers, Claimed, Dispatching, Ended
  <2> QED BY <2>1, FS_EmptySet DEF Init
<1>2. TypeOK /\ IdsInv /\ CountInv /\ [Next]_vars => IdsInv' /\ CountInv'
  BY IdsStep, CountStep
<1>3. TypeOK /\ CountInv => CompletedOnce
  <2> SUFFICES ASSUME TypeOK, CountInv, NEW e \in Events
               PROVE  finished[e] <= 1 + restarts
    BY DEF CompletedOnce
  <2>1. Cardinality(Numbers(e)) \in Nat
    BY FS_CardinalityType DEF CountInv
  <2>2. Cardinality(Numbers(e)) + finished[e] <= restarts + (IF e \in handled THEN 1 ELSE 0)
    BY DEF CountInv
  <2>3. finished[e] \in Nat /\ restarts \in Nat
    BY DEF TypeOK
  <2> HIDE DEF Numbers
  <2> QED BY <2>1, <2>2, <2>3
<1> QED BY <1>1, <1>2, <1>3, IdsInit, MuxTypeCorrect, PTL DEF Spec
-----------------------------------------------------------------------------
(***************************************************************************)
(* The order of the queue.  Until a context is first cleared no task is    *)
(* forgotten, so only the current one is ever alive.                       *)
(***************************************************************************)
OrderInv ==
    generation = 0 =>
        /\ clearing = NotClearing
        /\ \A p \in Processors : task[p].step # "ended" => p = current
        /\ InOrder

\* Every step but a claim keeps the dispatches ahead of the queue.
LEMMA OrderFrame ==
    ASSUME TypeOK, IdsInv, InOrder, \A q \in Processors : Keeps(q),
           \A x \in queue' : x \in queue \/ (x.id \in Nat /\ x.id > counter)
    PROVE  InOrder'
<1>1. ASSUME NEW p \in Processors, Dispatching(p)', NEW x \in queue'
      PROVE  task'[p].entry.id < x.id
  <2>1. Dispatching(p) /\ task'[p].entry = task[p].entry
    BY <1>1 DEF Keeps
  <2>2. CASE x \in queue
    BY <2>1, <2>2 DEF InOrder
  <2>3. CASE x \notin queue
    <3>1. x.id \in Nat /\ x.id > counter /\ task[p].entry.id <= counter
      BY <2>1, <2>3 DEF IdsInv
    <3>2. task[p].entry.id \in Nat /\ counter \in Nat
      BY <2>1 DEF TypeOK, Entry
    <3> QED BY <2>1, <3>1, <3>2
  <2> QED BY <2>2, <2>3
<1>2. ASSUME NEW p \in Processors, Dispatching(p)', NEW q \in Processors \ {p}, Dispatching(q)'
      PROVE  FALSE
  BY <1>2 DEF Keeps, InOrder
<1> QED BY <1>1, <1>2 DEF InOrder

\* Until a context is cleared every step keeps one task alive at most, and what
\* it dispatches ahead of the queue.
LEMMA OrderStep ==
    ASSUME TypeOK, IdsInv, OrderInv, [Next]_vars
    PROVE  OrderInv'
<1> SUFFICES ASSUME generation' = 0
             PROVE  /\ clearing' = NotClearing
                    /\ \A p \in Processors : task'[p].step # "ended" => p = current'
                    /\ InOrder'
  BY DEF OrderInv
<1> USE AgentMuxAssumption
<1>0. generation = 0 /\ ~BeginClear
  BY DEF Next, HandleEvents, Stop, BeginClear, ClearStep, FinishClear, CancelledTask, TaskStep,
     FindNothing, ClaimNote, ClaimEntry, ProcessStarts, DispatchCompletes, DispatchFails, GoDown,
     CrashWhileQueueing, OnStart, files, vars, TypeOK
<1>1. /\ clearing = NotClearing
      /\ \A p \in Processors : task[p].step # "ended" => p = current
      /\ InOrder
  BY <1>0 DEF OrderInv
<1>2. ASSUME \/ \E batch \in Batches : HandleEvents(batch)
             \/ \E thread, parent \in Threads \cup {None} : Stop(thread, parent)
             \/ OnStart
      PROVE  OrderInv'
  <2>1. clearing' = NotClearing
    BY <1>1, <1>2 DEF HandleEvents, Stop, OnStart
  <2>2. /\ \A q \in Processors : Same(q) \/ Woken(q)
        /\ \/ current' = current
           \/ /\ current = None \/ task[current].step = "ended"
              /\ current' \in Processors /\ task'[current'].step = "scheduled"
    BY <1>2, HandlersKeepTasks
  <2>3. \A p \in Processors : task'[p].step # "ended" => p = current'
    BY <1>1, <2>2 DEF Same, Woken
  <2>4. \A q \in Processors : Keeps(q)
    BY <2>2 DEF Keeps, Same, Woken, Dispatching
  <2>5. \A x \in queue' : x \in queue \/ (x.id \in Nat /\ x.id > counter)
    BY <1>2, DeliveriesQueue DEF Queued, Stop, OnStart, files, Entry
  <2> QED BY <1>1, <2>1, <2>3, <2>4, <2>5, OrderFrame DEF OrderInv
<1>3. ASSUME ClearStep
      PROVE  FALSE
  BY <1>1, <1>3 DEF ClearStep, FinishClear, CancelledTask, NotClearing
<1>4. ASSUME NEW p \in Processors, TaskStep(p)
      PROVE  OrderInv'
  <2>1. \A q \in Processors \ {p} : task'[q] = task[q]
    BY <1>4, OthersKeepTasks
  <2>2. task[p].step # "ended"
    BY <1>4 DEF TaskStep, FindNothing, ClaimNote, ClaimEntry, ProcessStarts, DispatchCompletes,
                DispatchFails, Runs, Dispatching
  <2>3. p = current /\ \A q \in Processors \ {p} : task'[q].step = "ended"
    BY <1>1, <2>1, <2>2
  <2>4. current' = current \/ task'[p].step = "ended"
    BY <1>4, NextStep DEF TaskStep, FindNothing, ClaimNote, ClaimEntry, ProcessStarts,
                          DispatchCompletes, DispatchFails
  <2>5. clearing' = NotClearing
    BY <1>1, <1>4 DEF TaskStep, FindNothing, ClaimNote, ClaimEntry, ProcessStarts,
                      DispatchCompletes, DispatchFails
  <2>6. InOrder'
    <3>1. ASSUME NEW x \in queue, ClaimEntry(p, x)
          PROVE  InOrder'
      <4>1. queue' = queue \ {x} /\ \A y \in queue : x.id <= y.id
        BY <3>1 DEF ClaimEntry, First
      <4>2. \A y \in queue' : x.id < y.id
        <5> TAKE y \in queue'
        <5>1. y \in queue /\ x.id <= y.id /\ x.id # y.id
          BY <4>1 DEF IdsInv
        <5>2. x.id \in Nat /\ y.id \in Nat
          BY <5>1 DEF TypeOK, Entry
        <5> QED BY <5>1, <5>2
      <4>3. task'[p].entry = x
        BY <3>1, NextStep
      <4> QED BY <2>3, <4>2, <4>3 DEF InOrder, Dispatching
    <3>2. CASE DispatchFails(p)
      BY <2>3, <3>2, NextStep DEF InOrder, Dispatching
    <3>3. ASSUME ~(\E x \in queue : ClaimEntry(p, x)), ~DispatchFails(p)
          PROVE  InOrder'
      <4>1. \A q \in Processors : Keeps(q)
        BY <1>4, <2>1, <3>3, NextStep DEF TaskStep, Keeps, Dispatching
      <4>2. queue' \subseteq queue
        BY <1>4, <3>3 DEF TaskStep, FindNothing, ClaimNote, ProcessStarts, DispatchCompletes, files
      <4> QED BY <1>1, <4>1, <4>2, OrderFrame
    <3> QED BY <3>1, <3>2, <3>3
  <2> QED BY <2>3, <2>4, <2>5, <2>6 DEF OrderInv
<1>5. ASSUME GoneDown
      PROVE  OrderInv'
  BY <1>5, DownType, DownEndsTasks DEF OrderInv, InOrder
<1>6. CASE UNCHANGED vars
  BY <1>1, <1>6 DEF vars, files, memory, InOrder, Dispatching
<1> QED BY <1>0, <1>2, <1>3, <1>4, <1>5, <1>6 DEF Next, GoDown, CrashWhileQueueing, OrderInv

\* Until a /clear_context forgets a task, events are worked on one at a time and
\* in the order they were queued, whatever fails, is stopped or is restarted.
THEOREM QueueIsInOrder == Spec => [](generation = 0 => InOrder)
<1>1. Init => OrderInv
  BY DEF Init, OrderInv, InOrder, Dispatching, Ended
<1>2. TypeOK /\ IdsInv /\ OrderInv /\ [Next]_vars => IdsInv' /\ OrderInv'
  BY IdsStep, OrderStep
<1>3. OrderInv => (generation = 0 => InOrder)
  BY DEF OrderInv
<1> QED BY <1>1, <1>2, <1>3, IdsInit, MuxTypeCorrect, PTL DEF Spec
=============================================================================
