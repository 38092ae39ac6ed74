------------------------------- MODULE AgentMux -------------------------------
(***************************************************************************)
(* The agent_mux backend: the runtime of one agent.  POST /event queues    *)
(* events in files and remembers their ids in handled_events.json; a       *)
(* processor task claims the files in order and runs one agent-mux         *)
(* process for each; POST /stop and interrupting events terminate that     *)
(* process; POST /clear_context cancels the task and empties the queue.    *)
(*                                                                         *)
(* One event loop runs the handlers and the task.  No section under        *)
(* _task_lock awaits anything, so the lock never delays anyone and a       *)
(* handler is one step, but for the await of the cancelled task inside     *)
(* clear_context.  The task gives the loop up only while a process is      *)
(* being spawned, while it runs, and in the pause after a failure.         *)
(*                                                                         *)
(* What an agent-mux process does is external: it ends with a result, or   *)
(* in failure.  Prompts, the context memory, session mailboxes, status     *)
(* fields and active_dispatches.json (never read back) are left out.       *)
(***************************************************************************)
EXTENDS FiniteSets, Functions

CONSTANTS
    Events,        \* event_ids senders deliver
    Threads,       \* thread_ids in their payloads
    ThreadOf,      \* payload.thread_id of each event
    ParentOf,      \* payload.parent_thread_id of a thread's events
    Actionable,    \* events with requires_response or interrupts_runtime
    Interrupting,  \* events with interrupts_runtime
    Processors,    \* processor tasks
    None,          \* Python's None
    MaxAttempts,   \* settings.max_attempts
    MaxBatch,      \* bound on the events of a delivery
    MaxDeliveries, \* bound on the deliveries
    MaxClears,     \* bound on the /clear_context requests
    MaxRestarts,   \* bound on the times the runtime goes down
    Stops          \* the /stop requests senders make: "thread", "all"

ASSUME AgentMuxAssumption ==
    /\ None \notin Events \cup Threads \cup Processors
    /\ ThreadOf \in [Events -> Threads]
    /\ ParentOf \in [Threads -> Threads \cup {None}]
    /\ Interrupting \subseteq Actionable /\ Actionable \subseteq Events
    /\ MaxAttempts \in Nat \ {0}
    /\ MaxBatch \in Nat /\ MaxDeliveries \in Nat /\ MaxClears \in Nat /\ MaxRestarts \in Nat
    /\ Stops \subseteq {"thread", "all"}

VARIABLES
    queue,         \* files of queue_dir
    processing,    \* files of processing_dir
    failed,        \* files of failed_dir
    handled,       \* event ids in handled_events.json
    counter,       \* queue_counter.json
    generation,    \* context_generation in context.json
    up,            \* the runtime is running
    task,          \* the processor tasks, those that have ended being Ended
    current,       \* _processor_task
    process,       \* _active_process, named by the task that runs it
    activeEvent,   \* _active_event_payload, by its event
    clearing,      \* clear_context between its first step and its last
    finished,      \* how often an event's entry was completed
    withdrawn,     \* events whose queue entry a /stop or /clear_context removed
    stopped,       \* events of a thread /stop named that were not dispatched then
    deliveries,    \* deliveries so far
    restarts       \* times the runtime has gone down

files == <<queue, processing, failed, handled, counter, generation>>
memory == <<up, task, current, process, activeEvent, clearing>>
history == <<finished, withdrawn, stopped, deliveries, restarts>>
vars == <<files, memory, history>>

Entry == [id : Nat, event : Events, attempts : Nat]

\* "claiming" is a task that has not given up the event loop yet.
Steps == {"ended", "scheduled", "claiming", "spawning", "running", "pausing"}
Task == [step : Steps, entry : Entry \cup {None}, killed : BOOLEAN, context : Nat]
Ended == [step |-> "ended", entry |-> None, killed |-> FALSE, context |-> 0]
Dispatching(p) == task[p].step \in {"spawning", "running"}
Dispatched == {task[p].entry.event : p \in {q \in Processors : Dispatching(q)}}

\* clear_context awaits the task it has cancelled, then is ready to go on.
NotClearing == [stage |-> "no", target |-> None]

\* No task holds the event loop: a handler may run.
LoopFree == up /\ \A p \in Processors : task[p].step # "claiming"

EventsIn(entries) == {x.event : x \in entries}
Batches == {batch \in UNION {[1..n -> Events] : n \in 1..MaxBatch} : IsInjective(batch)}

Init ==
    /\ queue = {} /\ processing = {} /\ failed = {} /\ handled = {}
    /\ counter = 0 /\ generation = 0
    /\ up = TRUE
    /\ task = [p \in Processors |-> Ended]
    /\ current = None /\ process = None /\ activeEvent = None
    /\ clearing = NotClearing
    /\ finished = [e \in Events |-> 0]
    /\ withdrawn = {} /\ stopped = {}
    /\ deliveries = 0 /\ restarts = 0
-----------------------------------------------------------------------------
(***************************************************************************)
(* Handlers.                                                               *)
(***************************************************************************)

\* interrupt_active_dispatch: a process that is still being spawned is missed.
Interrupted(tasks) ==
    IF process = None THEN tasks ELSE [tasks EXCEPT ![process].killed = TRUE]

\* schedule_processor
ScheduleProcessor(tasks) ==
    IF current # None /\ tasks[current].step # "ended"
    THEN task' = tasks /\ UNCHANGED current
    ELSE \E p \in Processors :
            /\ tasks[p].step = "ended"
            /\ task' = [tasks EXCEPT ![p] = [Ended EXCEPT !.step = "scheduled"]]
            /\ current' = p

\* Mutant: the ids are not looked up.
FreshOrNot(batch) == DOMAIN batch

\* The positions in a delivery of the events that are not handled yet, and the
\* queue entries they get: numbered in their order.
Fresh(batch) == {i \in DOMAIN batch : batch[i] \notin handled}
Place(i, fresh) == Cardinality({j \in fresh : j <= i})
QueueFiles(batch, fresh) ==
    {[id |-> counter + Place(i, fresh), event |-> batch[i], attempts |-> 0] : i \in fresh}
EventsAt(batch, positions) == {batch[i] : i \in positions}

HandleEvents(batch) ==
    LET fresh == Fresh(batch)
        interrupted == IF Range(batch) \cap Interrupting # {} THEN Interrupted(task) ELSE task
    IN  /\ LoopFree
        /\ deliveries < MaxDeliveries
        /\ deliveries' = deliveries + 1
        /\ queue' = queue \cup QueueFiles(batch, fresh)
        /\ counter' = counter + Cardinality(fresh)
        /\ handled' = handled \cup EventsAt(batch, fresh)
        /\ stopped' = stopped \ EventsAt(batch, fresh)
        /\ IF fresh = {} THEN task' = interrupted /\ UNCHANGED current
                           ELSE ScheduleProcessor(interrupted)
        /\ UNCHANGED <<processing, failed, generation, up, process, activeEvent, clearing,
                       finished, withdrawn, restarts>>

\* Mutant: only the parent is compared.
MatchesParent(e, thread, parent) ==
    parent # None /\ ParentOf[ThreadOf[e]] = parent

\* clear_entries_matching: the entries that match every field that is given.
MatchesFields(e, thread, parent) ==
    /\ thread # None => ThreadOf[e] = thread
    /\ parent # None => ParentOf[ThreadOf[e]] = parent

\* active_event_matches_filters: one of the fields is enough.
MatchesFilters(e, thread, parent) ==
    /\ e # None
    /\ \/ thread # None /\ ThreadOf[e] = thread
       \/ parent # None /\ ParentOf[ThreadOf[e]] = parent

\* A sender names a thread and its parent, the parent alone, or nothing.
Stop(thread, parent) ==
    LET everything == thread = None /\ parent = None
        cleared == IF everything THEN {}
                   ELSE {x \in queue : MatchesFields(x.event, thread, parent)}
    IN  /\ LoopFree
        /\ (IF everything THEN "all" ELSE "thread") \in Stops
        /\ {thread, parent} \cap {None} = {} => parent = ParentOf[thread]
        /\ queue' = queue \ cleared
        /\ withdrawn' = withdrawn \cup EventsIn(cleared)
        /\ task' = IF everything \/ MatchesFilters(activeEvent, thread, parent)
                   THEN Interrupted(task) ELSE task
        /\ stopped' = stopped \cup {e \in Events \ Dispatched : ThreadOf[e] = thread}
        /\ UNCHANGED <<processing, failed, handled, counter, generation, up, current, process,
                       activeEvent, clearing, finished, deliveries, restarts>>

\* The end of clear_context; handled_events.json is not emptied.
EmptyQueue ==
    /\ current' = None /\ process' = None /\ activeEvent' = None
    /\ withdrawn' = withdrawn \cup EventsIn(queue \cup processing)
    /\ queue' = {} /\ processing' = {}
    /\ clearing' = NotClearing
    /\ UNCHANGED <<failed, handled, counter, up, finished, stopped, deliveries, restarts>>

\* Mutant: the task is not cancelled.
ClearKeepsTask ==
    /\ LoopFree
    /\ clearing = NotClearing
    /\ generation < MaxClears
    /\ generation' = generation + 1
    /\ queue' = {}
    /\ withdrawn' = withdrawn \cup EventsIn(queue)
    /\ UNCHANGED <<processing, failed, handled, counter, memory, finished, stopped, deliveries,
                   restarts>>

\* clear_context up to the await of cancel_runtime; without a live task there is
\* nothing to wait for.  A /clear_context beside another is left out.
BeginClear ==
    /\ LoopFree
    /\ clearing = NotClearing
    /\ generation < MaxClears
    /\ generation' = generation + 1
    /\ task' = Interrupted(task)
    /\ IF current = None \/ task[current].step = "ended"
       THEN EmptyQueue
       ELSE /\ clearing' = [stage |-> "cancelling", target |-> current]
            /\ UNCHANGED <<queue, processing, failed, handled, counter, up, current, process,
                           activeEvent, history>>

\* CancelledError reaches the task: its entry stays in processing_dir.
CancelledTask(p) ==
    /\ LoopFree
    /\ clearing.stage = "cancelling" /\ clearing.target = p
    /\ task' = [task EXCEPT ![p] = Ended]
    /\ current' = IF current = p /\ task[p].step # "scheduled" THEN None ELSE current
    /\ process' = IF Dispatching(p) THEN None ELSE process
    /\ activeEvent' = IF Dispatching(p) THEN None ELSE activeEvent
    /\ clearing' = [clearing EXCEPT !.stage = "ready"]
    /\ UNCHANGED <<files, up, history>>

FinishClear ==
    /\ LoopFree
    /\ clearing.stage = "ready"
    /\ EmptyQueue
    /\ UNCHANGED <<generation, task>>
-----------------------------------------------------------------------------
(***************************************************************************)
(* The processor task.                                                     *)
(***************************************************************************)
Cancelled(p) == clearing.stage = "cancelling" /\ clearing.target = p

\* The task has the event loop, or may have it.  A task that was created after
\* clear_context became ready runs after it: the loop keeps the order.
Runs(p) ==
    \/ task[p].step = "claiming" /\ up
    \/ task[p].step = "scheduled" /\ LoopFree /\ clearing.stage # "ready"
    \/ task[p].step = "pausing" /\ LoopFree

\* Mutant: the files are not sorted.
AnyEntry(x) == x \in queue

First(x) == \A y \in queue : x.id <= y.id

\* claim_next_entry finds nothing: the task ends.
FindNothing(p) ==
    /\ Runs(p) /\ ~Cancelled(p)
    /\ queue = {}
    /\ task' = [task EXCEPT ![p] = Ended]
    /\ current' = IF current = p THEN None ELSE current
    /\ UNCHANGED <<files, up, process, activeEvent, clearing, history>>

\* An event that needs no response is complete once it has been remembered.
ClaimNote(p, x) ==
    /\ Runs(p) /\ ~Cancelled(p)
    /\ First(x) /\ x.event \notin Actionable
    /\ queue' = queue \ {x}
    /\ finished' = [finished EXCEPT ![x.event] = @ + 1]
    /\ task' = [task EXCEPT ![p] = [Ended EXCEPT !.step = "claiming"]]
    /\ UNCHANGED <<processing, failed, handled, counter, generation, up, current, process,
                   activeEvent, clearing, withdrawn, stopped, deliveries, restarts>>

ClaimEntry(p, x) ==
    /\ Runs(p) /\ ~Cancelled(p)
    /\ First(x) /\ x.event \in Actionable
    /\ queue' = queue \ {x}
    /\ processing' = processing \cup {x}
    /\ task' = [task EXCEPT ![p] =
           [step |-> "spawning", entry |-> x, killed |-> FALSE, context |-> generation]]
    /\ activeEvent' = x.event
    /\ UNCHANGED <<failed, handled, counter, generation, up, current, process, clearing,
                   history>>

ProcessStarts(p) ==
    /\ LoopFree /\ ~Cancelled(p)
    /\ task[p].step = "spawning"
    /\ task' = [task EXCEPT ![p].step = "running"]
    /\ process' = p
    /\ UNCHANGED <<files, up, current, activeEvent, clearing, history>>

\* _clear_dispatch_context
ClearDispatch == process' = None /\ activeEvent' = None

\* The process has ended with a good result (a terminated one may have had it).
DispatchCompletes(p) ==
    /\ LoopFree /\ ~Cancelled(p)
    /\ task[p].step = "running"
    /\ processing' = processing \ {task[p].entry}
    /\ finished' = [finished EXCEPT ![task[p].entry.event] = @ + 1]
    /\ task' = [task EXCEPT ![p] = [Ended EXCEPT !.step = "claiming"]]
    /\ ClearDispatch
    /\ UNCHANGED <<queue, failed, handled, counter, generation, up, current, clearing,
                   withdrawn, stopped, deliveries, restarts>>

\* Mutant: the attempts are not written back.
FailForgetsAttempt(p) ==
    LET x == task[p].entry IN
    /\ LoopFree /\ ~Cancelled(p)
    /\ Dispatching(p)
    /\ processing' = processing \ {x}
    /\ queue' = queue \cup {x}
    /\ task' = [task EXCEPT ![p] = [Ended EXCEPT !.step = "pausing"]]
    /\ ClearDispatch
    /\ UNCHANGED <<failed, handled, counter, generation, up, current, clearing, history>>

\* It has not: the entry is requeued, and after max_attempts discarded.
DispatchFails(p) ==
    LET x == task[p].entry IN
    /\ LoopFree /\ ~Cancelled(p)
    /\ Dispatching(p)
    /\ processing' = processing \ {x}
    /\ IF x.attempts + 1 >= MaxAttempts
       THEN /\ failed' = failed \cup {x}
            /\ task' = [task EXCEPT ![p] = [Ended EXCEPT !.step = "claiming"]]
            /\ UNCHANGED queue
       ELSE /\ queue' = queue \cup {[x EXCEPT !.attempts = @ + 1]}
            /\ task' = [task EXCEPT ![p] = [Ended EXCEPT !.step = "pausing"]]
            /\ UNCHANGED failed
    /\ ClearDispatch
    /\ UNCHANGED <<handled, counter, generation, up, current, clearing, history>>
-----------------------------------------------------------------------------
(***************************************************************************)
(* The runtime goes down and comes up again.                               *)
(***************************************************************************)
GoneDown ==
    /\ restarts < MaxRestarts
    /\ restarts' = restarts + 1
    /\ up' = FALSE
    /\ task' = [p \in Processors |-> Ended]
    /\ current' = None /\ process' = None /\ activeEvent' = None
    /\ clearing' = NotClearing

\* A crash, or a shutdown: on_shutdown cancels the task, which leaves the entry
\* it has claimed where it is.
GoDown ==
    /\ up
    /\ GoneDown
    /\ UNCHANGED <<files, finished, withdrawn, stopped, deliveries>>

\* Mutant: handled_events.json is written before the files.
CrashAfterHandled(batch, n) ==
    LET written == {i \in Fresh(batch) : Place(i, Fresh(batch)) <= n} IN
    /\ LoopFree
    /\ deliveries < MaxDeliveries
    /\ n \in 1..Cardinality(Fresh(batch))
    /\ queue' = queue \cup QueueFiles(batch, written)
    /\ counter' = counter + n
    /\ handled' = handled \cup EventsAt(batch, Fresh(batch))
    /\ GoneDown
    /\ stopped' = stopped \ EventsAt(batch, written)
    /\ deliveries' = deliveries + 1
    /\ UNCHANGED <<processing, failed, generation, finished, withdrawn>>

\* A crash in queue_delivery: n of the events have their file, and
\* handled_events.json, which is written last, has none of them.
CrashWhileQueueing(batch, n) ==
    LET written == {i \in Fresh(batch) : Place(i, Fresh(batch)) <= n} IN
    /\ LoopFree
    /\ deliveries < MaxDeliveries
    /\ n \in 1..Cardinality(Fresh(batch))
    /\ queue' = queue \cup QueueFiles(batch, written)
    /\ counter' = counter + n
    /\ GoneDown
    /\ stopped' = stopped \ EventsAt(batch, written)
    /\ deliveries' = deliveries + 1
    /\ UNCHANGED <<processing, failed, handled, generation, finished, withdrawn>>

\* Mutant: on_start leaves the files to the next delivery.
StartIdle ==
    /\ ~up
    /\ up' = TRUE
    /\ UNCHANGED <<files, task, current, process, activeEvent, clearing, history>>

\* on_start: queue_size counts both directories, the task claims from one.
OnStart ==
    /\ ~up
    /\ up' = TRUE
    /\ IF queue \cup processing # {} THEN ScheduleProcessor(task) ELSE UNCHANGED <<task, current>>
    /\ UNCHANGED <<files, process, activeEvent, clearing, history>>

TaskStep(p) ==
    \/ FindNothing(p)
    \/ \E x \in queue : ClaimNote(p, x) \/ ClaimEntry(p, x)
    \/ ProcessStarts(p)
    \/ DispatchCompletes(p)
    \/ DispatchFails(p)

ClearStep == FinishClear \/ \E p \in Processors : CancelledTask(p)

Next ==
    \/ \E batch \in Batches : HandleEvents(batch)
    \/ \E thread, parent \in Threads \cup {None} : Stop(thread, parent)
    \/ BeginClear
    \/ ClearStep
    \/ \E p \in Processors : TaskStep(p)
    \/ GoDown
    \/ \E batch \in Batches, n \in 1..MaxBatch : CrashWhileQueueing(batch, n)
    \/ OnStart

Spec == Init /\ [][Next]_vars

\* The event loop runs what is ready, timeout_sec ends every process, and the
\* container is restarted.
FairSpec ==
    /\ Spec
    /\ \A p \in Processors : WF_vars(TaskStep(p))
    /\ WF_vars(ClearStep)
    /\ WF_vars(OnStart)
-----------------------------------------------------------------------------
(***************************************************************************)
(* Properties                                                              *)
(***************************************************************************)
TypeOK ==
    /\ queue \subseteq Entry /\ processing \subseteq Entry /\ failed \subseteq Entry
    /\ handled \subseteq Events
    /\ counter \in Nat /\ generation \in Nat
    /\ up \in BOOLEAN
    /\ task \in [Processors -> Task]
    /\ \A p \in Processors : Dispatching(p) => task[p].entry \in Entry
    /\ current \in Processors \cup {None} /\ process \in Processors \cup {None}
    /\ activeEvent \in Events \cup {None}
    /\ clearing \in [stage : {"no", "cancelling", "ready"}, target : Processors \cup {None}]
    /\ clearing.stage = "cancelling" => clearing.target \in Processors
    /\ finished \in [Events -> Nat]
    /\ withdrawn \subseteq Events /\ stopped \subseteq Events
    /\ deliveries \in Nat /\ restarts \in Nat

\* An event whose redelivery would be answered "duplicate" has a file in one of
\* the directories or has been dealt with, wherever the runtime went down.
HandledIsKept ==
    \A e \in handled :
        \/ e \in EventsIn(queue \cup processing \cup failed)
        \/ e \in withdrawn
        \/ finished[e] > 0

\* While the runtime is up there is a task for what is in queue_dir: no event
\* arrives between the task's last look at the directory and its end unnoticed.
QueueIsWatched ==
    up /\ queue # {} /\ clearing = NotClearing =>
        \E p \in Processors : task[p].step # "ended"

\* Events are worked on one at a time and in the order they were queued: one
\* that failed is taken up again before the events behind it ("Queue processing
\* is FIFO", agent-mux-refactor-summary.md:24).
InOrder ==
    \A p \in Processors : Dispatching(p) =>
        /\ \A x \in queue : task[p].entry.id < x.id
        /\ \A q \in Processors \ {p} : ~Dispatching(q)

\* However often an event is delivered, its work is completed once, and once
\* more at most for every time the runtime went down in the middle of queueing.
CompletedOnce == \A e \in Events : finished[e] <= 1 + restarts

\* The processor task the backend knows of has no process that goes on under a
\* context /clear_context has replaced.  (A task that clear_context has forgotten,
\* because it was created while the cancelled one was awaited, may have one.)
DispatchInContext ==
    \A p \in Processors :
        p = current /\ task[p].step = "running" /\ ~task[p].killed /\ ~Cancelled(p) =>
            task[p].context = generation

Settled(e) == finished[e] > 0 \/ e \in withdrawn \/ e \in EventsIn(failed)

\* An event that has been accepted is worked off, given up after max_attempts or
\* withdrawn ("queue and deduplicate events durably", agent-mux-refactor.md:42).
HandledIsSettled == \A e \in Events : e \in handled ~> Settled(e)

\* After a /stop for a thread no queued event of it is taken up, unless it is
\* delivered again.  (The dispatch that the stop itself terminated counts as
\* failed, and is tried again: see the README.)
StopEmptiesQueue ==
    [][\A p \in Processors :
        Dispatching(p)' /\ ~Dispatching(p) => task'[p].entry.event \notin stopped]_vars
=============================================================================
