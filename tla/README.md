# Orchestra: a TLA+ model of the thread service and of the agents it drives

This directory holds TLA+ modules about the code in `src/src/core`: a message
bus for agents (OrchestraThreads), the backends that turn its events into agent
work, and the edge services around them. TLC checks the modules on small
instances; TLAPS proves the theorems of the `*_proofs` modules for every value
of the constants. `PROJECT.json` maps every definition to the lines it models.

## The system

All services are Python asyncio processes with an HTTP interface.

| Component | State it keeps | Operations | Hard behaviour |
| --- | --- | --- | --- |
| **OrchestraThreads** (`orchestra_thread/`) | Postgres: agents, threads, thread_events, idempotency_keys; in memory: one asyncio lock, two loops | register, heartbeat, send message, send notification; delivery loop, inactivity loop; `/event` and `/stop` callbacks | several transactions per request, work outside the lock on snapshots, crashes and failing statements between transactions, retries and at-least-once delivery |
| **agent runtime** (`orchestra_agents/runtime`) | the tasks it starts | `/event`, `/stop`, `/clear_context`, registration and heartbeat loop | a registration that fails ends the start, one heartbeat that fails ends the loop |
| **agent_mux backend** (`orchestra_agents/backends/agent_mux`) | files: queue, processing, failed, handled.json, active.json, sessions; in memory: processor task, active process | handle events, process queue, interrupt, stop, clear context | file renames and JSON writes that a crash separates; a stop that races the start of a process |
| **sgr backend** (`backends/sgr`) | in memory: context id, the latest event ids; chat history files | one turn per event under a turn lock, `/clear_context` | the turn runs inside the HTTP request, which the sender times out and sends again |
| **opencode backend** (`backends/opencode`) | in memory: context id, the latest event ids, one dispatch slot; a file: the context's session | dispatch tasks, `/stop`, `/clear_context` | one slot for many dispatch tasks; the session is looked up after the context was read |
| **OrchestraAgents** (`orchestra_agents/` service, launch, migration) | registry of manifests, compose files; external: Docker containers | start, stop, remove, restart, reload, auto-start at boot, status, backend switch | a request is a sequence of docker commands, each of which may fail or break off; manifests are looked up before the lock is waited for; the service may come back with the other container runtime |
| **scheduler_cron** | Postgres: jobs, runs; in memory: APScheduler | create, update, delete jobs; sync; fire | a cache of jobs that is only ever added to; counters read by id and written back by name; schedules nobody validates; runs that a crash leaves running |
| **telegram_events** | in memory: chat to thread, agent to MCP URL, SSE consumers; the relay: its 50 latest events, a queue per subscriber | register an agent, consume SSE events, forward messages to OrchestraThreads or carry out `/clear` | the relay repeats its events to every new session; exceptions in the middle of a stream, and streams that end without a sign; two consumers of one account; a thread that was closed meanwhile |
| **telegram_bot_listener** | one JSON file: last update id, survey sessions | poll updates, create a survey, press a button, `/done` | the offset is saved before the update is handled; surveys are created beside the polling task; the state file may be torn |
| **events_engine** | none | deliver to an agent's `/event` | stateless relay |
| **task_registry**, **orchestra_memory**, **agent_log_analysis** | rows of tasks, memories, log records | single-statement reads and writes | little: each operation is one transaction |
| **docker_mcp**, **telegram MCP**, **orchestra_thread/mcp**, **agent_cli**, UI, deploy | none | tool wrappers, scripts | none modelled |

How they interact. A client (an agent through its MCP tools, telegram_events)
POSTs a message or a notification to OrchestraThreads. The service appends an
event to a thread. The delivery loop POSTs pending events to the callback of
the recipient, an agent runtime, whose backend queues or runs them. Closing a
thread makes the service POST `/stop` to the peer and close the child threads.
events_engine and scheduler_cron POST `/event` to agents directly.

## Properties that make the core correct

OrchestraThreads:

- A pair of agents has one live thread under a parent (`OneLiveThreadPerPair`).
- `done` and `closed` are final (`TerminalIsFinal`).
- Events of a live thread are delivered at least once (`NoEventLost`), events of
  a terminal one are withdrawn (`TerminalHasNoPending`).
- Terminal parents end their descendants (`CascadeCoversChildren`,
  `CascadeCompletes`), and nothing else closes a thread
  (`ClosedOnlyUnderTerminalParent`) or stops an agent (`StopOnlyWhenClosing`).
- A request repeated under its key is carried out once (`OneAppendPerKey`), an event is
  sent again only for a reason (`RedeliveryIsBounded`).
- Agents that beat stay online (`BeatingIsOnline`) and get their events, whoever
  else is gone (`OnlineIsServed`).

The backends:

- What was accepted is kept (`HandledIsKept`), worked off in order, once and in
  the end (`InOrder`, `CompletedOnce`, `HandledIsSettled`, `QueueIsWatched`).
- What waits for a stopped thread is not started (`StopEmptiesQueue`), and `/stop`
  finds the latest dispatch (`SlotIsKept`).
- Contexts do not mix (`DispatchInContext`, `OneContextPerSession`).
- An event delivered again is not worked on again (`NoRepeat`), and no lock is held
  for ever (`LocksAreReleased`).

The services around them:

- Scheduled jobs: a one-time job is executed once (`OnceIsOnce`), finished runs are
  counted (`RunsAreCounted`), only jobs that were enabled run (`RunsWereEnabled`),
  and those that stay enabled are scheduled (`EnabledIsScheduled`).
- Containers: what compose made can be stopped (`StaysStoppable`), answers are true
  (`AnswersAreTrue`), manifests do not roll back (`NoRollback`), every eligible agent is
  started with the service (`AutoStartCovers`).
- Surveys: no update takes effect twice (`HandledOnce`), a survey lives as
  `SurveyLifecycle` says (`KeepsSurveys`), updates are handled (`HealthyIsServed`).
- Telegram messages: appended once and in the order of the relay's memory
  (`ForwardedInOrder`), and none that the relay still has is left out (`RecentIsForwarded`).

## Modules

| Module | Models | Status |
| --- | --- | --- |
| `ThreadStore` | the tables of OrchestraThreads, one operator per committed transaction | checked, proved about |
| `ThreadService` (extends `ThreadStore`) | the flows: messages, notifications, cascades, delivery rounds, inactivity sweeps, crashes and failing statements | checked, proved about |
| `ThreadDelivery` | the delivery loop in time: leases, heartbeats and their requests, rounds of bounded size, backoff, overlapping rounds, restarts | checked, proved about |
| `AtLeastOnce` | the abstract promise of delivery, implemented by both `ThreadService` and `ThreadDelivery` | refined |
| `AgentMux` | the agent_mux backend: queue files, handled ids, the processor task, its process, `/stop`, `/clear_context`, restarts | checked, proved about |
| `AgentRuntime` | the opencode and the sgr backend: turns, duplicates, `/stop`, `/clear_context`, the session mapping, restarts | checked, proved about |
| `AgentLifecycle` | the lifecycle service of OrchestraAgents with both container runtimes | checked, proved about |
| `SchedulerCron` | the scheduler: table, APScheduler, sync, built-in jobs, runs | checked, proved about |
| `TelegramBotListener` | the polling task, surveys and their publication, the state file | checked, proved about |
| `SurveyLifecycle` | the abstract life of a survey, implemented by `TelegramBotListener` | refined |
| `TelegramBridge` | telegram_events with the relays it reads and what it uses of the thread service | checked, proved about |
| `MCThreadService`, `MCThreadDelivery`, `MCAgentMux`, `MCAgentRuntime`, `MCSchedulerCron`, `MCTelegramBotListener`, `MCTelegramBridge` | values of the constants for TLC | |
| `*_proofs` | theorems, see below | |

### ThreadStore and ThreadService

A thread row is spread over functions, one per column (`status`, `parent`,
`owner`, `pair`, `lastSender`); `log[t]` is `thread_events` of `t` in
`sequence_no` order, `pending` and `delivered` are the events with
`pending_delivery` and with `delivered_at`, `saved` the keys of
`idempotency_keys`. The two activity timestamps become `quiet[t]`: both are older
than the inactivity cutoff, which the action `Clock` may make true at any time.

`service._lock` is `locked`: which section holds it, and how far it has come.
Every transaction of a section is one action, so a fault can fall between any two:
the process dies and is started again (`Crash`), or a statement raises, which the
section, the candidate of a sweep or the cascade does not survive, while all
others go on (`SectionFails`, `InactivityFails`, `TaskFails`). The lock is free after
either. `faults` counts both:

- `BeginMessage` (checks, idempotency lookup, thread lookup or insert),
  `AppendMessage`, `SaveResponse`;
- `BeginNotification` (checks and append), `CancelEvents` for a terminal status,
  `SaveResponse`; what `send_notification` does after it has a response is a
  cascade task in `tasks`. `RepeatNotification` is a terminal notification that
  is answered from the idempotency table: it starts such a task again;
- a task's stages are the awaits of `_ChildCascadeFlow`: `NotifyPeer`,
  `ListChildren` (no lock), `HaltParticipants`, `CloseChild`,
  `CancelChildEvents`, and the list of the closed child's children. A `/stop` is
  accepted or lost, never sent twice;
- `StartRound` takes a snapshot of due events; each is then posted, and failed or
  marked delivered, on its own (`PostEvent`, `FailEvent`, `FinishEvent`). A POST may
  be accepted and its answer lost;
- `StartSweep`, `BeginInactivity`, `FinishInactivity`, and `RefuseInactivity` for a
  candidate whose thread has become terminal, after which the other candidates
  are late: they run beside the next sweep.

Which events are due, whether an agent holds a lease and what becomes of a POST
are open choices here. Message texts, timestamps and the order of `thread_events`
across threads are left out. A thread's participants are a set, as
`normalize_participants` makes them.

### ThreadDelivery

The choices that `ThreadService` leaves open, in time. `seen[a]` is the age of
`agents.last_seen_at`; `due` is the order in which the query finds the pending events,
`wait[e]` the time until the next attempt, `attempts[e]` the attempts made. `Tick` is one
unit of time.

An agent is `down`, `starting` (its registration is under way), `beating`, or `silent`:
running, but its heartbeat task has ended, because nothing catches the exception of
a failed heartbeat. A registration or a heartbeat is a `request`: `sent` (`Start`, `Beat`);
`written`, the service has carried it out and its answer is still to come (`Register`,
`Heartbeat`); `broken`, cut off by the service's stop. `Answer` sends the loop to sleep,
`RequestFails` ends it, or the start. `since[a]` is the time since the request was sent, or
since the loop went to sleep. A request is answered or given up within `Latency`; one that
the client gives up and the service carries out later counts as carried out before.

`DatabaseError` is an exception that leaves `asyncio.gather`: the loop starts the next round
while the other tasks of this one go on (`number`, `current`). `taken[e]` counts how often
the agent's callback has accepted an event. Outages, lost POSTs, database errors, and
runtimes or heartbeats that are lost share one bound, `MaxFaults`.

`DeliveryAssumption` has `HeartbeatEvery + Latency <= Lease`: a lease covers the loop's sleep
and one request. The defaults satisfy it (heartbeats every 15 s, client timeout 10 s, lease
30 s), the code does not enforce it: `agent_lease_seconds` may be set as low as 5 s. It does
not keep every beating agent online: a row written early in one slow request and late
in the next is as old as the sleep and both requests, 35 s with the defaults. The model has
that lapse, and `BeatingIsOnline` says that there is no other.

### AtLeastOnce

An event is owed until it is settled or withdrawn; it may be accepted any number
of times; it is settled only after it has been accepted; it is withdrawn only when
its thread has ended; an ended thread owes nothing new. `KeepsPromise` in
`ThreadService` maps *ended* to the terminal threads, *owed* to `pending`, *accepted* to
`received`, *settled* to `delivered`, and *withdrawn* to the events for an agent that
are in neither. `KeepsPromise` in `ThreadDelivery` is the same without threads that
end.

### AgentMux

`queue`, `processing` and `failed` are the entries in the three directories, `handled` the
keys of `handled_events.json`, `counter` the next queue id, `generation` the context
generation. `task[p]` is a processor task with its step: `scheduled`, `claiming` (it has
the event loop), `spawning`, `running`, `pausing`, `ended`; `current` is `_processor_task`,
`process` is `_active_process`. Because no section under `_task_lock` awaits anything,
a handler is one step; `clear_context` is three (`BeginClear`, `CancelledTask`,
`FinishClear`), around its await of the cancelled task. The task gives up the event loop
where the code awaits: for the spawn, for the process, for the pause after a failure.
What an agent-mux process does is external: it ends well or it fails, and a
terminated one may still have ended well.

`Runs` has the one fact about the order of the event loop that matters: once the
cancelled task has ended, `clear_context` is queued to go on, so a task created by a
delivery that arrives then starts only after it.

`stopped` has the events of a thread a `/stop` named, but for the dispatch it found, until they are
delivered again; it is there for `StopEmptiesQueue`.

A second `/clear_context` beside the first, `/reset_session`, mailboxes of sessions, and
the memory of contexts are not modelled.

### AgentRuntime

The backend (`backend`) is opencode or sgr; `context` is `context.current_id`, `remembered` the
bounded memory of event ids (`DedupState`, the event ids of `sgr`), `tasks` the turns under
way in the order of the lock each backend has, `turn` what the first of them is doing.

- opencode: `Accept` answers a delivery and fires a dispatch, `Dispatch` reads the context
  under the lock, `GetSession` and `CreateSession` are `get_or_create_session` under the
  session manager's own lock, `Sent` and `DispatchFails` the end of the prompt and
  `_on_dispatch_done`; `slot` is `DispatchState`, `StopDispatch` is `/stop`. `ClearBegin`,
  `ClearLock`, `ClearDelete` (or `ClearFails`) are the awaits of `clear_context`. `mapping`
  and `mapped` are the session of a context in memory and in its file.
- sgr: `Queue` is a delivery that waits for the turn lock, `BeginTurn` looks for a duplicate
  under it, `FinishTurn` records the event, `TurnFails` does not; `Clear` does not take the
  lock.
- `Crash` and `Restart`: the new process has a new context id, and takes over the mapping
  of the file when the opencode server still lists the session.

`sessions` (which contexts each session got prompts of), `turns` and `since` (how often an event
was worked on, and what was remembered since it was) are there for the properties. The
start of the opencode server, prompts, chat histories, `/reset_session`, and the steps of a
turn are left out.

### AgentLifecycle

`disk` and `registry` number the manifest of each slug in its file and in the service; `queue`
is the order of the service's lock, `work` the docker command the first request has come to.
`container` is docker's, with the manifest it was made from and the runtime that made it;
`file` is the compose file. A request is looked up (`Ask`), queued, and then is a sequence
of commands, the awaits of `asyncio.to_thread` aside; each command (`Command`) succeeds, fails,
or raises after it had its effect. `Boot` loads the registry and may come with the other
`ORCHESTRA_AGENTS_RUNTIME`; `Pass` and `PassNext` are `start_agents`. An agent's process may end
(`Exit`), users edit manifests or make them invalid (`Edit`). The agents are numbered in the
order in which the pass takes them, that of their manifests' paths. The backend switch
(`_migration_*`) is a script that works on a temporary manifest and starts and stops agents
through the same operations; it keeps no state and is left out.

### SchedulerCron

`rows` and `runs` are the tables, `scheduled` the jobs in APScheduler, `sync` the listing of the
minute's sync, `boot` the progress of the built-in jobs, `task[j]` the statement a run of `j`
has come to: `CreateRun`, the posted event (`Execute`), `CompleteRun`, the counters read
(`ReadJob`) and written back (`CountRun`), and, of a job with `auto_delete`, its removal from
the scheduler (`RemoveEntry`) and from the table (`DeleteDone`). `ListLimit` stands for the 100
rows a sync lists. Others create, enable, disable and delete jobs at any time (`CreateJob`,
`SetEnabled`, `DeleteJob`). When a trigger is due is open: any job the scheduler holds may fire.

A job is an id; `Name` gives its name, which is free again once its row is deleted. The run reads
by id but writes its counter and deletes by name, so `WriteCount` and `Delete` work on the row
that has the name now (`Namesakes`). `heirs` are the jobs created while a run of a deleted
job of their name was about to write. For the jobs in `Unparsable` no trigger can be made: a
sync adds the others and raises (`SyncAdd`), and at start the process ends (`SyncRaises`).
`done`, `cuts`, `seen` and `heirs` are there for the properties; `MaxEvents` bounds what others
change, statements that fail and stops together.

What the model assumes: one sync at a time and one run of a job at a time (APScheduler's
`max_instances` of 1, and the loop awaits each sync), ids are not used again, and nobody
deletes the rows of built-in jobs. `pause_job` and `resume_job` are left out: nothing
calls them.

### TelegramBotListener and SurveyLifecycle

`last`, `status`, `answers` and `active` are the state store; because each mutation writes the
whole file before it releases the store's lock, memory and file are one state, unless the
process dies while it writes (`Crash(TRUE)`, after which `readable` is false). `poller` is the
polling task: `GetUpdates`, `Mark` (the offset is saved), and then what the update is:
`Ignore`, `Text`, `Done` followed by `Publish`, or `Select` followed by `AnswerCallback`. An
exception (`GetUpdatesFails`, `PublishFails`) makes the task `dead`; nothing starts it again but a
restart of the process. `CreateSurvey`, `SendIntro` and `SendQuestion` are the HTTP request that
opens a survey, beside that task.

`SurveyLifecycle` is the promise: a user has one active survey; answers change while it is
active; it is reported at most once, with the answers it had at `/done`. `KeepsSurveys` maps its
variables to those of the same names.

### TelegramBridge

Updates are numbers in the order in which the relays came to remember them (`Arrive`): a relay
looks up sender and chat of each message first, of several messages at a time. Of a relay there is
`recent` (`_recent_events`); what it has sent to a consumer and what the consumer has not looked at
yet, the relay's queue, the wire and the client's buffer, are one `inbox`, of which the
relay's end holds `QueueLimit`. `owner` is `_by_mcp_url`, `current` is `_consumers_by_mcp_url`,
`binding` is `_threads_by_chat`. `Register` gives an account to an agent and starts a consumer;
the agent's consumer of before is stopped after the lock (`StopConsumer`), and may still
wait for an answer.

A consumer connects and begins with what the relay repeats (`Connect`), handles one
update after the other, and any exception ends its session (`Ended`). A stream that is lost
(`LoseStream`) ends the session (`End`), or is lost without a sign: the client reads without
a timeout, and the consumer waits for ever (`Hang`). A message is sent
(`Send`) with the thread its chat is bound to, under a `client_request_id` made from chat and message,
and its chat is bound to the thread of the answer (`Bind`); it may be refused (`Refuse`), or its
request or answer lost (`LoseAnswer`). `/clear` is carried out and unbinds the chat, or fails and
is only logged (`Clear`, `ClearFails`). `Restart` and `RestartRelay` lose what the two keep in memory.

Of OrchestraThreads only what the bridge depends on is here: a request whose response was
saved is answered as it was the first time, a message without a thread goes to the live thread
of the pair, one to a thread that has ended or is another agent's is refused (checked for
the service itself in `ThreadService`), and so is every message to an agent that is no allowed peer
(not in `Contacts`), even one that was answered before. The service may fail before the
append, and between the append and the saving of the response (`Fails`): `log` has for each
message whether it was saved. A request the bridge has given up is carried out before
its next one or not at all, as `service._lock` wakes its waiters in the order they came. The
`client_request_id`s of two updates differ.

## Runs

Every cfg but `lifecycle.cfg` says `CHECK_DEADLOCK FALSE`: requests, updates, faults, crashes and
restarts are bounded, and when the bounds are used up and the work is done the system is
idle, as the code then is.

| Run | Shows | Bounds and why they are enough |
| --- | --- | --- |
| `threads_cascade` | no live child of a terminal thread is missed (`CascadeCoversChildren`); `OneLiveThreadPerPair`; `StopOnlyWhenClosing` | 3 agents around a hub and 3 threads: a parent, a child and a grandchild, or siblings; two events per thread let each be opened and closed |
| `threads_delivery` | `NoEventLost`, `TerminalHasNoPending`, and the implementation of `AtLeastOnce` | 2 agents, 2 threads, one crash or failing statement; a round may overlap a close, a cascade and a reply |
| `threads_sweeps` | `InactiveToASender`, `OneAppendPerKey`, `TerminalIsFinal`, `ClosedOnlyUnderTerminalParent` | 2 agents, 2 threads, one key, one repeat of a request, one crash or failing statement; 3 events per thread are a message, an answer and an inactivity event between them |
| `threads_liveness` | `CascadeCompletes`: under fairness and without a fault every descendant of a terminal thread ends | a chain of 3 threads, with `in_progress`, `done` and `closed` |
| `delivery_loop` | types, `BeatingIsOnline`, `RedeliveryIsBounded`, the implementation of `AtLeastOnce`, and `OnlineIsServed`: the events of an agent that holds its lease are delivered, however many others are retried | 2 agents, rounds of one event, so the events compete for every round; one agent runs, the other never does; any two of the faults; the lease is exactly the sleep and one request, so it lapses when both requests around a sleep are slow; the delay grows from 1 to `RetryMax` = 2, and the exponent reaches its cap |
| `mux_queue` | `HandledIsKept`, `QueueIsWatched`, `InOrder`, `CompletedOnce`, `StopEmptiesQueue` | 3 deliveries of up to 2 of 3 events: one that needs no response, one that interrupts, and one that does neither of the two; 2 attempts; `/stop`; one restart, in the middle of queueing too |
| `mux_clear` | `DispatchInContext`, and `HandledIsSettled`: what has been accepted is worked off, given up or withdrawn | two `/clear_context`, so that one may meet what the other left; no restart |
| `runtimes` | `OneContextPerSession`, `SlotIsKept`, `NoRepeat`, `LocksAreReleased` | either backend; 5 deliveries of 3 events to a backend that remembers 2, so that one is forgotten and comes again; 2 clears, one fault or restart |
| `lifecycle` | `StaysStoppable`, `AnswersAreTrue`, `NoRollback`, `AutoStartCovers` | 2 agents that start with the service, one of which users ask for; 2 requests, so that one waits behind a reload or an edit; one crash, after which either runtime may come |
| `scheduler_jobs` | `OnceIsOnce`, `RunsAreCounted`, `RunsWereEnabled`, `EnabledIsScheduled` | a built-in cron job and two one-time jobs of one name, one that deletes itself, and one without a trigger; a sync lists one row, so the jobs compete; 2 fires, so that two runs overlap; 3 changes by others, faults and stops together: a job can be deleted and created anew during a run |
| `listener_surveys` | `HandledOnce`, `HealthyIsServed`, and the implementation of `SurveyLifecycle` | 2 surveys of one user compete for being the active one; 4 updates are two presses and two `/done`; one crash, one failing call |
| `bridge_stream` | `ForwardedInOrder`, `RecentIsForwarded` | 3 agents, one of which moves between 2 accounts, and one of which the bridge may not write to; one chat and 3 updates, one more than the relay remembers; `RecentLimit` = `QueueLimit` is the boundary, the service has 50 and 100; 3 registrations, lost requests, failures of the service, broken streams and restarts together, so that an account is read anew beside an old consumer, or one registration sees two faults |

Symmetry is used in runs of safety properties only: agents (but the hub) and thread ids
are only compared with each other.

`OneAppendPerKey`, `RedeliveryIsBounded`, `CompletedOnce`, `OnceIsOnce`, `RunsAreCounted` and
`HandledOnce` count the faults: what the code promises is once, and once more (or one update
less) for a fault in the window between two writes. `ForwardedInOrder` says the same of
each message: again only when the response to it was not saved. `CascadeCoversChildren`,
`TerminalHasNoPending` and `StopOnlyWhenClosing` are about a service in which nothing has failed,
neither the process nor a statement.

### Fairness

- `ThreadService`: weak fairness for the sections that hold the lock, because asyncio
  runs what is ready and every database call ends; strong fairness for the
  cascades, because they wait for the lock again and again and `asyncio.Lock` wakes its
  waiters in the order they came. None for clients, clocks and faults.
- `ThreadDelivery`: weak fairness for the start of rounds, for the tasks of a round (the
  client's timeout ends each POST), for the waking of a heartbeat loop and for the end of its
  request (answered, or given up after the client's timeout), for time, and for the start of
  the service (its container is restarted). None for `DatabaseError`, for the agents' coming
  and going, or for failures.
- `AgentMux`: weak fairness for the processor tasks (`timeout_sec` ends every process), for
  the rest of `clear_context`, and for `on_start`. None for deliveries, `/stop` or `GoDown`.
- `AgentRuntime`: weak fairness for the turn that holds the lock and for `clear_context`: every
  call they make has a timeout. None for deliveries, `/stop`, faults and restarts.
- `AgentLifecycle`: weak fairness for the auto-start pass and for the request that holds the lock:
  every docker command ends, if only by its timeout. None for users, crashes and boots.
- `SchedulerCron`: weak fairness for the start of the service (its container is restarted), for the
  sync (its exception included), the built-in jobs and the steps of a run. None for `Fire`: APScheduler may
  skip a run; none for others' changes and faults.
- `TelegramBotListener`: weak fairness for the polling task and for the start of the process. None
  for users, for the requests of the agent's tools, or for crashes.
- `TelegramBridge`: weak fairness for each consumer: asyncio runs what is ready and a timeout ends
  every request. No timeout ends the wait for the stream's next update (`sse_consumer.py:42`), so
  a consumer whose stream was lost goes on only if the loss is noticed: `Hang` is the other
  case, and nothing of such a consumer is fair. None for users, agents that register or end
  threads, lost answers, broken streams and restarts.

## Where the code and its documents differ

The models have the following behaviours. No property forbids them: each is excepted by the
property it would violate, or outside of what that property is about.

OrchestraThreads:

- "Terminal parents close their children" (`ARCH-DRAFT.md:95`): the cascade is kept in memory
  only (`notification_flow.py:94`); after a crash no restart takes it up, and a statement of the
  cascade that fails ends it as well. `CascadeCompletes` is checked without a fault.
- A statement that fails between the append and the saved response (`message_flow.py:88-94`)
  leaves the event in the thread and the key unknown; the client that repeats the request
  under its `client_request_id` appends it again. `OneAppendPerKey` counts that fault like a
  crash.
- "Pending events are retried until the agent is online and accepts" (`ARCH-DRAFT.md:128`):
  nothing catches the exception of a failed heartbeat (`registration/threads.py:61`), so a running
  agent whose heartbeat failed once never comes online again. `OnlineIsServed` is about
  agents that stay online.
- The lease (30 s) need not outlast a heartbeat that was written early in one slow request
  and late in the next (`registration/threads.py:57-61`, up to 35 s): for that while the agent
  counts as offline, and its events fail. `BeatingIsOnline` excepts agents with a heartbeat
  under way that the service has not carried out.
- The recipient of an inactivity event is read before the lock is taken again, so it
  may be an earlier sender and not the last one, as `ARCH-DRAFT.md:121` has it. What does
  hold is `InactiveToASender`.
- A `closed` notification that is answered from the saved response of another
  operation (a client that uses one `client_request_id` twice, `KeyReuse = TRUE`) sends
  `/stop` and cascades although the thread stays live: `StopOnlyWhenClosing` and
  `ClosedOnlyUnderTerminalParent` hold for `KeyReuse = FALSE` only. The other properties, and
  the theorems about them, are for both.

agent_mux:

- "Queue and deduplicate events durably" (`agent-mux-refactor.md:42`): `claim_next_entry`
  (`queue_store.py:176`) only looks in the queue directory, so the entry that was claimed before
  a restart stays in the processing directory for ever. `HandledIsSettled` is checked
  without a restart, `HandledIsKept` with one.
- After `/stop` the backend waits for a new event (`unified_backend_semantics.md:77`): the
  terminated process counts as a failure (`queue_processor.py:66`), and its event is retried.
  `StopEmptiesQueue` is about the events that were waiting.
- A `/stop` between the claim of an entry and the start of its process reaches nothing
  (`unified_backend_semantics.md:76`: "must stop active work").
- The redelivery of an interrupting event that is already known interrupts again
  (`unified_backend_semantics.md:49`).
- `/clear_context` keeps `handled_events.json` (`unified_backend_semantics.md:111`: "must reset
  delivery tracking state").
- A delivery that arrives while `clear_context` waits to go on creates a task that
  `clear_context` then forgets; the next delivery creates a second one beside it, and
  the queue is no longer worked off in order. So `InOrder` is checked without
  `/clear_context` (`mux_queue`), and `DispatchInContext` speaks of the known task.

opencode and sgr:

- `/stop` reaches the latest dispatch only; those that wait behind or before it run on.
- An opencode event that was answered and whose dispatch then fails, or is lost by a restart,
  is not worked on again: the sender has been told that it was accepted.
- An exception a dispatch does not expect leaves the slot, and the next `/stop` of that thread
  raises.
- An sgr turn that ends after `/clear_context` records its event in the new context's memory.

OrchestraAgents:

- `docker ps` that fails counts as a missing container: `stop` then reports success and the
  container runs. So does `stop` through compose of a container that compose did not make.
- `ensure_compose_metadata` lets `remove` pass when there is neither compose file nor container
  (`_compose_runtime_helpers.py:120`), and the compose command then raises for want of the file.
- The docker command line runtime starts a container that is there, whatever manifest it was
  made from.
- An agent whose manifest has become invalid cannot be stopped any more after a reload.
- A restart that fails between removing the old container and making the new one leaves the
  agent down. A request that waits behind a reload uses the manifest from before it.

scheduler_cron:

- A job that is disabled in the table stays in the scheduler until the service is restarted: the
  sync only adds. A run that a crash cut short stays `running` in the table for ever.
- A run writes its counter and deletes its job by name (`scheduler_engine_runtime.py:126-133`): a
  job that was deleted and created anew under the name meanwhile gets the old one's count,
  or is deleted in the old one's place while its entry stays in the scheduler. `RunsAreCounted`
  excepts the first (`heirs`).
- A schedule is never validated (`schema.sql`, `store_jobs_create.py`). One that gives no trigger
  raises in every sync (`scheduler_engine_support.py:23-28`), which the loop logs once a minute;
  in the first sync after a start it ends the process, and so does every start until the row is
  changed. `EnabledIsScheduled` is about the other jobs.

telegram_bot_listener:

- `service_main.py:51` runs `main` before `_serve` is defined, so `python -m` of that file logs a
  NameError and exits with 1 as soon as it would serve. `docker-compose.yml:428` starts it that way in
  an entry that is commented out. The module models the service that such an entry point is
  to run.
- Any exception in the polling task ends it while the HTTP server stays up.
- A finished survey whose publication fails is not published again. A state file torn by a
  crash keeps the process from starting.

telegram_events:

- "Inbound Telegram updates are mapped to the registered slug for that source MCP URL, then
  forwarded through `events-engine`" (`telegram_events/docs/README.md:19`): messages go to
  OrchestraThreads, and one whose chat is bound to a thread that has ended, or that is
  another agent's, is refused; so is every message to an agent that is no allowed peer
  (`_ensure_peer_allowed`, `orchestra_thread/service/runtime.py:348-360`). The refusal ends the
  stream, the relay repeats the message with every new one, and what comes behind it waits,
  the `/clear` that would unbind the chat included, until the relay has forgotten the message. `RecentIsForwarded` excepts
  accounts that have such a message.
- The order in which users wrote is not kept: the relay's handlers wait for sender and chat
  (`listener/message_data.py:85-90`) before a message is remembered, and the Telegram client
  runs them concurrently (`listener/telethon.py:18-20` does not ask for `sequential_updates`).
  `ForwardedInOrder` starts from the order in which the relay remembers.
- A stream that is lost without a sign is never noticed: the client reads without a timeout
  (`sse_consumer.py:42`) and the relay sends nothing when it has nothing to say
  (`relay_compat_http_support.py:8-16`). The account is then not read until the bridge restarts.
  `RecentIsForwarded` excepts such a consumer (`hung`).
- An old `/clear` that the relay repeats is carried out again with every reconnect; one that fails
  is dropped.
- Request ids and bindings do not name the account: two accounts of the same user may collide.
- A restart of telegram_events loses the registrations, which agents send only when they start; a
  restart of a relay loses what was not forwarded.
- The order of messages needs a queue at least as long as the relay's memory
  (`RecentLimit <= QueueLimit`), which holds of the constants but is stated nowhere.

## What is proved

For every value of the constants that the assumptions `NoneAssumption`,
`ServiceAssumption`, `NoRequestAssumption`, `DeliveryAssumption`, `AgentMuxAssumption`,
`RuntimeAssumption`, `SchedulerCronAssumption`, `ListenerAssumption`, `BridgeAssumption` and
`LifecycleAssumption` allow. Each of them says what the constants are; that `None`
(SQL's NULL, Python's None) is none of the values it stands beside; and, of numbers, what
the code's defaults satisfy: leases that cover the heartbeat loop's sleep and one request (`DeliveryAssumption`), a
relay's memory no longer than a subscriber's queue (`BridgeAssumption`). The bounds of the
runs (`MaxSeq`, `MaxFaults`, ...) are arbitrary numbers here.

| Theorem | Says | Rests on |
| --- | --- | --- |
| `TypeCorrect` (`ThreadService_proofs`) | `[]TypeOK` of the thread service | inductive as it stands |
| `TerminalThreadsAreFinal` | `TerminalIsFinal` | every write to a thread goes through `AppendEvent` or `CloseThread`, which need a live row (`StepKeepsThreads`) |
| `OneThreadPerPair` | `[]OneLiveThreadPerPair` | only `GetOrCreate` makes a thread live, and it looks first (`StepOpensNothing`, `MessageOpensOne`) |
| `CascadeMissesNoChild` | `[]CascadeCoversChildren` | `LockInv` and `TaskInv`: a section that withdraws events works on the thread it made terminal; a cascade cancels only while it holds the lock. Without them an abandoned section could hide a child |
| `EventsAreKept` | `[]NoEventLost` | `AnswerInv`: an event whose answer is back has been received |
| `TerminalThreadsAreSilent` | `[]TerminalHasNoPending` | the same `LockInv` and `TaskInv` |
| `ServiceKeepsPromise` | the thread service implements `AtLeastOnce` | `RowsInv`: rows and rounds name events for an agent, none is pending and delivered at a time |
| `CascadesCloseOrphans` | `ClosedOnlyUnderTerminalParent`, if `KeyReuse = FALSE` | `SentInv`: the section works on the one request its key stands for, so a saved terminal notification did end its thread; `CauseInv`: what a cascade has listed, however long ago, has a terminal parent, because a parent is never changed and a terminal thread stays so |
| `StopsAreForEndingThreads` | `[]StopOnlyWhenClosing`, if `KeyReuse = FALSE` | the same two |
| `InactivityGoesToSenders` | `[]InactiveToASender` | `SenderInv`: the last sender of a thread, and so the agent of a stale snapshot, has sent a message there |
| `RequestsAreCarriedOutOnce` | `[]OneAppendPerKey` | `KeyInv`: a request has at most as many events as there were faults, and one more once it is saved or about to be (`Spent`) |
| `BeatingAgentsAreOnline` | `[]BeatingIsOnline` | `LeaseInv`: a row that the request under way has written is no older than the request, and one that the sleeping loop left is older than its sleep by `Latency` at most |
| `DeliveryKeepsPromise` | the timed loop implements `AtLeastOnce` | `TaskInv` of that module: late tasks know their event's fate too |
| `EventsAreRedeliveredForFaultsOnly` | `[]RedeliveryIsBounded` | `BoundInv`: what an event has been accepted for and what its tasks may still be (`Posts`, `Underway`) are covered by one and the faults so far (`Spent`), and where the round that the loop awaits has no task that may deliver it, by the faults alone |
| `DeliveryTypeCorrect` | `[]TypeOK` of the delivery loop | `TypeInv`: the order of the query has exactly the pending events whose wait is over, each once; `RemoveFirst` takes one out |
| `MuxTypeCorrect` | `[]TypeOK` of the agent_mux backend | inductive as it stands |
| `HandledEventsAreKept` | `[]HandledIsKept` | `TypeOK`: a dispatching task has an entry |
| `QueuedEventsAreWatched` | `[]QueueIsWatched` | inductive with `TypeOK` |
| `DispatchesInContext` | `[]DispatchInContext` | `ContextInv`: what `clear_context` cancels is the current task and stays it until its cancellation was awaited |
| `StopsReachTheQueue` | `StopEmptiesQueue` | `StoppedInv`: what a `/stop` withdrew is neither queued nor dispatched |
| `EventsAreCompletedOnce` | `[]CompletedOnce` | `IdsInv`: queue numbers are unique; `CountInv`: an event is completed, queued and dispatched once for its id in `handled_events.json`, and once more for each restart that came before the file was written |
| `QueueIsInOrder` | `[](generation = 0 => InOrder)` | `OrderInv`: until the first `/clear_context` no task is forgotten, so only the current one is alive. `mux_queue` checks `InOrder` without `/clear_context`; the hypothesis says the same of a behaviour |
| `RuntimeTypeCorrect` | `[](TypeOK /\ IdsInv)` of the opencode and sgr backends | `IdsInv`: turns wait in the order of their deliveries, the slot is of one of these |
| `SlotNamesTheDispatch` | `SlotIsKept` | `IdsInv`: only a later delivery can take the slot |
| `SessionsAreOfOneContext` | `[]OneContextPerSession` | `SessionsInv`: the mapping in memory and the one in the file name the context whose prompts their session got |
| `TurnsAreNotRepeated` | `NoRepeat` | `MemoryInv`: what is forgotten has had `Limit` others remembered after it; `TurnInv`: the turn that holds the lock is not for a remembered event |
| `ListenerTypeCorrect` | `[](TypeOK /\ PollerInv)` of the bot listener | `PollerInv`: the task works on its batch, and the offset never runs ahead of the updates |
| `UpdatesAreHandledOnce` | `[]HandledOnce` | `HandledInv`: what took effect came before the update in hand; what was marked and did not is that one, and one for each crash |
| `ListenerKeepsSurveys` | the listener implements `SurveyLifecycle` | `SessionInv`: the store knows the one active session of each user; only the task that completed a session publishes it |
| `MessagesAreForwardedInOrder` | `[]ForwardedInOrder` | `BridgeInv`, see below |
| `TypeCorrect` (`SchedulerCron_proofs`) | `[]TypeOK` of the scheduler | `TypeInv`: only jobs with `auto_delete` are being deleted, a built-in job whose row was found keeps it until it is written |
| `DisabledJobsAreForgotten` | `[]RunsWereEnabled` | `SeenInv`: what is enabled, listed, about to be added or running has been enabled since the start, and a service that is down holds nothing |
| `OnceJobsRunOnce` | `[]OnceIsOnce` | `TableInv`: no id comes back to the table; `OnceInv`: where a job may still be executed, every execution before was cut short |
| `FinishedRunsAreCounted` | `[]RunsAreCounted` | `NameInv`: no two rows have a name, and a row whose name a writing run has is that run's or an heir; `CountInv`: the counter a run has read is still the row's when it writes, because only runs of the job, one at a time, write it, and no run of another |
| `LifecycleTypeCorrect` | `[]TypeOK` of the lifecycle service | `QueueInv`: only a request for an agent works, and a service that is down has none |
| `ContainersStayStoppable` | `[]StaysStoppable` | `FileInv` and `Ready`: what each step of a request relies on, so that the compose file is written before the container is made and unlinked after it is gone |
| `RequestsAnswerTheTruth` | `[]AnswersAreTrue` | the same `LifeInv`: `Ready("answer")` is what the answer says |
| `ManifestsNeverRollBack` | `NoRollback` | `VersionInv`: the requests of an agent wait in the order of their manifests, and none is older than the newest container (`Ordered`) |

Each proof has one step per action. The steps that leave a property's state alone are
gathered in a frame lemma (`CalmFrame`, `KeptFrame`, `RowsFrame`, ...), and the temporal
step comes last.

The order of messages takes the longest argument. `NewestInv` says that where consumers
of an account follow one another, a message that the relay repeats or a consumer holds and
that is not in the log is newer than what is there. A step that appends a message needs more:
whatever else waits must be newer than that one. That is `ConsumerInv` (an inbox is in order
and behind the update in hand), `RecentInv` (a relay repeats the newest updates of its account,
without a gap), `AloneInv` (a consumer that was started alone stays alone), and `Follows`: while
a consumer reads, a message it does not hold and the relay repeats came after all it holds, to
a stream that is down. Two things could break `Follows`: an update is thrown away because nobody
owns the account (`Deaf`; the next owner gets a consumer of its own, and where the old one has not
ended by then, consumers do not follow one another), and a full queue drops its oldest one. `DroppedIsForgotten` shows by counting that
the relay does not repeat what was dropped: it would remember `QueueLimit + 1` updates, more than
`RecentLimit`.

Only model-checked: the liveness properties (`CascadeCompletes`, `OnlineIsServed`,
`HandledIsSettled`, `LocksAreReleased`, `EnabledIsScheduled`, `AutoStartCovers`, `HealthyIsServed`,
`RecentIsForwarded`). They rest on fairness and so on `ENABLED`, which is out of the prover's
reach, as is induction over data. Every invariant and every action property of the runs has a
theorem; for those two that need `KeyReuse = FALSE`, the runs that check them have it so.

## Not modelled

The reads and the wire formats of every service, authentication, and:

- OrchestraThreads' read side and MCP tools, events_engine, docker_mcp, the other MCP servers:
  they pass requests on and keep no state.
- task_registry, orchestra_memory, agent_log_analysis: every operation is one
  statement or one transaction, nothing interleaves, and no other component reads their state.
- The manifests' parsing and rendering: configuration in, configuration out, with
  unit tests of its own.
- Schema migrations, scripts, images and deployment.
- Of the modelled components: prompts and what models answer, context memory and session
  mailboxes of agent_mux, chat histories of sgr, the start of the opencode server, the
  retries of an agent's registrations (each is one of its own), the backend switch, the synthetic event telegram_events sends after a
  `/clear` and a registration whose consumer cannot be made, transcripts of the
  bot listener, triggers and their times in the scheduler.

## Plan

Done, in this order: the thread service with its store; the agent_mux backend; delivery in
time; the abstract promise, refined by both; the scheduler; the bot listener with the
life of a survey; the lifecycle service; the opencode and sgr backends; the Telegram bridge;
the proofs about scheduler and lifecycle service; theorems for every safety property of the
runs. Next:

1. `TelegramBridge` composed with `ThreadService`, in place of what it keeps of it; the same for
   `AgentRuntime` with `AtLeastOnce` as its sender.
2. `/reset_session` and the session mailboxes of agent_mux.
