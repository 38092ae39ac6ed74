---------------------------- MODULE ThreadService ----------------------------
(***************************************************************************)
(* The flows of the OrchestraThreads service over its store: messages,     *)
(* notifications, the cascade that closes the children of a terminal       *)
(* thread, the delivery loop and the inactivity loop.                      *)
(*                                                                         *)
(* One asyncio process runs them all.  service._lock serialises the        *)
(* sections that write; each section is several transactions, and a crash  *)
(* or an error of the database can fall between any two.  Everything that  *)
(* runs outside the lock (the /stop callbacks, list_child_threads, the     *)
(* POSTs of a delivery round, the work on an inactivity snapshot)          *)
(* interleaves with the sections of the other flows.  An agent's lease and *)
(* the fate of a POST are nondeterministic here; module ThreadDelivery has *)
(* the leases, and the rounds that overlap when a mark fails.              *)
(***************************************************************************)
EXTENDS ThreadStore

CONSTANTS
    AllowedPeers,  \* allowed_peer_agent_slugs of each agent, {} allows everyone
    Loops,         \* the background loops running: "delivery", "inactivity"
    Notices,       \* the statuses clients publish
    KeyReuse,      \* may a client use one key for two different requests?
    MaxSeq,        \* bound on the events of a thread
    MaxRetries,    \* bound on answered terminal notifications sent again
    MaxFaults      \* bound on the faults: crashes and failing statements

ASSUME ServiceAssumption ==
    /\ AllowedPeers \in [Agents -> SUBSET Agents]
    /\ Loops \subseteq {"delivery", "inactivity"}
    /\ Notices \subseteq NotificationStatuses
    /\ KeyReuse \in BOOLEAN
    /\ MaxSeq \in Nat /\ MaxRetries \in Nat /\ MaxFaults \in Nat

VARIABLES
    locked,        \* the section that holds service._lock
    tasks,         \* cascades in flight: what runs after a terminal notification
    round,         \* events of the current delivery round, with their progress
    sweep,         \* inactivity candidates still to be handled
    received,      \* events an agent's /event callback has accepted
    stopped,       \* threads for which an agent has accepted a /stop
    sent,          \* the clients: the request each key was first used for
    retries,       \* answered terminal notifications sent again so far
    faults         \* crashes and failing statements so far

serviceVars == <<locked, tasks, round, sweep, received, stopped, sent, retries, faults>>
vars == <<store, serviceVars>>

\* A request: target is its thread_id, under its parent_thread_id (which is not
\* looked at beside a thread_id), kind "message" or the status of a notification.
Message == {r \in [from : Agents, to : Agents, target : ThreadIds \cup {None},
                   under : ThreadIds \cup {None}, kind : {"message"}] :
              r.from # r.to /\ None \in {r.target, r.under}}
Notification == {r \in [from : Agents, to : Agents, target : ThreadIds,
                        under : {None}, kind : NotificationStatuses] : r.from # r.to}
Request == Message \cup Notification
ASSUME NoRequestAssumption == None \notin Request
RequestKey(r, k) == IF k = None THEN None ELSE <<r.from, k>>

RequestKeys == RequestIds \cup {None}
Section ==
    [step : {"free", "cascade"}, thread : {None}, request : {None}, key : {None}]
    \cup [step : {"append"}, thread : ThreadIds, request : Message, key : RequestKeys]
    \cup [step : {"cancel"}, thread : ThreadIds, request : Notification, key : RequestKeys]
    \cup [step : {"save"}, thread : ThreadIds, request : Request, key : RequestKeys]
    \cup [step : {"mark"}, thread : ThreadIds, request : {None}, key : {None}]
Free == [step |-> "free", thread |-> None, request |-> None, key |-> None]

\* A task of the cascade that the run-th answer to the terminal notification on
\* thread root started; it now deals with thread.
Stages == {"notify", "list", "halt", "close", "cancel"}
Task == [root : ThreadIds, run : Nat, thread : ThreadIds, stage : Stages]

\* The answer to the POST of an event.
Answers == {"awaited", "accepted", "failed"}

LockFree == locked.step = "free"

\* Mutant: the key is looked up under the recipient.
CachedByRecipient(r, k) == k # None /\ <<r.to, k>> \in saved

Cached(r, k) == k # None /\ <<r.from, k>> \in saved
PeerAllowed(a, b) == AllowedPeers[a] # {} => b \in AllowedPeers[a]
AllowedStatuses(t, a) == IF a = owner[t] THEN {"in_progress", "done", "closed"}
                                         ELSE {"in_progress", "review"}

\* A client sends a key again only with the request it first used it for.
FaithfulKey(r, k) == k # None /\ ~KeyReuse => sent[<<r.from, k>>] \in {None, r}
Remember(r, k) == IF k = None \/ sent[<<r.from, k>>] # None
                  THEN UNCHANGED sent ELSE sent' = [sent EXCEPT ![<<r.from, k>>] = r]

\* validate_routing: the thread is live and from and to are its participants.
ValidRouting(r) == Live(r.target) /\ pair[r.target] = {r.from, r.to}

Init ==
    /\ StoreInit
    /\ locked = Free
    /\ tasks = {}
    /\ round = {}
    /\ sweep = {}
    /\ received = {}
    /\ stopped = {}
    /\ sent = [k \in RequestIds |-> None]
    /\ retries = 0
    /\ faults = 0
-----------------------------------------------------------------------------
(***************************************************************************)
(* Messages.  One that is rejected or answered from idempotency_keys       *)
(* changes nothing; any other runs three transactions under the lock.      *)
(***************************************************************************)

\* resolve_message_thread: the named thread, a child of the named parent (which
\* is live and has the sender as a participant), or the root thread of the pair.
ResolveThread(r, t) ==
    \/ /\ r.target # None
       /\ t = r.target
       /\ ValidRouting(r)
       /\ UNCHANGED store
    \/ /\ r.target = None /\ r.under # None
       /\ Live(r.under) /\ r.from \in pair[r.under]
       /\ GetOrCreate(t, r.under, r.from, r.to)
    \/ /\ r.target = None /\ r.under = None
       /\ GetOrCreate(t, None, r.from, r.to)

BeginMessage(r, k, t) ==
    /\ LockFree
    /\ PeerAllowed(r.from, r.to)
    /\ FaithfulKey(r, k) /\ ~Cached(r, k)
    /\ Len(log[t]) < MaxSeq
    /\ ResolveThread(r, t)
    /\ locked' = [step |-> "append", thread |-> t, request |-> r, key |-> RequestKey(r, k)]
    /\ Remember(r, k)
    /\ UNCHANGED <<tasks, round, sweep, received, stopped, retries, faults>>

AppendMessage ==
    /\ locked.step = "append"
    /\ AppendEvent(locked.thread,
           [kind |-> "message", from |-> locked.request.from,
            to |-> locked.request.to, key |-> locked.key])
    /\ locked' = [locked EXCEPT !.step = "save"]
    /\ UNCHANGED <<tasks, round, sweep, received, stopped, sent, retries, faults>>
-----------------------------------------------------------------------------
(***************************************************************************)
(* Notifications.  The answer may come from idempotency_keys; whichever    *)
(* way it was made, "closed" is then followed by a /stop to the peer and   *)
(* "done" and "closed" by the cascade, both after the lock is released.    *)
(***************************************************************************)
BeginNotification(r, k) ==
    /\ LockFree
    /\ FaithfulKey(r, k) /\ ~Cached(r, k)
    /\ PeerAllowed(r.from, r.to)
    /\ ValidRouting(r)
    /\ r.kind \in AllowedStatuses(r.target, r.from)
    /\ Len(log[r.target]) < MaxSeq
    /\ AppendEvent(r.target,
           [kind |-> r.kind, from |-> r.from, to |-> r.to, key |-> RequestKey(r, k)])
    /\ locked' = [step |-> IF r.kind \in TerminalStatuses THEN "cancel" ELSE "save",
                  thread |-> r.target, request |-> r, key |-> RequestKey(r, k)]
    /\ Remember(r, k)
    /\ UNCHANGED <<tasks, round, sweep, received, stopped, retries, faults>>

CancelEvents ==
    /\ locked.step = "cancel"
    /\ CancelPending(locked.thread)
    /\ locked' = [locked EXCEPT !.step = "save"]
    /\ UNCHANGED <<tasks, round, sweep, received, stopped, sent, retries, faults>>

\* Mutant: only "closed" cascades.
CascadeOnlyClosed(r, n) ==
    IF r.kind = "closed"
    THEN {[root |-> r.target, run |-> n, thread |-> r.target, stage |-> "notify"]}
    ELSE {}

\* What send_notification still does once it has a response.
TerminalTasks(r, n) ==
    IF r.kind \in TerminalStatuses
    THEN {[root |-> r.target, run |-> n, thread |-> r.target,
           stage |-> IF r.kind = "closed" THEN "notify" ELSE "list"]}
    ELSE {}

\* The last transaction of a message or notification, and the end of its section.
SaveResponse ==
    /\ locked.step = "save"
    /\ SaveResult(locked.key)
    /\ locked' = Free
    /\ tasks' = tasks \cup TerminalTasks(locked.request, 0)
    /\ UNCHANGED <<round, sweep, received, stopped, sent, retries, faults>>

\* A terminal notification answered from idempotency_keys: /stop and cascade again.
RepeatNotification(r, k) ==
    /\ LockFree
    /\ r.kind \in TerminalStatuses
    /\ FaithfulKey(r, k) /\ Cached(r, k)
    /\ retries < MaxRetries
    /\ retries' = retries + 1
    /\ tasks' = tasks \cup TerminalTasks(r, retries + 1)
    /\ UNCHANGED <<store, locked, round, sweep, received, stopped, sent, faults>>
-----------------------------------------------------------------------------
(***************************************************************************)
(* The cascade: list the children without the lock, /stop the participants *)
(* of each live one, close it under the lock, and go on with its children. *)
(***************************************************************************)
MoveTask(task, stage) == tasks' = (tasks \ {task}) \cup {[task EXCEPT !.stage = stage]}

\* notify_closed_thread: the /stop of the peer is accepted or lost, never retried.
NotifyPeer(task) ==
    /\ task.stage = "notify"
    /\ stopped' \in {stopped, stopped \cup {task.thread}}
    /\ MoveTask(task, "list")
    /\ UNCHANGED <<store, locked, round, sweep, received, sent, retries, faults>>

ListChildren(task) ==
    /\ task.stage = "list"
    /\ tasks' = (tasks \ {task}) \cup
           {[task EXCEPT !.thread = c, !.stage = "halt"] : c \in LiveChildren(task.thread)}
    /\ UNCHANGED <<store, locked, round, sweep, received, stopped, sent, retries, faults>>

HaltParticipants(task) ==
    /\ task.stage = "halt"
    /\ stopped' \in {stopped, stopped \cup {task.thread}}
    /\ MoveTask(task, "close")
    /\ UNCHANGED <<store, locked, round, sweep, received, sent, retries, faults>>

CloseChild(task) ==
    /\ task.stage = "close"
    /\ LockFree
    /\ CloseThread(task.thread)
    /\ locked' = [Free EXCEPT !.step = "cascade"]
    /\ MoveTask(task, "cancel")
    /\ UNCHANGED <<round, sweep, received, stopped, sent, retries, faults>>

\* Mutant: the cascade does not go on with the children of a closed child.
CancelWithoutDescent(task) ==
    /\ task.stage = "cancel"
    /\ CancelPending(task.thread)
    /\ locked' = Free
    /\ tasks' = tasks \ {task}
    /\ UNCHANGED <<round, sweep, received, stopped, sent, retries, faults>>

CancelChildEvents(task) ==
    /\ task.stage = "cancel"
    /\ CancelPending(task.thread)
    /\ locked' = Free
    /\ MoveTask(task, "list")
    /\ UNCHANGED <<round, sweep, received, stopped, sent, retries, faults>>

CascadeStep(task) ==
    \/ NotifyPeer(task)
    \/ ListChildren(task)
    \/ HaltParticipants(task)
    \/ CloseChild(task)
    \/ CancelChildEvents(task)
-----------------------------------------------------------------------------
(***************************************************************************)
(* The delivery loop: a snapshot of due events under the lock, then one    *)
(* POST per event without it; the next round starts when all have ended.   *)
(***************************************************************************)
StartRound ==
    /\ "delivery" \in Loops
    /\ LockFree
    /\ round = {}
    /\ \E due \in (SUBSET DuePending) \ {{}} :
          round' = {[event |-> e, answer |-> "awaited"] : e \in due}
    /\ UNCHANGED <<store, locked, tasks, sweep, received, stopped, sent, retries, faults>>

Answered(item, answer) == (round \ {item}) \cup {[item EXCEPT !.answer = answer]}

\* Mutant: an error answer is taken for an acceptance.
PostIgnoresStatus(item) ==
    /\ item.answer = "awaited"
    /\ received' \in {received, received \cup {item.event}}
    /\ round' = Answered(item, "accepted")
    /\ UNCHANGED <<store, locked, tasks, sweep, stopped, sent, retries, faults>>

\* The agent handles the POST; its answer may arrive or be lost.
PostEvent(item) ==
    /\ item.answer = "awaited"
    /\ received' = received \cup {item.event}
    /\ round' \in {Answered(item, "accepted"), Answered(item, "failed")}
    /\ UNCHANGED <<store, locked, tasks, sweep, stopped, sent, retries, faults>>

\* Mutant: a failed attempt gives the event up.
FailForGood(item) ==
    /\ item.answer # "accepted"
    /\ LockFree
    /\ pending' = pending \ {item.event}
    /\ round' = round \ {item}
    /\ UNCHANGED <<threadVars, delivered, saved, locked, tasks, sweep, received, stopped,
                   sent, retries, faults>>

\* Mutant: a failed attempt makes the event pending again, cancelled or not.
FailRequeues(item) ==
    /\ item.answer # "accepted"
    /\ LockFree
    /\ pending' = pending \cup {item.event}
    /\ round' = round \ {item}
    /\ UNCHANGED <<threadVars, delivered, saved, locked, tasks, sweep, received, stopped,
                   sent, retries, faults>>

\* A lost answer, or no POST at all for want of a callback, a lease or a
\* connection: mark_event_failed only moves the next attempt.
FailEvent(item) ==
    /\ item.answer # "accepted"
    /\ LockFree
    /\ round' = round \ {item}
    /\ UNCHANGED <<store, locked, tasks, sweep, received, stopped, sent, retries, faults>>

FinishEvent(item) ==
    /\ item.answer = "accepted"
    /\ LockFree
    /\ MarkDelivered(item.event)
    /\ round' = round \ {item}
    /\ UNCHANGED <<locked, tasks, sweep, received, stopped, sent, retries, faults>>

DeliveryStep(item) == PostEvent(item) \/ FailEvent(item) \/ FinishEvent(item)
-----------------------------------------------------------------------------
(***************************************************************************)
(* The inactivity loop: a snapshot of candidates under the lock, then one  *)
(* section per candidate with the recipient the snapshot named.  The first *)
(* section that raises ends the sweep for the loop (asyncio.gather), not   *)
(* for the other candidates: they are late, and run beside the next sweep. *)
(***************************************************************************)
StartSweep ==
    /\ "inactivity" \in Loops
    /\ LockFree
    /\ \A item \in sweep : item.late
    /\ InactivityCandidates # {}
    /\ sweep' = sweep \cup
           {[thread |-> c[1], to |-> c[2], late |-> FALSE] : c \in InactivityCandidates}
    /\ UNCHANGED <<store, locked, tasks, round, received, stopped, sent, retries, faults>>

AllLate(items) == {[item EXCEPT !.late = TRUE] : item \in items}

\* What is left of the sweep once item has raised; a late item has no loop to tell.
Others(item) == IF item.late THEN sweep \ {item} ELSE AllLate(sweep \ {item})

BeginInactivity(item) ==
    /\ LockFree
    /\ Len(log[item.thread]) < MaxSeq
    /\ AppendEvent(item.thread,
           [kind |-> "inactive", from |-> None, to |-> item.to, key |-> None])
    /\ sweep' = sweep \ {item}
    /\ locked' = [Free EXCEPT !.step = "mark", !.thread = item.thread]
    /\ UNCHANGED <<tasks, round, received, stopped, sent, retries, faults>>

\* append_thread_event raises: the thread has become terminal since the snapshot.
RefuseInactivity(item) ==
    /\ LockFree
    /\ Terminal(item.thread)
    /\ sweep' = Others(item)
    /\ UNCHANGED <<store, locked, tasks, round, received, stopped, sent, retries, faults>>

FinishInactivity ==
    /\ locked.step = "mark"
    /\ MarkInactivitySent(locked.thread)
    /\ locked' = Free
    /\ UNCHANGED <<tasks, round, sweep, received, stopped, sent, retries, faults>>

Clock(t) ==
    /\ "inactivity" \in Loops
    /\ TimeoutElapses(t)
    /\ UNCHANGED serviceVars
-----------------------------------------------------------------------------
(***************************************************************************)
(* Faults.  A statement that raises (the database is gone, or the command  *)
(* times out) ends its section or its task and nothing else; when it was   *)
(* committed all the same, it is the next one that did not run.  An error  *)
(* of the first statement of a section changes nothing, and one of a mark  *)
(* of the delivery loop leaves what a lost answer leaves.                  *)
(***************************************************************************)
Fault == faults < MaxFaults /\ faults' = faults + 1

\* A later statement of the section that holds the lock raises.  The first
\* error of a sweep reaches its loop, unless its item was late.
SectionFails ==
    /\ locked.step \in {"append", "cancel", "save", "mark"}
    /\ Fault
    /\ \/ UNCHANGED store
       \/ locked.step = "save" /\ SaveResult(locked.key)
       \/ locked.step = "mark" /\ MarkInactivitySent(locked.thread)
    /\ locked' = Free
    /\ sweep' \in {sweep} \cup (IF locked.step = "mark" THEN {AllLate(sweep)} ELSE {})
    /\ UNCHANGED <<tasks, round, received, stopped, sent, retries>>

\* A candidate's append raises before it has an effect.
InactivityFails(item) ==
    /\ LockFree
    /\ Fault
    /\ sweep' = Others(item)
    /\ UNCHANGED <<store, locked, tasks, round, received, stopped, sent, retries>>

\* A statement of a cascade raises; asyncio.gather lets its siblings go on.
TaskFails(task) ==
    /\ task.stage \notin {"notify", "halt", "close"} \/ LockFree
    /\ Fault
    /\ tasks' = tasks \ {task}
    /\ locked' = IF task.stage = "cancel" THEN Free ELSE locked
    /\ UNCHANGED <<store, round, sweep, received, stopped, sent, retries>>

\* The process dies and is started again: the rows remain, nothing that was
\* running is taken up again.
Crash ==
    /\ Fault
    /\ locked' = Free
    /\ tasks' = {}
    /\ round' = {}
    /\ sweep' = {}
    /\ UNCHANGED <<store, received, stopped, sent, retries>>

ClientStep ==
    \E k \in Keys \cup {None} :
        \/ \E r \in Message, t \in ThreadIds : BeginMessage(r, k, t)
        \/ \E r \in Notification :
              /\ r.kind \in Notices
              /\ BeginNotification(r, k) \/ RepeatNotification(r, k)

\* Every step of a flow that has begun.
FlowStep ==
    \/ AppendMessage
    \/ CancelEvents
    \/ SaveResponse
    \/ \E task \in tasks : CascadeStep(task)
    \/ \E item \in round : DeliveryStep(item)
    \/ \E item \in sweep : BeginInactivity(item) \/ RefuseInactivity(item)
    \/ FinishInactivity

FaultStep ==
    \/ SectionFails
    \/ \E item \in sweep : InactivityFails(item)
    \/ \E task \in tasks : TaskFails(task)
    \/ Crash

Next ==
    \/ ClientStep
    \/ FlowStep
    \/ StartRound
    \/ StartSweep
    \/ \E t \in ThreadIds : Clock(t)
    \/ FaultStep

Spec == Init /\ [][Next]_vars

\* What holds the lock, or runs without it, only has to be scheduled (WF).
\* asyncio.Lock wakes its waiters in the order they came, so the cascades that
\* wait for it are not passed over for ever (SF).
FlowFairness ==
    /\ WF_vars(AppendMessage)
    /\ WF_vars(CancelEvents)
    /\ WF_vars(SaveResponse)
    /\ WF_vars(FinishInactivity)
    /\ SF_vars(\E task \in tasks : CascadeStep(task))

FairSpec == Spec /\ FlowFairness
-----------------------------------------------------------------------------
(***************************************************************************)
(* Properties                                                              *)
(***************************************************************************)
TypeOK ==
    /\ StoreTypeOK
    /\ locked \in Section
    /\ tasks \subseteq Task
    /\ round \subseteq [event : EventIds, answer : Answers]
    /\ sweep \subseteq [thread : ThreadIds, to : Agents, late : BOOLEAN]
    /\ received \subseteq EventIds
    /\ stopped \subseteq ThreadIds
    /\ sent \in [RequestIds -> Request \cup {None}]
    /\ retries \in Nat
    /\ faults \in Nat

\* A thread's terminal status is being followed up by a section or a cascade.
FollowedUp(t) ==
    \/ /\ locked.step \in {"cancel", "save"} /\ locked.thread = t
       /\ locked.request.kind \in TerminalStatuses
    \/ \E task \in tasks : task.thread = t /\ task.stage \in {"notify", "cancel", "list"}

\* A cascade has seen t live and is about to close it.
BeingClosed(t) == \E task \in tasks : task.thread = t /\ task.stage \in {"halt", "close"}

\* While the service has not crashed and no statement has failed, a live child
\* of a terminal thread is one a cascade still accounts for: list_child_threads
\* runs without the lock, yet no child slips between the parent's terminal
\* status and the listing.
CascadeCoversChildren ==
    faults = 0 =>
        \A t \in ThreadIds :
            Live(t) /\ parent[t] # None /\ Terminal(parent[t])
                => FollowedUp(parent[t]) \/ BeingClosed(t)

\* A pair of agents has at most one live thread under the same parent, whatever
\* replies, cascades, crashes and errors come between the lookup and the insert.
OneLiveThreadPerPair ==
    \A t, u \in ThreadIds :
        Live(t) /\ Live(u) /\ parent[t] = parent[u] /\ pair[t] = pair[u] => t = u

\* done and closed are final: no later notification, cascade, message or
\* inactivity sweep changes the status of such a thread or adds an event to it.
TerminalIsFinal ==
    [][\A t \in ThreadIds :
        Terminal(t) => status'[t] = status[t] /\ log'[t] = log[t]]_vars

\* Until its thread is terminal, an event for an agent stays pending or has been
\* accepted by that agent: mark_event_failed, lost answers, overlapping rounds
\* and crashes of the service drop none ("Delivery is at-least-once").
NoEventLost ==
    \A t \in ThreadIds : ~Terminal(t) =>
        \A n \in DOMAIN log[t] :
            log[t][n].kind \in DeliveredKinds =>
                <<t, n>> \in pending \/ <<t, n>> \in received

\* The events that are for an agent.  One that is neither pending nor delivered
\* has been withdrawn.
Deliverable ==
    {e \in ThreadIds \X (1..MaxSeq) :
        IsEvent(e) /\ log[e[1]][e[2]].kind \in DeliveredKinds}

Abstract == INSTANCE AtLeastOnce WITH
    Events <- ThreadIds \X (1..MaxSeq), Threads <- ThreadIds,
    ThreadOf <- [e \in ThreadIds \X (1..MaxSeq) |-> e[1]],
    ended <- {t \in ThreadIds : Terminal(t)}, owed <- pending, accepted <- received,
    settled <- delivered, withdrawn <- Deliverable \ (pending \cup delivered)

\* The flows together keep the promise: no order of replies, notifications,
\* cascades, delivery rounds and crashes drops an event of a live thread, takes
\* one for delivered that no agent has accepted, or adds one to a thread that
\* has ended.
KeepsPromise == Abstract!Promise

\* Once a thread is terminal and the section that made it so is over, nothing
\* of it is pending, not even an event whose POST was under way meanwhile,
\* unless a crash or an error came between the status and the cancellation.
TerminalHasNoPending ==
    faults = 0 =>
        \A e \in pending :
            Terminal(e[1]) =>
                \/ locked.step = "cancel" /\ locked.thread = e[1]
                \/ \E task \in tasks : task.stage = "cancel" /\ task.thread = e[1]

EventsOf(k) == {e \in ThreadIds \X (1..MaxSeq) : IsEvent(e) /\ log[e[1]][e[2]].key = k}

\* A request that the client sends again under its key is carried out once, and
\* once more at most for every crash, and for every failing statement, between
\* the append and the saved answer: the lock is released with the event in the
\* thread and the key unknown.
OneAppendPerKey == \A k \in RequestIds : Cardinality(EventsOf(k)) <= 1 + faults

\* /stop is only accepted for a thread that is terminal or that a cascade is
\* about to close.
StopOnlyWhenClosing ==
    faults = 0 => \A t \in stopped : Terminal(t) \/ BeingClosed(t)

\* A thread is closed by its owner's own notification or because its parent is
\* terminal, never by a cascade that runs under a live parent.
ClosedOnlyUnderTerminalParent ==
    [][\A t \in ThreadIds : Live(t) /\ Terminal(t)' /\ log'[t] = log[t]
        => parent[t] # None /\ Terminal(parent[t])]_vars

\* An inactivity event goes to an agent that has sent a message in the thread
\* before, even when the snapshot that named it is stale.
InactiveToASender ==
    \A t \in ThreadIds : \A n \in DOMAIN log[t] :
        log[t][n].kind = "inactive" =>
            \E m \in 1..(n - 1) : log[t][m].kind = "message" /\ log[t][m].from = log[t][n].to

\* ARCH-DRAFT.md:95: "terminal parent threads cascade-close live child threads".
CascadeCompletes ==
    \A t \in ThreadIds : (parent[t] # None /\ Terminal(parent[t])) ~> Terminal(t)
=============================================================================
