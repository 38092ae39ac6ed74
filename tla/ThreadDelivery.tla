--------------------------- MODULE ThreadDelivery ---------------------------
(***************************************************************************)
(* The delivery loop of the OrchestraThreads service in time: the leases   *)
(* the agents renew by heartbeats, rounds of at most Limit events taken    *)
(* in the order they are due, the backoff of an event whose attempt        *)
(* failed, and the agents' own heartbeat loops.  ThreadService leaves      *)
(* these choices open and has what happens to the threads.                 *)
(*                                                                         *)
(* Time passes in units by Tick.  Timestamps are kept relative to now:     *)
(* seen[a] is the age of agents.last_seen_at, wait[e] what is left until   *)
(* next_delivery_attempt_at.  A database section is one step.              *)
(***************************************************************************)
EXTENDS Naturals, SequencesExt

CONSTANTS
    Agents,
    Runtimes,      \* the agents whose runtimes are ever started
    Events,
    To,            \* thread_events.to_agent_slug
    Limit,         \* events of a round, 16 in the code
    RetryBase,     \* retry_base_seconds
    RetryMax,      \* retry_max_seconds
    MaxExponent,   \* MAX_RETRY_EXPONENT
    Lease,         \* agent_lease_seconds
    HeartbeatEvery,\* _HEARTBEAT_INTERVAL_SECONDS
    Latency,       \* the client's timeout: how long a heartbeat may be under way
    MaxFaults      \* bound on outages, lost requests, errors and stops together

ASSUME DeliveryAssumption ==
    /\ To \in [Events -> Agents] /\ Runtimes \subseteq Agents
    /\ Limit \in Nat \ {0} /\ RetryBase \in Nat \ {0} /\ RetryMax \in Nat \ {0}
    /\ MaxExponent \in Nat
    /\ HeartbeatEvery \in Nat \ {0} /\ Latency \in Nat /\ Lease \in Nat
    /\ HeartbeatEvery + Latency <= Lease
    /\ MaxFaults \in Nat

VARIABLES
    up,            \* the service runs
    agent,         \* "down", "starting", "beating", "silent": its loop has ended
    request,       \* the agent's registration or heartbeat that is under way
    seen,          \* age of last_seen_at; an agent without a row has the greatest
    since,         \* time since the request was sent, or since the loop went to sleep
    pending,       \* events with pending_delivery = TRUE
    delivered,     \* events with delivered_at set
    taken,         \* how often the agent's /event callback has accepted each event
    due,           \* pending events that are due, in the order of the query
    wait,          \* time until the next attempt of an event that is not due
    attempts,      \* delivery_attempt_count, up to where the delay is constant
    round,         \* the delivery tasks that have not ended
    current,       \* database errors that have ended a round early; the round of
                   \* this number is the one the loop awaits, earlier tasks are late
    outages,       \* restarts of the service
    lost,          \* POSTs to a running agent that have failed
    stops          \* runtimes that have gone down, heartbeats the service has lost

agentVars == <<agent, request, seen, since>>
eventVars == <<pending, delivered, due, wait, attempts>>
faults == <<outages, lost, stops>>
vars == <<up, agentVars, eventVars, taken, round, current, faults>>

AgentStates == {"down", "starting", "beating", "silent"}

\* Under way: sent, carried out with its answer still to come, or cut off.
Requests == {"none", "sent", "written", "broken"}
Steps == {"post", "accepted", "failed"}
Item == [event : Events, step : Steps, number : 0..MaxFaults]

\* One more fault stays within the bound.
Room == current + outages + lost + stops < MaxFaults

Online(a) == seen[a] <= Lease
Late(item) == item.number < current
received == {e \in Events : taken[e] > 0}
Taken(e) == taken' = [taken EXCEPT ![e] = @ + 1]
-----------------------------------------------------------------------------
Init ==
    /\ up = TRUE
    /\ agent = [a \in Agents |-> "down"]
    /\ request = [a \in Agents |-> "none"]
    /\ seen = [a \in Agents |-> Lease + 1]
    /\ since = [a \in Agents |-> 0]
    /\ pending = {} /\ delivered = {}
    /\ taken = [e \in Events |-> 0]
    /\ due = <<>>
    /\ wait = [e \in Events |-> 0]
    /\ attempts = [e \in Events |-> 0]
    /\ round = {} /\ current = 0
    /\ outages = 0 /\ lost = 0 /\ stops = 0
-----------------------------------------------------------------------------
(***************************************************************************)
(* Agents: registration, the heartbeat loop, stopping.  The service writes *)
(* last_seen_at while a request is under way; the loop goes to sleep only  *)
(* when it has the answer, so a row may be older than the loop's sleep.    *)
(***************************************************************************)
Send(a) ==
    /\ request' = [request EXCEPT ![a] = IF up THEN "sent" ELSE "broken"]
    /\ since' = [since EXCEPT ![a] = 0]
    /\ UNCHANGED <<up, seen, eventVars, taken, round, current, faults>>

\* The runtime starts and registers.
Start(a) ==
    /\ a \in Runtimes
    /\ agent[a] = "down"
    /\ agent' = [agent EXCEPT ![a] = "starting"]
    /\ Send(a)

\* The heartbeat loop wakes.
Beat(a) ==
    /\ agent[a] = "beating" /\ request[a] = "none" /\ since[a] >= HeartbeatEvery
    /\ UNCHANGED agent
    /\ Send(a)

\* Mutant: the row of a known agent keeps its last_seen_at.
RegisterKeepsLastSeen(a) ==
    /\ agent[a] = "starting" /\ request[a] = "sent"
    /\ request' = [request EXCEPT ![a] = "written"]
    /\ UNCHANGED <<up, agent, seen, since, eventVars, taken, round, current, faults>>

\* upsert_agent
Register(a) ==
    /\ agent[a] = "starting" /\ request[a] = "sent"
    /\ request' = [request EXCEPT ![a] = "written"]
    /\ seen' = [seen EXCEPT ![a] = 0]
    /\ UNCHANGED <<up, agent, since, eventVars, taken, round, current, faults>>

\* touch_agent
Heartbeat(a) ==
    /\ agent[a] = "beating" /\ request[a] = "sent"
    /\ request' = [request EXCEPT ![a] = "written"]
    /\ seen' = [seen EXCEPT ![a] = 0]
    /\ UNCHANGED <<up, agent, since, eventVars, taken, round, current, faults>>

\* The answer: the loop, started now if it was the registration's, sleeps.
Answer(a) ==
    /\ request[a] = "written"
    /\ request' = [request EXCEPT ![a] = "none"]
    /\ agent' = [agent EXCEPT ![a] = "beating"]
    /\ since' = [since EXCEPT ![a] = 0]
    /\ UNCHANGED <<up, seen, eventVars, taken, round, current, faults>>

\* The client raises: no service, an error, or no answer in time.  A runtime does
\* not start without its registration.  Nothing catches what a heartbeat raises,
\* so the loop has made its last one while the runtime goes on.
RequestFails(a) ==
    /\ request[a] # "none"
    /\ IF request[a] = "broken" THEN UNCHANGED stops ELSE Room /\ stops' = stops + 1
    /\ request' = [request EXCEPT ![a] = "none"]
    /\ agent' = [agent EXCEPT ![a] = IF @ = "starting" THEN "down" ELSE "silent"]
    /\ since' = [since EXCEPT ![a] = 0]
    /\ UNCHANGED <<up, seen, eventVars, taken, round, current, outages, lost>>

GoDown(a) ==
    /\ agent[a] # "down"
    /\ Room
    /\ stops' = stops + 1
    /\ agent' = [agent EXCEPT ![a] = "down"]
    /\ request' = [request EXCEPT ![a] = "none"]
    /\ since' = [since EXCEPT ![a] = 0]
    /\ UNCHANGED <<up, seen, eventVars, taken, round, current, outages, lost>>
-----------------------------------------------------------------------------
(***************************************************************************)
(* The service: new events, rounds, the end of each delivery task.         *)
(***************************************************************************)
\* append_thread_event: an event is due from its creation.
NewEvent(e) ==
    /\ up
    /\ e \notin pending \cup delivered
    /\ pending' = pending \cup {e}
    /\ due' = Append(due, e)
    /\ UNCHANGED <<up, agentVars, delivered, wait, attempts, taken, round, current, faults>>

\* list_due_pending_events: ORDER BY when the event became due, LIMIT.
ListDue == {e \in pending : \E n \in 1..Len(due) : n <= Limit /\ due[n] = e}

\* Mutant: the next round does not wait for the tasks of the one before.
StartRoundBesideRound ==
    /\ up
    /\ round' = round \cup
           {[event |-> e, step |-> IF Online(To[e]) THEN "post" ELSE "failed",
             number |-> current] : e \in ListDue}
    /\ UNCHANGED <<up, agentVars, eventVars, taken, current, faults>>

\* The tasks of a round: an event whose agent has no callback or no lease fails
\* at once.  The loop sleeps and lists again when the round it awaits is over.
StartRound ==
    /\ up
    /\ \A item \in round : Late(item)
    /\ ListDue # {}
    /\ round' = round \cup
           {[event |-> e, step |-> IF Online(To[e]) THEN "post" ELSE "failed",
             number |-> current] : e \in ListDue}
    /\ UNCHANGED <<up, agentVars, eventVars, taken, current, faults>>

Proceed(item, step) == round' = (round \ {item}) \cup {[item EXCEPT !.step = step]}

PostAccepted(item) ==
    /\ item.step = "post"
    /\ agent[To[item.event]] # "down"
    /\ Taken(item.event)
    /\ Proceed(item, "accepted")
    /\ UNCHANGED <<up, agentVars, eventVars, current, faults>>

\* Nobody listens, or a running agent's answer is an error or is lost.
PostFails(item) ==
    /\ item.step = "post"
    /\ IF agent[To[item.event]] = "down"
       THEN UNCHANGED <<taken, lost>>
       ELSE /\ Room
            /\ lost' = lost + 1
            /\ UNCHANGED taken \/ Taken(item.event)
    /\ Proceed(item, "failed")
    /\ UNCHANGED <<up, agentVars, eventVars, current, outages, stops>>

\* Mutant: mark_event_delivered whatever became of the POST.
DeliveredAnyway(item) ==
    /\ item.step # "post"
    /\ pending' = pending \ {item.event}
    /\ delivered' = delivered \cup {item.event}
    /\ due' = RemoveFirst(due, item.event)
    /\ wait' = [wait EXCEPT ![item.event] = 0]
    /\ round' = round \ {item}
    /\ UNCHANGED <<up, agentVars, attempts, taken, current, faults>>

\* mark_event_delivered
Delivered(item) ==
    /\ item.step = "accepted"
    /\ pending' = pending \ {item.event}
    /\ delivered' = delivered \cup {item.event}
    /\ due' = RemoveFirst(due, item.event)
    /\ wait' = [wait EXCEPT ![item.event] = 0]
    /\ round' = round \ {item}
    /\ UNCHANGED <<up, agentVars, attempts, taken, current, faults>>

\* Mutant: the delay is not capped.
DelayUncapped(n) == RetryBase * 2 ^ Min({n - 1, MaxExponent})

\* _retry_delay_seconds
Delay(n) == Min({RetryMax, RetryBase * 2 ^ Min({n - 1, MaxExponent})})

\* Mutant: the next attempt is not moved, the event keeps its turn.
FailedKeepsTurn(item) ==
    /\ item.step = "failed"
    /\ attempts' = [attempts EXCEPT ![item.event] = Min({@ + 1, MaxExponent + 1})]
    /\ round' = round \ {item}
    /\ UNCHANGED <<up, agentVars, pending, delivered, due, wait, taken, current, faults>>

\* mark_event_failed: a failed event leaves its turn to the others.
Failed(item) ==
    /\ item.step = "failed"
    /\ attempts' = [attempts EXCEPT ![item.event] = Min({@ + 1, MaxExponent + 1})]
    /\ due' = RemoveFirst(due, item.event)
    /\ wait' = [wait EXCEPT ![item.event] = Delay(attempts[item.event] + 1)]
    /\ round' = round \ {item}
    /\ UNCHANGED <<up, agentVars, pending, delivered, taken, current, faults>>

\* The statement that ends a task raises.  asyncio.gather raises at once, the
\* loop goes on, and the other tasks of the round run beside the next one.
DatabaseError(item) ==
    /\ item.step # "post"
    /\ IF Late(item) THEN UNCHANGED current
       ELSE Room /\ current' = current + 1
    /\ round' = round \ {item}
    /\ UNCHANGED <<up, agentVars, eventVars, taken, faults>>

TaskStep(item) == PostAccepted(item) \/ PostFails(item) \/ Delivered(item) \/ Failed(item)

\* stop(), or a crash: the tasks and the requests are cut off, the rows remain.
ServiceStops ==
    /\ up /\ Room
    /\ outages' = outages + 1
    /\ up' = FALSE
    /\ round' = {}
    /\ request' = [a \in Agents |-> IF request[a] = "none" THEN "none" ELSE "broken"]
    /\ UNCHANGED <<agent, seen, since, eventVars, taken, current, lost, stops>>

ServiceStarts ==
    /\ ~up
    /\ up' = TRUE
    /\ UNCHANGED <<agentVars, eventVars, taken, round, current, faults>>
-----------------------------------------------------------------------------
\* What the agent's client does next is due: it wakes, or it gives up.
Due(a) ==
    \/ request[a] # "none" /\ since[a] >= Latency
    \/ agent[a] = "beating" /\ request[a] = "none" /\ since[a] >= HeartbeatEvery

\* One unit of time.  The loop sleeps for HeartbeatEvery, a request is answered
\* or given up within Latency.  The events whose wait is over become due
\* together, in any order.
Tick ==
    /\ \A a \in Agents : ~Due(a)
    /\ since' = [a \in Agents |-> IF agent[a] \in {"starting", "beating"}
                                  THEN since[a] + 1 ELSE 0]
    /\ seen' = [a \in Agents |-> Min({seen[a] + 1, Lease + 1})]
    /\ wait' = [e \in Events |-> IF wait[e] = 0 THEN 0 ELSE wait[e] - 1]
    /\ \E order \in SetToSeqs({e \in pending : wait[e] = 1}) : due' = due \o order
    /\ UNCHANGED <<up, agent, request, pending, delivered, attempts, taken, round, current, faults>>

AgentStep(a) ==
    \/ Start(a) \/ Beat(a)
    \/ Register(a) \/ Heartbeat(a)
    \/ Answer(a) \/ RequestFails(a)
    \/ GoDown(a)

Next ==
    \/ \E a \in Agents : AgentStep(a)
    \/ \E e \in Events : NewEvent(e)
    \/ StartRound
    \/ \E item \in round : TaskStep(item) \/ DatabaseError(item)
    \/ ServiceStops \/ ServiceStarts
    \/ Tick

Spec == Init /\ [][Next]_vars

\* Tasks run, heartbeats are sent and answered or given up, time passes, the
\* container is restarted.
Fairness ==
    /\ WF_vars(StartRound)
    /\ WF_vars(\E item \in round : TaskStep(item))
    /\ \A a \in Agents :
          /\ WF_vars(Beat(a))
          /\ WF_vars(Register(a) \/ Heartbeat(a) \/ Answer(a) \/ RequestFails(a))
    /\ WF_vars(Tick)
    /\ WF_vars(ServiceStarts)

FairSpec == Spec /\ Fairness
-----------------------------------------------------------------------------
(***************************************************************************)
(* Properties                                                              *)
(***************************************************************************)
\* Types, and: a pending event is in the order of the query exactly when its
\* wait is over.
TypeOK ==
    /\ up \in BOOLEAN
    /\ agent \in [Agents -> AgentStates] /\ request \in [Agents -> Requests]
    /\ seen \in [Agents -> 0..(Lease + 1)]
    /\ since \in [Agents -> Nat]
    /\ pending \subseteq Events /\ delivered \subseteq Events
    /\ taken \in [Events -> Nat]
    /\ due \in Seq(Events) /\ IsInjective(due)
    /\ wait \in [Events -> 0..RetryMax]
    /\ attempts \in [Events -> 0..(MaxExponent + 1)]
    /\ round \subseteq Item /\ current \in 0..MaxFaults
    /\ ToSet(due) = {e \in pending : wait[e] = 0}

\* An agent whose heartbeat loop runs holds a lease, except while a heartbeat is
\* under way that the service has not carried out: the row is then as old as the
\* sleep and both requests around it together, which a lease that covers the
\* sleep and one of them (30 s for 15 s and 10 s) need not outlast.
BeatingIsOnline ==
    \A a \in Agents :
        agent[a] = "beating" => Online(a) \/ request[a] \in {"sent", "broken"}

\* An agent accepts an event once, and once more at most for every answer that
\* was lost, every restart of the service, and every database error that let a
\* round begin beside the tasks of the one before.
RedeliveryIsBounded == \A e \in Events : taken[e] <= 1 + lost + outages + current

\* "Delivery is at-least-once" (ARCH-DRAFT.md:126): the loop keeps the promise
\* of AtLeastOnce.  No thread ends here, so nothing is withdrawn.
Abstract == INSTANCE AtLeastOnce WITH
    Threads <- {"live"}, ThreadOf <- [e \in Events |-> "live"], ended <- {},
    owed <- pending, accepted <- received, settled <- delivered, withdrawn <- {}
KeepsPromise == Abstract!Promise

\* An event for an agent that from some time on runs and holds its lease is
\* delivered, however many events for agents that are gone are retried before it
\* and although a round takes only Limit events.
OnlineIsServed ==
    \A e \in Events :
        <>[](agent[To[e]] # "down" /\ Online(To[e]))
            => [](e \in pending => <>(e \in delivered))
=============================================================================
