----------------------------- MODULE ThreadStore -----------------------------
(***************************************************************************)
(* The Postgres store of the OrchestraThreads service: the rows of the     *)
(* tables threads, thread_events and idempotency_keys, and the statements  *)
(* the service runs on them.  Each operator below that has primed          *)
(* variables is one committed transaction.                                 *)
(*                                                                         *)
(* A thread row is spread over one function per column.  Message texts,    *)
(* display names and wall-clock timestamps are abstracted: of the two      *)
(* activity timestamps only "both are older than the inactivity cutoff"    *)
(* is kept (quiet).                                                        *)
(***************************************************************************)
EXTENDS Naturals, Sequences, FiniteSets

CONSTANTS
    Agents,        \* agent slugs
    ThreadIds,     \* the uuids available for thread rows
    Keys,          \* client_request_id values a client may send again
    None           \* SQL NULL

ASSUME NoneAssumption == None \notin Agents \cup ThreadIds \cup Keys \cup (Agents \X Keys)

VARIABLES
    status,        \* threads.status, "absent" while there is no such row
    parent,        \* threads.parent_thread_id
    owner,         \* threads.owner_agent_slug
    pair,          \* {participant_a_agent_slug, participant_b_agent_slug}
    lastSender,    \* threads.last_message_sender_agent_slug
    quiet,         \* both activity timestamps are past the inactivity cutoff
    log,           \* thread_events of a thread in sequence_no order
    pending,       \* events with pending_delivery = TRUE, as <<thread, sequence_no>>
    delivered,     \* events with delivered_at set
    saved          \* primary keys of idempotency_keys

threadVars == <<status, parent, owner, pair, lastSender, quiet, log>>
deliveryVars == <<pending, delivered>>
store == <<threadVars, deliveryVars, saved>>

NonTerminalStatuses == {"open", "in_progress", "review"}
TerminalStatuses == {"done", "closed"}
NotificationStatuses == {"in_progress", "review", "done", "closed"}

\* The kinds of events: notification_status stands for the kind "notification".
EventKinds == {"message", "inactive"} \cup NotificationStatuses

\* interrupts_runtime, and with it pending_delivery, of a new event.
DeliveredKinds == {"message", "inactive", "in_progress", "review"}

RequestIds == Agents \X Keys
Event == [kind : EventKinds, from : Agents \cup {None}, to : Agents,
          key : RequestIds \cup {None}]
EventIds == ThreadIds \X Nat

Live(t) == status[t] \in NonTerminalStatuses
Terminal(t) == status[t] \in TerminalStatuses

\* The live threads a new message between a and b under p would be added to.
LiveThreads(p, ab) ==
    {t \in ThreadIds : Live(t) /\ parent[t] = p /\ pair[t] = ab}

IsEvent(e) == e[1] \in ThreadIds /\ e[2] \in DOMAIN log[e[1]]
-----------------------------------------------------------------------------
StoreInit ==
    /\ status = [t \in ThreadIds |-> "absent"]
    /\ parent = [t \in ThreadIds |-> None]
    /\ owner = [t \in ThreadIds |-> None]
    /\ pair = [t \in ThreadIds |-> {}]
    /\ lastSender = [t \in ThreadIds |-> None]
    /\ quiet = [t \in ThreadIds |-> FALSE]
    /\ log = [t \in ThreadIds |-> <<>>]
    /\ pending = {}
    /\ delivered = {}
    /\ saved = {}

\* INSERT INTO threads: a new uuid t, owned by the sender a of the message.
InsertThread(t, p, a, b) ==
    /\ status[t] = "absent"
    /\ status' = [status EXCEPT ![t] = "open"]
    /\ parent' = [parent EXCEPT ![t] = p]
    /\ owner' = [owner EXCEPT ![t] = a]
    /\ pair' = [pair EXCEPT ![t] = {a, b}]
    /\ UNCHANGED <<lastSender, quiet, log, deliveryVars, saved>>

\* Mutant: only a thread the sender owns is found.
GetOwnOrCreate(t, p, a, b) ==
    LET own == {u \in LiveThreads(p, {a, b}) : owner[u] = a} IN
    IF own # {} THEN t \in own /\ UNCHANGED store ELSE InsertThread(t, p, a, b)

\* get_or_create_root_thread (p = None) and get_or_create_child_thread: t is
\* the live thread of the pair under p, or a new row.
GetOrCreate(t, p, a, b) ==
    IF LiveThreads(p, {a, b}) # {}
    THEN t \in LiveThreads(p, {a, b}) /\ UNCHANGED store
    ELSE InsertThread(t, p, a, b)

\* The insert of an event and the update of its thread.  A message reopens the
\* thread and records its sender, a notification sets its own status; both touch
\* the activity, an inactivity event changes neither.
RecordEvent(t, e) ==
    /\ log' = [log EXCEPT ![t] = Append(@, e)]
    /\ pending' = IF e.kind \in DeliveredKinds
                  THEN pending \cup {<<t, Len(log[t]) + 1>>} ELSE pending
    /\ status' = IF e.kind = "inactive" THEN status
                 ELSE [status EXCEPT ![t] = IF e.kind = "message" THEN "open" ELSE e.kind]
    /\ lastSender' = IF e.kind = "message"
                     THEN [lastSender EXCEPT ![t] = e.from] ELSE lastSender
    /\ quiet' = IF e.kind = "inactive" THEN quiet ELSE [quiet EXCEPT ![t] = FALSE]
    /\ UNCHANGED <<parent, owner, pair, delivered, saved>>

\* append_thread_event: refused for a missing or a terminal thread.
AppendEvent(t, e) == Live(t) /\ RecordEvent(t, e)

\* Mutant: the condition on the old status is inverted.
CloseTerminal(t) ==
    /\ status' = IF Terminal(t) THEN [status EXCEPT ![t] = "closed"] ELSE status
    /\ UNCHANGED <<parent, owner, pair, lastSender, quiet, log, deliveryVars, saved>>

\* update_thread_terminal_status(status = "closed"): only a live row changes.
CloseThread(t) ==
    /\ status' = IF Live(t) THEN [status EXCEPT ![t] = "closed"] ELSE status
    /\ UNCHANGED <<parent, owner, pair, lastSender, quiet, log, deliveryVars, saved>>

\* cancel_pending_events_for_thread
CancelPending(t) ==
    /\ pending' = {e \in pending : e[1] # t}
    /\ UNCHANGED <<threadVars, delivered, saved>>

\* mark_event_delivered: unconditional, a cancelled event gets delivered_at too.
MarkDelivered(e) ==
    /\ pending' = pending \ {e}
    /\ delivered' = delivered \cup {e}
    /\ UNCHANGED <<threadVars, saved>>

\* save_idempotent_result: INSERT ... ON CONFLICT DO NOTHING.
SaveResult(k) ==
    /\ saved' = saved \cup ({k} \ {None})
    /\ UNCHANGED <<threadVars, deliveryVars>>

\* mark_inactivity_sent
MarkInactivitySent(t) ==
    /\ quiet' = [quiet EXCEPT ![t] = FALSE]
    /\ UNCHANGED <<status, parent, owner, pair, lastSender, log, deliveryVars, saved>>

\* The clock: no activity on t and no inactivity event for the whole timeout.
\* (A row without last_message_sender is never a candidate, its age is not kept.)
TimeoutElapses(t) ==
    /\ Live(t) /\ lastSender[t] # None
    /\ ~quiet[t]
    /\ quiet' = [quiet EXCEPT ![t] = TRUE]
    /\ UNCHANGED <<status, parent, owner, pair, lastSender, log, deliveryVars, saved>>

\* list_due_pending_events: pending events of live threads.  When each is due
\* again is left to ThreadDelivery, here any of them may be.
DuePending == {e \in pending : Live(e[1])}

\* Mutant: the recipient is the peer of the last sender.
CandidatesForPeer ==
    UNION {{<<t, a>> : a \in pair[t] \ {lastSender[t]}} : t \in
        {u \in ThreadIds : Live(u) /\ lastSender[u] # None /\ quiet[u]}}

\* list_inactivity_candidates, with the recipient each row names.
InactivityCandidates ==
    {<<t, lastSender[t]>> : t \in
        {u \in ThreadIds : Live(u) /\ lastSender[u] # None /\ quiet[u]}}

\* Mutant: the threads of the same owner instead.
LiveThreadsOfOwner(t) == {c \in ThreadIds : owner[c] = owner[t] /\ Live(c)}

\* list_child_threads, of which a cascade closes those it sees live.
LiveChildren(t) == {c \in ThreadIds : parent[c] = t /\ Live(c)}

StoreTypeOK ==
    /\ status \in [ThreadIds -> NonTerminalStatuses \cup TerminalStatuses \cup {"absent"}]
    /\ parent \in [ThreadIds -> ThreadIds \cup {None}]
    /\ owner \in [ThreadIds -> Agents \cup {None}]
    /\ pair \in [ThreadIds -> SUBSET Agents]
    /\ lastSender \in [ThreadIds -> Agents \cup {None}]
    /\ quiet \in [ThreadIds -> BOOLEAN]
    /\ log \in [ThreadIds -> Seq(Event)]
    /\ pending \subseteq EventIds
    /\ delivered \subseteq EventIds
    /\ saved \subseteq RequestIds
=============================================================================
