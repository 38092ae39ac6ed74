---------------------------- MODULE TelegramBridge ----------------------------
(***************************************************************************)
(* telegram_events: agents register the Telegram account they own; one     *)
(* consumer per account reads the account's event stream, sends messages   *)
(* to OrchestraThreads and carries out /clear.  The stream comes from the  *)
(* account's relay, which repeats its recent events to every subscriber.   *)
(*                                                                         *)
(* Of the thread service only what the bridge depends on is kept (see      *)
(* ThreadService): a client_request_id whose response was saved is         *)
(* answered as it was then, a message without a thread goes to the live    *)
(* thread of the pair, a message to a thread that has ended or is another  *)
(* agent's, or to an agent that is no allowed peer, is refused.  The       *)
(* bridge is the only writer of its threads; agents end them.  The         *)
(* client_request_ids of two updates differ.                               *)
(***************************************************************************)
EXTENDS Integers, Sequences, SequencesExt

CONSTANTS
    Agents,            \* agent slugs
    Accounts,          \* telegram_mcp_urls, one relay each
    None,              \* Python's None
    Wanted,            \* <<agent, account>> of the registrations that are asked for
    Contacts,          \* the agents the service lets the bridge write to
    Inputs,            \* updates users cause
    RecentLimit,       \* _RECENT_EVENT_LIMIT
    QueueLimit,        \* _QUEUE_MAX_SIZE
    MaxUpdates,        \* bound on the updates
    MaxTroubles        \* bound on registrations, failing requests, broken streams and
                       \* restarts, together

Chats == {i.chat : i \in Inputs}

ASSUME BridgeAssumption ==
    /\ \A i \in Inputs : i.account \in Accounts /\ i.kind \in {"message", "clear"}
    /\ None \notin Agents
    /\ Wanted \subseteq Agents \X Accounts /\ Contacts \subseteq Agents
    /\ QueueLimit \in Nat /\ RecentLimit \in 1..QueueLimit
    /\ MaxUpdates \in Nat /\ MaxTroubles \in Nat

VARIABLES
    updates,     \* what users wrote, in the order in which the relays came to remember
                 \* it; an update is its index
    recent,      \* _recent_events of each relay
    owner,       \* _by_mcp_url; _by_slug is its inverse
    consumers,   \* the SSE consumers, in the order they were started
    current,     \* _consumers_by_mcp_url, an index or 0
    binding,     \* _threads_by_chat
    threads,     \* the root threads of the bridge, by their creation
    log,         \* the messages in thread_events, with their threads and whether the
                 \* response was saved as well
    cleared,     \* the /clear commands whose handling has come to an end
    faults

registry == <<owner, current>>
service == <<threads, log>>
vars == <<updates, recent, registry, consumers, binding, service, cleared, faults>>

\* A consumer is between two sessions ("away"), reads the stream ("reading"),
\* waits for an answer or has one, waits for ever for a stream that was lost
\* without a sign ("hung"), or its task has ended.  inbox is what the relay has
\* sent and nobody has looked at: its queue and the client's buffer.
\* stream: the connection of the session is up.
\* alone: no other consumer of the account was left when this one was started.
Consumer(account, alone) ==
    [account |-> account, alone |-> alone, running |-> TRUE, step |-> "away",
     stream |-> FALSE, inbox |-> <<>>, update |-> 0, agent |-> None, thread |-> 0]
Idle(c) == [c EXCEPT !.step = "reading", !.update = 0, !.agent = None, !.thread = 0]
Ended(c) == [Consumer(c.account, c.alone) EXCEPT
                !.running = c.running, !.step = IF c.running THEN "away" ELSE "ended"]

Init ==
    /\ updates = <<>>
    /\ recent = [u \in Accounts |-> <<>>]
    /\ owner = [u \in Accounts |-> None]
    /\ consumers = <<>>
    /\ current = [u \in Accounts |-> 0]
    /\ binding = [chat \in Chats |-> 0]
    /\ threads = <<>> /\ log = <<>>
    /\ cleared = {}
    /\ faults = 0

Bounded == Len(consumers) + faults < MaxTroubles
Fault == Bounded /\ faults' = faults + 1

---------------------------------------------------------------------------
(* The relay.                                                              *)

\* Mutant: the relay remembers more than a queue holds.
KeepsMore(events, update) ==
    LET all == Append(events, update) IN
        IF Len(all) > QueueLimit + 1 THEN Tail(all) ELSE all

Remember(events, update) ==
    LET all == Append(events, update) IN
        IF Len(all) > RecentLimit THEN Tail(all) ELSE all

\* _QUEUE_MAX_SIZE updates wait, the oldest is dropped.  What waits there is the
\* end of the inbox; whether that much of it does is open.
Enqueue(inbox, update, full) ==
    Append(IF full THEN RemoveAt(inbox, Len(inbox) - QueueLimit + 1) ELSE inbox, update)

\* The relay handles several updates at a time: each waits for its sender and its
\* chat to be looked up, and comes here when it has both.
Arrive(input) ==
    LET update == Len(updates) + 1
        readers == {c \in DOMAIN consumers :
                        consumers[c].account = input.account /\ consumers[c].stream} IN
    /\ Len(updates) < MaxUpdates
    /\ updates' = Append(updates, input)
    /\ recent' = [recent EXCEPT ![input.account] = Remember(@, update)]
    /\ \E full \in SUBSET {c \in readers : Len(consumers[c].inbox) >= QueueLimit} :
        consumers' = [c \in DOMAIN consumers |->
            IF c \in readers
            THEN [consumers[c] EXCEPT !.inbox = Enqueue(@, update, c \in full)]
            ELSE consumers[c]]
    /\ UNCHANGED <<registry, binding, service, cleared, faults>>

\* Only its memory held what it repeats.
RestartRelay(account) ==
    /\ Fault
    /\ recent' = [recent EXCEPT ![account] = <<>>]
    /\ consumers' = [c \in DOMAIN consumers |->
        [consumers[c] EXCEPT !.stream = @ /\ consumers[c].account # account]]
    /\ UNCHANGED <<updates, registry, binding, service, cleared>>

---------------------------------------------------------------------------
(* Registrations.                                                          *)

\* A duplicate changes nothing, an account that another agent owns is refused.
Register(agent, account) ==
    /\ Bounded
    /\ owner[account] = None
    /\ owner' = [u \in Accounts |->
        IF u = account THEN agent ELSE IF owner[u] = agent THEN None ELSE owner[u]]
    /\ consumers' = Append(consumers, Consumer(account,
            \A c \in DOMAIN consumers :
                consumers[c].account = account => consumers[c].step = "ended"))
    /\ current' = [u \in Accounts |->
        IF u = account THEN Len(consumers) + 1 ELSE IF owner[u] = agent THEN 0 ELSE current[u]]
    /\ UNCHANGED <<updates, recent, binding, service, cleared, faults>>

\* The consumer of the account the agent had before, after the lock.
StopConsumer(c) ==
    /\ consumers[c].running
    /\ current[consumers[c].account] # c
    /\ LET stopped == [consumers[c] EXCEPT !.running = FALSE, !.stream = FALSE] IN
        consumers' = [consumers EXCEPT
            ![c] = IF stopped.step \in {"away", "hung"} THEN Ended(stopped) ELSE stopped]
    /\ UNCHANGED <<updates, recent, registry, binding, service, cleared, faults>>

---------------------------------------------------------------------------
(* A consumer.  It handles one update after the other; an exception ends   *)
(* the session, and the next one begins with what the relay repeats.       *)

At(c, step) == consumers[c].step = step
This(c) == updates[consumers[c].update]
Moves(c, consumer) == consumers' = [consumers EXCEPT ![c] = consumer]

\* Mutant: a session begins with what comes after it.
ConnectAfresh(c) ==
    /\ At(c, "away")
    /\ Moves(c, [Idle(consumers[c]) EXCEPT !.stream = TRUE])
    /\ UNCHANGED <<updates, recent, registry, binding, service, cleared, faults>>

Connect(c) ==
    /\ At(c, "away")
    /\ Moves(c, [Idle(consumers[c]) EXCEPT !.stream = TRUE, !.inbox = recent[consumers[c].account]])
    /\ UNCHANGED <<updates, recent, registry, binding, service, cleared, faults>>

LoseStream(c) ==
    /\ consumers[c].stream
    /\ Fault
    /\ Moves(c, [consumers[c] EXCEPT !.stream = FALSE])
    /\ UNCHANGED <<updates, recent, registry, binding, service, cleared>>

\* The session ends with its stream, updates that have come may be handled before.
\* With the session ends a consumer that is stopped.
End(c) ==
    /\ ~consumers[c].stream
    /\ At(c, "reading")
    /\ Moves(c, Ended(consumers[c]))
    /\ UNCHANGED <<updates, recent, registry, binding, service, cleared, faults>>

\* Nothing tells that the connection is gone: the client waits without a limit,
\* and a relay that has nothing to send sends nothing.
Hang(c) ==
    /\ consumers[c].running /\ ~consumers[c].stream
    /\ At(c, "reading")
    /\ Moves(c, [Ended(consumers[c]) EXCEPT !.step = "hung"])
    /\ UNCHANGED <<updates, recent, registry, binding, service, cleared, faults>>

\* Nobody owns the account any more.
Drop(c) ==
    /\ At(c, "reading")
    /\ consumers[c].inbox # <<>>
    /\ owner[consumers[c].account] = None
    /\ Moves(c, [consumers[c] EXCEPT !.inbox = Tail(@)])
    /\ UNCHANGED <<updates, recent, registry, binding, service, cleared, faults>>

\* The next update is of this kind, for the agent that owns the account now.
Reads(c, kind) ==
    /\ At(c, "reading")
    /\ consumers[c].inbox # <<>>
    /\ owner[consumers[c].account] # None
    /\ updates[Head(consumers[c].inbox)].kind = kind
    /\ UNCHANGED <<updates, recent, registry, binding, service, cleared, faults>>

Took(consumer, step) ==
    [consumer EXCEPT !.step = step, !.inbox = Tail(@), !.update = Head(consumer.inbox),
                     !.agent = owner[consumer.account]]

BeginMessage(c) ==
    /\ Reads(c, "message")
    /\ LET chat == updates[Head(consumers[c].inbox)].chat IN
        Moves(c, [Took(consumers[c], "sending") EXCEPT !.thread = binding[chat]])

BeginClear(c) ==
    /\ Reads(c, "clear")
    /\ Moves(c, Took(consumers[c], "clearing"))

---------------------------------------------------------------------------
(* send_message.                                                           *)

\* The thread of the response that is saved for an update, if there is one.
Saved(update) ==
    {log[n].thread : n \in {m \in DOMAIN log : log[m].update = update /\ log[m].saved}}

Accepts(t, agent) == threads[t].open /\ threads[t].agent = agent
LiveThread(agent) == {t \in DOMAIN threads : Accepts(t, agent)}

\* thread_id = None: the live root thread of the pair, or a new one.
Resolved(consumer) ==
    IF consumer.thread # 0 THEN {consumer.thread} \cap LiveThread(consumer.agent)
    ELSE IF LiveThread(consumer.agent) # {} THEN LiveThread(consumer.agent)
    ELSE {Len(threads) + 1}

\* The service takes a new message, and comes this far.
Takes(consumer, thread, rows) ==
    /\ consumer.agent \in Contacts
    /\ Saved(consumer.update) = {}
    /\ thread \in Resolved(consumer)
    /\ threads' = IF thread \in DOMAIN threads THEN threads
                  ELSE Append(threads, [agent |-> consumer.agent, open |-> TRUE])
    /\ log' = log \o rows

Row(consumer, thread, saved) ==
    [update |-> consumer.update, thread |-> thread, saved |-> saved]

\* It answers a message, which it may have answered before.
Answers(consumer, thread) ==
    \/ /\ consumer.agent \in Contacts
       /\ thread \in Saved(consumer.update)
       /\ UNCHANGED service
    \/ Takes(consumer, thread, <<Row(consumer, thread, TRUE)>>)

\* It fails before the append, or between the append and the saving.
Fails(consumer, thread) ==
    \/ Takes(consumer, thread, <<>>)
    \/ Takes(consumer, thread, <<Row(consumer, thread, FALSE)>>)

Send(c) ==
    /\ At(c, "sending")
    /\ \E thread \in 1..(Len(threads) + 1) :
        /\ Answers(consumers[c], thread)
        /\ Moves(c, [consumers[c] EXCEPT !.step = "answered", !.thread = thread])
    /\ UNCHANGED <<updates, recent, registry, binding, cleared, faults>>

\* The agent is no allowed peer, which is seen to first, or the thread has ended
\* or is another agent's.
Refuse(c) ==
    /\ At(c, "sending")
    /\ \/ consumers[c].agent \notin Contacts
       \/ Saved(consumers[c].update) = {} /\ Resolved(consumers[c]) = {}
    /\ Moves(c, Ended(consumers[c]))
    /\ UNCHANGED <<updates, recent, registry, binding, service, cleared, faults>>

\* The request or its answer is lost, or the service fails.
LoseAnswer(c) ==
    /\ At(c, "sending")
    /\ Fault
    /\ \/ UNCHANGED service
       \/ \E thread \in 1..(Len(threads) + 1) :
             Answers(consumers[c], thread) \/ Fails(consumers[c], thread)
    /\ Moves(c, Ended(consumers[c]))
    /\ UNCHANGED <<updates, recent, registry, binding, cleared>>

Bind(c) ==
    /\ At(c, "answered")
    /\ binding' = [binding EXCEPT ![This(c).chat] = consumers[c].thread]
    /\ Moves(c, Idle(consumers[c]))
    /\ UNCHANGED <<updates, recent, registry, service, cleared, faults>>

---------------------------------------------------------------------------
(* /clear.  Whatever fails is logged and left at that.                     *)

Cleared(c) ==
    /\ At(c, "clearing")
    /\ cleared' = cleared \cup {consumers[c].update}
    /\ Moves(c, Idle(consumers[c]))
    /\ UNCHANGED <<updates, recent, registry, service>>

Clear(c) ==
    /\ Cleared(c)
    /\ binding' = [binding EXCEPT ![This(c).chat] = 0]
    /\ UNCHANGED faults

ClearFails(c) ==
    /\ Cleared(c)
    /\ Fault
    /\ UNCHANGED binding

---------------------------------------------------------------------------
\* The agent sends done or closed.
EndThread(t) ==
    /\ threads[t].open
    /\ threads' = [threads EXCEPT ![t].open = FALSE]
    /\ UNCHANGED <<updates, recent, registry, consumers, binding, log, cleared, faults>>

\* Nothing of the bridge is stored.
Restart ==
    /\ Fault
    /\ owner' = [u \in Accounts |-> None]
    /\ current' = [u \in Accounts |-> 0]
    /\ consumers' = [c \in DOMAIN consumers |->
        Ended([consumers[c] EXCEPT !.running = FALSE])]
    /\ binding' = [chat \in Chats |-> 0]
    /\ UNCHANGED <<updates, recent, service, cleared>>

Steps(c) ==
    \/ StopConsumer(c) \/ End(c)
    \/ Connect(c) \/ Drop(c) \/ BeginMessage(c) \/ BeginClear(c)
    \/ Send(c) \/ Refuse(c) \/ Bind(c) \/ Clear(c)

Next ==
    \/ \E input \in Inputs : Arrive(input)
    \/ \E account \in Accounts : RestartRelay(account)
    \/ \E w \in Wanted : Register(w[1], w[2])
    \/ \E c \in DOMAIN consumers :
        Steps(c) \/ LoseStream(c) \/ Hang(c) \/ LoseAnswer(c) \/ ClearFails(c)
    \/ \E t \in DOMAIN threads : EndThread(t)
    \/ Restart

Spec == Init /\ [][Next]_vars

\* asyncio runs what is ready.  A timeout ends every request, but not the wait for
\* the stream's next update: a loss of the stream that is noticed ends that, and
\* one that is not leaves the consumer hung.
Fairness == \A c \in 1..MaxTroubles : WF_vars(c \in DOMAIN consumers /\ Steps(c))
FairSpec == Spec /\ Fairness

---------------------------------------------------------------------------
\* Whatever is repeated by relays, sent again after lost answers, or handled by
\* two consumers of an account, a message is appended once, or once more after the
\* service failed to save that it was; and the messages of an account are appended
\* in the order in which its relay came to remember them, but for an account that
\* is read anew while a consumer of before still waits for an answer.
ReadOneByOne(account) ==
    \A c \in DOMAIN consumers : consumers[c].account = account => consumers[c].alone

ForwardedInOrder ==
    \A n \in DOMAIN log : \A m \in 1..(n - 1) :
        LET account == updates[log[n].update].account IN
        /\ log[m].saved => log[m].update # log[n].update
        /\ (updates[log[m].update].account = account /\ ReadOneByOne(account))
            => log[m].update <= log[n].update

\* A message the service would refuse: its agent is no allowed peer; or it is not
\* among the saved responses, and its chat is bound to a thread that has ended or
\* is another agent's.
Refused(update, agent) ==
    /\ updates[update].kind = "message"
    /\ \/ agent \notin Contacts
       \/ /\ Saved(update) = {}
          /\ binding[updates[update].chat] # 0
          /\ ~Accepts(binding[updates[update].chat], agent)

\* In the end the bridge has taken care of all that the relay of an account
\* repeats, unless one of the messages is refused, which no retry gets past, or
\* the consumer waits for a stream that was lost without a sign.
RecentIsForwarded ==
    <>[](\A u \in Accounts : owner[u] # None =>
            \/ \A n \in DOMAIN recent[u] : recent[u][n] \in cleared \/ Saved(recent[u][n]) # {}
            \/ \E n \in DOMAIN recent[u] : Refused(recent[u][n], owner[u])
            \/ At(current[u], "hung"))
===============================================================================
