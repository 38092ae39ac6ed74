------------------------------ MODULE AgentRuntime ------------------------------
(***************************************************************************)
(* The runtime of one agent with the opencode or the sgr backend: how it   *)
(* takes events in, runs a turn for each, is stopped, cleared and          *)
(* restarted.  (AgentMux has the agent_mux backend.)                       *)
(*                                                                         *)
(* opencode answers a delivery at once and runs its turn, a dispatch, in a *)
(* task: a prompt sent to a session of the opencode server, external.  sgr *)
(* runs the turn, a loop of calls to a model and to tools, both external,  *)
(* before it answers.  Either runs one turn at a time, under a lock.       *)
(*                                                                         *)
(* A delivery has one event, as the threads service posts them, and at     *)
(* most one clear_context is under way.  Contents are left out, and so are *)
(* the file that tells the agent's tools of the turn and the registration  *)
(* with the threads service.                                               *)
(***************************************************************************)
EXTENDS Integers, SequencesExt

CONSTANTS
    Events,        \* ids of events
    Threads,       \* ids of threads
    ThreadOf,      \* thread_id of each event
    None,          \* Python's None
    Limit,         \* how many event ids a backend remembers
    MaxPosts,      \* bound on the deliveries
    MaxClears,     \* bound on the clear_context requests
    MaxFaults      \* bound on the calls that fail and the crashes

ASSUME RuntimeAssumption ==
    /\ IsFiniteSet(Events)
    /\ ThreadOf \in [Events -> Threads]
    /\ None \notin Nat
    /\ Limit \in Nat \ {0}
    /\ MaxPosts \in Nat /\ MaxClears \in Nat /\ MaxFaults \in Nat

VARIABLES
    backend,       \* backend_type
    up,            \* the process runs
    context,       \* context.current_id; ids are never used again
    remembered,    \* ids of events that are duplicates now, oldest first
    tasks,         \* turns under way in the order of the lock; the first one holds it
    turn,          \* of the first task
    slot,          \* opencode's DispatchState: the task and event of a dispatch
    mapping,       \* opencode's SessionManager: a context and its session
    mapped,        \* the mapping in its file
    clearing,      \* opencode's clear_context
    posts,         \* deliveries so far
    sessions,      \* contexts each session got prompts of
    turns,         \* how many turns of each event began
    since,         \* events remembered since each was, or None
    clears, faults

opencode == <<slot, mapping, mapped, clearing, sessions>>
vars == <<backend, up, context, remembered, tasks, turn, opencode, posts, turns, since, clears,
          faults>>

Task == [id : Nat, event : Events]
Mapping == [context : Nat, session : Nat]

\* None is nothing that is looked up.
ASSUME NoneAssumption == None \notin Task \cup Mapping /\ \A set \in SUBSET Events : set # None

\* "session" waits for the SessionManager's lock, "create" holds it.
Turn == [step : {"begin", "session", "create", "send", "reason"}, context : Nat,
         session : Nat]
NoTurn == [step |-> "begin", context |-> 0, session |-> 0]

\* "wait" waits for the SessionManager's lock, "delete" holds it.
Clearing == [step : {"no", "wait", "delete"}, context : Nat]
NotClearing == [step |-> "no", context |-> 0]

Init ==
    /\ backend \in {"opencode", "sgr"}
    /\ up = TRUE
    /\ context = 1
    /\ remembered = <<>>
    /\ tasks = <<>> /\ turn = NoTurn
    /\ slot = None
    /\ mapping = None /\ mapped = None
    /\ clearing = NotClearing
    /\ posts = 0
    /\ sessions = <<>>
    /\ turns = [e \in Events |-> 0]
    /\ since = [e \in Events |-> None]
    /\ clears = 0 /\ faults = 0

---------------------------------------------------------------------------

Using(chosen) == up /\ backend = chosen
Fault == faults < MaxFaults /\ faults' = faults + 1

Seen(e) == \E i \in 1..Len(remembered) : remembered[i] = e

\* Mutant: the newest id is dropped, not the oldest.
RememberOldest(e) ==
    LET all == Append(remembered, e)
    IN /\ remembered' = IF Len(all) > Limit THEN remembered ELSE all
       /\ since' = [o \in Events |-> IF o = e THEN {}
                                     ELSE IF since[o] = None THEN None
                                     ELSE since[o] \cup {e}]

\* DedupState.remember, _deduplicate_event
Remember(e) ==
    LET all == Append(remembered, e)
    IN /\ remembered' = IF Len(all) > Limit THEN Tail(all) ELSE all
       /\ since' = [o \in Events |-> IF o = e THEN {}
                                     ELSE IF since[o] = None THEN None
                                     ELSE since[o] \cup {e}]

Forget ==
    /\ remembered' = <<>>
    /\ since' = [e \in Events |-> None]

Begun(e) == turns' = [turns EXCEPT ![e] = @ + 1]

Enqueue(e) == tasks' = Append(tasks, [id |-> posts + 1, event |-> e])
Current == Head(tasks)
At(step) == tasks # <<>> /\ turn.step = step
Go(step) == turn' = [turn EXCEPT !.step = step]
EndTurn == tasks' = Tail(tasks) /\ turn' = NoTurn

---------------------------------------------------------------------------
(* The opencode backend.                                                   *)

\* handle_events: what is new is remembered and dispatched, in one step.
Accept(e) ==
    /\ Using("opencode")
    /\ posts < MaxPosts /\ posts' = posts + 1
    /\ IF Seen(e)
         THEN UNCHANGED <<remembered, since, tasks, slot, turns>>
         ELSE /\ Remember(e)
              /\ Enqueue(e)
              /\ slot' = [id |-> posts + 1, event |-> e]
              /\ Begun(e)
    /\ UNCHANGED <<backend, up, context, turn, mapping, mapped, clearing, sessions, clears,
                   faults>>

\* run_dispatch with the lock: the context is read, and its session asked for.
Dispatch ==
    /\ Using("opencode") /\ At("begin")
    /\ turn' = [turn EXCEPT !.step = "session", !.context = context]
    /\ UNCHANGED <<backend, up, context, remembered, tasks, opencode, posts, turns, since,
                   clears, faults>>

Prompt(session) ==
    /\ turn' = [turn EXCEPT !.step = "send", !.session = session]
    /\ sessions' = [sessions EXCEPT ![session] = @ \cup {turn.context}]

\* Mutant: any session will do.
MatchesAny(id) == mapping # None

Matches(id) == mapping # None /\ mapping.context = id

\* get_or_create_session
GetSession ==
    /\ Using("opencode") /\ At("session")
    /\ clearing.step # "delete"
    /\ IF Matches(turn.context)
         THEN Prompt(mapping.session)
         ELSE Go("create") /\ UNCHANGED sessions
    /\ UNCHANGED <<backend, up, context, remembered, tasks, slot, mapping, mapped, clearing,
                   posts, turns, since, clears, faults>>

CreateSession ==
    /\ Using("opencode") /\ At("create")
    /\ LET session == Len(sessions) + 1
       IN /\ mapping' = [context |-> turn.context, session |-> session]
          /\ mapped' = mapping'
          /\ sessions' = Append(sessions, {turn.context})
          /\ turn' = [turn EXCEPT !.step = "send", !.session = session]
    /\ UNCHANGED <<backend, up, context, remembered, tasks, slot, clearing, posts, turns,
                   since, clears, faults>>

\* Mutant: any task that ends frees the slot.
FreeAlways(task) == slot' = None

\* _on_dispatch_done: a task that ended only frees its own slot.
Free(task) == slot' = IF slot # None /\ slot.id = task.id THEN None ELSE slot

Sent ==
    /\ Using("opencode") /\ At("send")
    /\ EndTurn
    /\ Free(Current)
    /\ UNCHANGED <<backend, up, context, remembered, mapping, mapped, clearing, sessions,
                   posts, turns, since, clears, faults>>

\* A call raises.  Of an exception it does not expect, _on_dispatch_done
\* leaves the slot as it is.
DispatchFails(expected) ==
    /\ Using("opencode") /\ (At("create") \/ At("send"))
    /\ Fault
    /\ EndTurn
    /\ IF expected THEN Free(Current) ELSE UNCHANGED slot
    /\ UNCHANGED <<backend, up, context, remembered, mapping, mapped, clearing, sessions,
                   posts, turns, since, clears>>

\* stop: cancel_dispatch when the slot's event is of the thread.
StopDispatch(t) ==
    /\ Using("opencode")
    /\ slot # None /\ ThreadOf[slot.event] = t
    /\ slot' = None
    /\ tasks' = RemoveFirst(tasks, slot)
    /\ turn' = IF tasks # <<>> /\ Current = slot THEN NoTurn ELSE turn
    /\ UNCHANGED <<backend, up, context, remembered, mapping, mapped, clearing, sessions,
                   posts, turns, since, clears, faults>>

---------------------------------------------------------------------------
(* opencode's clear_context: the session is deleted, then the context goes.*)

ClearBegin ==
    /\ Using("opencode")
    /\ clearing.step = "no"
    /\ clears < MaxClears /\ clears' = clears + 1
    /\ clearing' = [step |-> "wait", context |-> context]
    /\ UNCHANGED <<backend, up, context, remembered, tasks, turn, slot, mapping, mapped, sessions,
                   posts, turns, since, faults>>

Rotate == context' = context + 1

\* The end of delete_session, and what follows it without an await.
Cleared ==
    /\ mapping' = None /\ mapped' = None
    /\ Rotate
    /\ clearing' = NotClearing

ClearLock ==
    /\ Using("opencode")
    /\ clearing.step = "wait" /\ ~At("create")
    /\ IF Matches(clearing.context)
         THEN /\ clearing' = [clearing EXCEPT !.step = "delete"]
              /\ UNCHANGED <<context, mapping, mapped>>
         ELSE Cleared
    /\ UNCHANGED <<backend, up, remembered, tasks, turn, slot, sessions, posts, turns, since,
                   clears, faults>>

ClearDelete ==
    /\ Using("opencode")
    /\ clearing.step = "delete"
    /\ Cleared
    /\ UNCHANGED <<backend, up, remembered, tasks, turn, slot, sessions, posts, turns, since,
                   clears, faults>>

\* delete_session raises: the context stays.
ClearFails ==
    /\ Using("opencode")
    /\ clearing.step = "delete"
    /\ Fault
    /\ clearing' = NotClearing
    /\ UNCHANGED <<backend, up, context, remembered, tasks, turn, slot, mapping, mapped, sessions,
                   posts, turns, since, clears>>

---------------------------------------------------------------------------
(* The sgr backend.  Its stop only notes the reason, its clear_context does*)
(* not wait for the turn; the chat history it keeps is left out.           *)

Queue(e) ==
    /\ Using("sgr")
    /\ posts < MaxPosts /\ posts' = posts + 1
    /\ Enqueue(e)
    /\ UNCHANGED <<backend, up, context, remembered, turn, opencode, turns, since, clears,
                   faults>>

\* Mutant: the early return of a duplicate keeps the lock.
BeginTurnHolds ==
    /\ Using("sgr") /\ At("begin")
    /\ IF Seen(Current.event)
         THEN UNCHANGED <<turn, turns>>
         ELSE Go("reason") /\ Begun(Current.event)
    /\ UNCHANGED <<backend, up, context, remembered, tasks, opencode, posts, since, clears,
                   faults>>

\* handle_events with the lock: a turn, unless the event was handled by now.
BeginTurn ==
    /\ Using("sgr") /\ At("begin")
    /\ LET e == Current.event
       IN IF Seen(e)
            THEN EndTurn /\ UNCHANGED turns
            ELSE /\ Go("reason")
                 /\ Begun(e)
                 /\ UNCHANGED tasks
    /\ UNCHANGED <<backend, up, context, remembered, opencode, posts, since, clears, faults>>

\* record_outcome
FinishTurn ==
    /\ Using("sgr") /\ At("reason")
    /\ Remember(Current.event)
    /\ EndTurn
    /\ UNCHANGED <<backend, up, context, opencode, posts, turns, clears, faults>>

TurnFails ==
    /\ Using("sgr") /\ At("reason")
    /\ Fault
    /\ EndTurn
    /\ UNCHANGED <<backend, up, context, remembered, opencode, posts, turns, since, clears>>

Clear ==
    /\ Using("sgr")
    /\ clears < MaxClears /\ clears' = clears + 1
    /\ Rotate
    /\ Forget
    /\ UNCHANGED <<backend, up, tasks, turn, opencode, posts, turns, faults>>

---------------------------------------------------------------------------
(* Crashes and restarts.                                                   *)

Crash ==
    /\ up
    /\ Fault
    /\ up' = FALSE
    /\ tasks' = <<>> /\ turn' = NoTurn
    /\ slot' = None /\ mapping' = None
    /\ clearing' = NotClearing
    /\ Forget
    /\ UNCHANGED <<backend, context, mapped, sessions, posts, turns, clears>>

\* A process has a context id of its own; restore takes the mapping of the
\* file while the server has its session.
Restart(listed) ==
    /\ ~up
    /\ up' = TRUE
    /\ Rotate
    /\ mapping' = IF listed THEN mapped ELSE None
    /\ mapped' = mapping'
    /\ UNCHANGED <<backend, remembered, tasks, turn, slot, clearing, sessions, posts, turns,
                   since, clears, faults>>

---------------------------------------------------------------------------

TurnStep ==
    \/ Dispatch \/ GetSession \/ CreateSession \/ Sent
    \/ BeginTurn \/ FinishTurn
ClearStep == ClearLock \/ ClearDelete

Next ==
    \/ TurnStep \/ ClearStep
    \/ \E expected \in BOOLEAN : DispatchFails(expected)
    \/ ClearBegin \/ ClearFails \/ TurnFails \/ Clear \/ Crash
    \/ \E e \in Events : Accept(e) \/ Queue(e)
    \/ \E t \in Threads : StopDispatch(t)
    \/ \E listed \in BOOLEAN : Restart(listed)

Spec == Init /\ [][Next]_vars

\* Every call has a timeout, and the event loop runs what it wakes.
FairSpec == Spec /\ WF_vars(TurnStep) /\ WF_vars(ClearStep)

---------------------------------------------------------------------------
(* Properties                                                              *)

\* Every variable has its type.
TypeOK ==
    /\ backend \in {"opencode", "sgr"} /\ up \in BOOLEAN
    /\ context \in Nat
    /\ remembered \in Seq(Events)
    /\ tasks \in Seq(Task) /\ turn \in Turn
    /\ slot \in Task \cup {None}
    /\ mapping \in Mapping \cup {None} /\ mapped \in Mapping \cup {None}
    /\ clearing \in Clearing
    /\ sessions \in Seq(SUBSET Nat)
    /\ turns \in [Events -> Nat]
    /\ since \in [Events -> (SUBSET Events) \cup {None}]
    /\ posts \in Nat /\ clears \in Nat /\ faults \in Nat

\* What was said before a clear_context or a restart never comes back: no
\* opencode session gets prompts of two contexts, although a dispatch asks for
\* its session after it read the context, a clear may come in between or fail,
\* and a restart restores the mapping of an earlier process.
OneContextPerSession == \A i \in 1..Len(sessions) : Cardinality(sessions[i]) <= 1

\* /stop finds a dispatch by the one slot all dispatches share: it stays in it
\* until it is over or a later one was fired; the end of an earlier one, after
\* a failure, a stop or a clear, does not take it away.
SlotIsKept ==
    [][slot # None /\ slot' # slot =>
          \/ slot' # None /\ slot'.id > slot.id
          \/ \A i \in 1..Len(tasks') : tasks'[i] # slot]_vars

\* No event gets a second turn unless the backend has been restarted or
\* cleared, has failed in the first one, or has remembered Limit other events
\* since; also when it comes again while its first turn waits or runs.
NoRepeat ==
    [][\A e \in Events : turns'[e] > turns[e] =>
          since[e] = None \/ Cardinality(since[e]) >= Limit]_vars

\* No turn and no clear_context holds a lock for ever, whatever fails or is
\* cancelled.
LocksAreReleased == []<>(tasks = <<>> /\ clearing.step = "no")
=============================================================================
