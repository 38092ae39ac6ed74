-------------------------- MODULE TelegramBotListener --------------------------
(***************************************************************************)
(* The Telegram bot listener: one task polls Telegram for updates and      *)
(* handles them in order; HTTP requests of the agent's tools open surveys  *)
(* and send their messages; a finished survey is posted to the events      *)
(* engine.  Telegram and the engine are external.                          *)
(*                                                                         *)
(* Every mutation of the state store writes the whole state file before it *)
(* releases the store's lock, without an await in between: memory and file *)
(* are the same state here, unless the process dies while it writes.       *)
(*                                                                         *)
(* A survey has one question.  What is only written to the transcript, the *)
(* messages the agent sends among it, is left out.                         *)
(***************************************************************************)
EXTENDS Integers, Sequences

CONSTANTS
    Users,         \* telegram user ids
    Allowed,       \* allowed_user_ids
    Sessions,      \* session ids
    UserOf,        \* telegram_user_id of each session
    Options,       \* option ids of the question
    MultiSelect,   \* its multi_select
    None,          \* Python's None
    Inputs,        \* updates users cause
    MaxUpdates,    \* bound on the updates users cause
    MaxCrashes,    \* bound on the crashes
    MaxFailures    \* bound on the calls to Telegram and the engine that fail

Message == [user : Users, kind : {"text", "done", "other"}]
Press == [user : Users, kind : {"press"}, session : Sessions, option : Options]
Update == Message \cup Press

ASSUME ListenerAssumption ==
    /\ Allowed \subseteq Users
    /\ UserOf \in [Sessions -> Users]
    /\ MultiSelect \in BOOLEAN
    /\ None \notin Users \cup Sessions
    /\ Inputs \subseteq Update
    /\ MaxUpdates \in Nat /\ MaxCrashes \in Nat /\ MaxFailures \in Nat

VARIABLES
    updates,       \* the updates of Telegram, by update_id
    shown,         \* surveys whose buttons a user has seen
    last,          \* last_update_id
    status,        \* status of each session, "none" before it is created
    answers,       \* options selected in each session
    active,        \* active_session_by_user
    readable,      \* the state file holds a state, not the beginning of one
    up,            \* the process runs
    poller,        \* the polling task
    sending,       \* create_survey of each session
    handled,       \* updates that took effect, in order
    reported,      \* the answers the engine was told of each session
    crashes, failures

store == <<last, status, answers, active, readable>>
vars == <<updates, shown, store, up, poller, sending, handled, reported, crashes, failures>>

\* "next" takes the next update of the batch, "handle" has marked it.
Poller == [step : {"poll", "next", "handle", "answer", "publish", "dead"},
           batch : Nat, session : Sessions \cup {None}]
NewPoller == [step |-> "poll", batch |-> 0, session |-> None]

Init ==
    /\ updates = <<>> /\ shown = {}
    /\ last = 0
    /\ status = [s \in Sessions |-> "none"]
    /\ answers = [s \in Sessions |-> {}]
    /\ active = [u \in Users |-> None]
    /\ readable = TRUE
    /\ up = TRUE
    /\ poller = NewPoller
    /\ sending = [s \in Sessions |-> "no"]
    /\ handled = <<>>
    /\ reported = [s \in Sessions |-> <<>>]
    /\ crashes = 0 /\ failures = 0

---------------------------------------------------------------------------
(* Telegram, external.                                                     *)

Arrive(update) ==
    /\ Len(updates) < MaxUpdates
    /\ update.kind = "press" => update.session \in shown /\ UserOf[update.session] = update.user
    /\ updates' = Append(updates, update)
    /\ UNCHANGED <<shown, store, up, poller, sending, handled, reported, crashes, failures>>

\* A call that raises.
CallFails == failures < MaxFailures /\ failures' = failures + 1

---------------------------------------------------------------------------
(* The polling task.  Nothing in it catches anything: an exception ends it,*)
(* while the HTTP server stays up.                                         *)

At(step) == up /\ poller.step = step
Dead == [NewPoller EXCEPT !.step = "dead"]
Update1 == updates[last]

\* Mutant: the offset is one too high.
GetUpdatesOffByOne ==
    /\ At("poll")
    /\ Len(updates) > last + 1
    /\ poller' = [poller EXCEPT !.step = "next", !.batch = Len(updates)]
    /\ UNCHANGED <<updates, shown, store, up, sending, handled, reported, crashes, failures>>

GetUpdates ==
    /\ At("poll")
    /\ Len(updates) > last
    /\ poller' = [poller EXCEPT !.step = "next", !.batch = Len(updates)]
    /\ UNCHANGED <<updates, shown, store, up, sending, handled, reported, crashes, failures>>

GetUpdatesFails ==
    /\ At("poll")
    /\ CallFails
    /\ poller' = Dead
    /\ UNCHANGED <<updates, shown, store, up, sending, handled, reported, crashes>>

\* mark_processed_update, before the update is looked at.
Mark ==
    /\ At("next") /\ last < poller.batch
    /\ last' = last + 1
    /\ poller' = [poller EXCEPT !.step = "handle"]
    /\ UNCHANGED <<updates, shown, status, answers, active, readable, up, sending, handled,
                   reported, crashes, failures>>

BatchDone ==
    /\ At("next") /\ last = poller.batch
    /\ poller' = NewPoller
    /\ UNCHANGED <<updates, shown, store, up, sending, handled, reported, crashes, failures>>

Continue == poller' = [poller EXCEPT !.step = "next"]
Handled == handled' = Append(handled, last)

\* No text, or a user the bot does not talk to.
Ignored(update) == update.user \notin Allowed \/ update.kind = "other"

Ignore ==
    /\ At("handle") /\ Ignored(Update1)
    /\ Continue
    /\ Handled
    /\ UNCHANGED <<updates, shown, store, up, sending, reported, crashes, failures>>

\* A text is only written to the transcript.
Text ==
    /\ At("handle") /\ ~Ignored(Update1) /\ Update1.kind = "text"
    /\ Continue
    /\ Handled
    /\ UNCHANGED <<updates, shown, store, up, sending, reported, crashes, failures>>

\* finish_active_session; the summary is published after the session is saved.
Done ==
    /\ At("handle") /\ ~Ignored(Update1) /\ Update1.kind = "done"
    /\ LET user == Update1.user
           s == active[user]
       IN IF s = None
            THEN Continue /\ UNCHANGED <<status, active>>
            ELSE /\ status' = [status EXCEPT ![s] = "completed"]
                 /\ active' = [active EXCEPT ![user] = None]
                 /\ poller' = [poller EXCEPT !.step = "publish", !.session = s]
    /\ Handled
    /\ UNCHANGED <<updates, shown, last, answers, readable, up, sending, reported, crashes,
                   failures>>

\* publish_survey_finished; the engine may have taken an event whose call raises.
Publish ==
    /\ At("publish")
    /\ reported' = [reported EXCEPT ![poller.session] = Append(@, answers[poller.session])]
    /\ \/ poller' = [poller EXCEPT !.step = "next", !.session = None] /\ UNCHANGED failures
       \/ CallFails /\ poller' = Dead
    /\ UNCHANGED <<updates, shown, store, up, sending, handled, crashes>>

PublishFails ==
    /\ At("publish")
    /\ CallFails
    /\ poller' = Dead
    /\ UNCHANGED <<updates, shown, store, up, sending, handled, reported, crashes>>

\* merge_answer
Merge(chosen, option) ==
    IF ~MultiSelect THEN {option}
    ELSE IF option \in chosen THEN chosen \ {option}
    ELSE chosen \cup {option}

\* Mutant: the button of any session counts.
SelectAny ==
    /\ At("handle") /\ ~Ignored(Update1) /\ Update1.kind = "press"
    /\ LET s == Update1.session
       IN answers' = [answers EXCEPT ![s] = Merge(answers[s], Update1.option)]
    /\ poller' = [poller EXCEPT !.step = "answer"]
    /\ Handled
    /\ UNCHANGED <<updates, shown, last, status, active, readable, up, sending, reported,
                   crashes, failures>>

\* record_selection: a button of another session than the active one is unknown.
Select ==
    /\ At("handle") /\ ~Ignored(Update1) /\ Update1.kind = "press"
    /\ LET s == Update1.session
       IN answers' = IF active[Update1.user] = s
                       THEN [answers EXCEPT ![s] = Merge(answers[s], Update1.option)]
                       ELSE answers
    /\ poller' = [poller EXCEPT !.step = "answer"]
    /\ Handled
    /\ UNCHANGED <<updates, shown, last, status, active, readable, up, sending, reported,
                   crashes, failures>>

AnswerCallback ==
    /\ At("answer")
    /\ \/ Continue /\ UNCHANGED failures
       \/ CallFails /\ poller' = Dead
    /\ UNCHANGED <<updates, shown, store, up, sending, handled, reported, crashes>>

---------------------------------------------------------------------------
(* POST of a survey: the session is created, and then its messages sent.   *)

\* create_survey_session raises when the user has an active session.
CreateSurvey(s) ==
    /\ up /\ status[s] = "none"
    /\ UserOf[s] \in Allowed
    /\ active[UserOf[s]] = None
    /\ status' = [status EXCEPT ![s] = "active"]
    /\ active' = [active EXCEPT ![UserOf[s]] = s]
    /\ sending' = [sending EXCEPT ![s] = "intro"]
    /\ UNCHANGED <<updates, shown, last, answers, readable, up, poller, handled, reported,
                   crashes, failures>>

SendIntro(s) ==
    /\ up /\ sending[s] = "intro"
    /\ sending' = [sending EXCEPT ![s] = "question"]
    /\ UNCHANGED <<updates, shown, store, up, poller, handled, reported, crashes, failures>>

SendQuestion(s) ==
    /\ up /\ sending[s] = "question"
    /\ shown' = shown \cup {s}
    /\ sending' = [sending EXCEPT ![s] = "no"]
    /\ UNCHANGED <<updates, store, up, poller, handled, reported, crashes, failures>>

\* The request fails; its session stays active.
SendFails(s) ==
    /\ up /\ sending[s] # "no"
    /\ CallFails
    /\ sending' = [sending EXCEPT ![s] = "no"]
    /\ UNCHANGED <<updates, shown, store, up, poller, handled, reported, crashes>>

---------------------------------------------------------------------------
(* Crashes and restarts.                                                   *)

\* The process may die between two steps, or in the middle of write_text.
Crash(tears) ==
    /\ up
    /\ crashes < MaxCrashes /\ crashes' = crashes + 1
    /\ up' = FALSE
    /\ readable' = ~tears
    /\ poller' = Dead
    /\ sending' = [s \in Sessions |-> "no"]
    /\ UNCHANGED <<updates, shown, last, status, answers, active, handled, reported, failures>>

\* Mutant: the offset is not in the file.
RestartFromScratch ==
    /\ ~up /\ readable
    /\ up' = TRUE
    /\ last' = 0
    /\ poller' = NewPoller
    /\ UNCHANGED <<updates, shown, status, answers, active, readable, sending, handled, reported,
                   crashes, failures>>

\* load_state raises on a torn file: the service does not start again.
Restart ==
    /\ ~up /\ readable
    /\ up' = TRUE
    /\ poller' = NewPoller
    /\ UNCHANGED <<updates, shown, store, sending, handled, reported, crashes, failures>>

Polling ==
    \/ GetUpdates \/ Mark \/ BatchDone \/ Ignore \/ Text \/ Done \/ Publish \/ Select
    \/ AnswerCallback

Next ==
    \/ Polling \/ GetUpdatesFails \/ PublishFails
    \/ \E update \in Inputs : Arrive(update)
    \/ \E s \in Sessions : CreateSurvey(s) \/ SendIntro(s) \/ SendQuestion(s) \/ SendFails(s)
    \/ (\E tears \in BOOLEAN : Crash(tears)) \/ Restart

Spec == Init /\ [][Next]_vars

\* The event loop runs the polling task, and the process is started again.
FairSpec == Spec /\ WF_vars(Polling) /\ WF_vars(Restart)

---------------------------------------------------------------------------
(* Properties                                                              *)

\* Every variable has its type.
TypeOK ==
    /\ updates \in Seq(Update) /\ shown \in SUBSET Sessions
    /\ last \in Nat
    /\ status \in [Sessions -> {"none", "active", "completed"}]
    /\ answers \in [Sessions -> SUBSET Options]
    /\ active \in [Users -> Sessions \cup {None}]
    /\ readable \in BOOLEAN /\ up \in BOOLEAN
    /\ poller \in Poller
    /\ sending \in [Sessions -> {"no", "intro", "question"}]
    /\ handled \in Seq(Nat)
    /\ reported \in [Sessions -> Seq(SUBSET Options)]
    /\ crashes \in Nat /\ failures \in Nat

\* The offset is saved before an update is handled, so no update takes effect
\* twice or out of order, whatever crashes (a button pressed once does not
\* toggle its option back); the price is that each crash may lose one update,
\* and a polling task that dies of an exception loses none.
HandledOnce ==
    /\ \A i \in 1..Len(handled) - 1 : handled[i] < handled[i + 1]
    /\ last - Len(handled) <= crashes + (IF poller.step = "handle" THEN 1 ELSE 0)

\* The listener implements the life of a survey: one active session for a user
\* although sessions are created and finished by different tasks, no answer
\* after /done, and a report at most once, of the answers at /done, although
\* updates, crashes and failing calls come in between.
Life == INSTANCE SurveyLifecycle
KeepsSurveys == Life!Survey

\* As long as the polling task lives every update is handled in the end.
HealthyIsServed == []<>(last = Len(updates) \/ ~up \/ poller.step = "dead")
=============================================================================
