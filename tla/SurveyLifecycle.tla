---------------------------- MODULE SurveyLifecycle ----------------------------
(***************************************************************************)
(* What the Telegram bot listener promises of a survey, without updates,   *)
(* offsets, messages or restarts: a user answers one survey at a time; a   *)
(* survey collects answers until the user is done with it, and then its    *)
(* answers are fixed; a survey that is done is reported to the agent at    *)
(* most once, with those answers.                                          *)
(***************************************************************************)
CONSTANTS
    Sessions,
    Options,
    UserOf         \* the user each session asks

VARIABLES
    status,        \* "none", "active" or "completed"
    answers,       \* options selected in each session
    reported       \* the reports of its answers to the agent

survey == <<status, answers, reported>>

SurveyInit ==
    /\ status = [s \in Sessions |-> "none"]
    /\ answers = [s \in Sessions |-> {}]
    /\ reported = [s \in Sessions |-> <<>>]

Open(s) ==
    /\ status[s] = "none"
    /\ \A t \in Sessions : UserOf[t] = UserOf[s] => status[t] # "active"
    /\ status' = [status EXCEPT ![s] = "active"]
    /\ UNCHANGED <<answers, reported>>

Answer(s, chosen) ==
    /\ status[s] = "active"
    /\ answers' = [answers EXCEPT ![s] = chosen]
    /\ UNCHANGED <<status, reported>>

Finish(s) ==
    /\ status[s] = "active"
    /\ status' = [status EXCEPT ![s] = "completed"]
    /\ UNCHANGED <<answers, reported>>

Report(s) ==
    /\ status[s] = "completed" /\ reported[s] = <<>>
    /\ reported' = [reported EXCEPT ![s] = <<answers[s]>>]
    /\ UNCHANGED <<status, answers>>

SurveyNext ==
    \E s \in Sessions :
        Open(s) \/ Finish(s) \/ Report(s) \/ \E chosen \in SUBSET Options : Answer(s, chosen)

Survey == SurveyInit /\ [][SurveyNext]_survey
=============================================================================
