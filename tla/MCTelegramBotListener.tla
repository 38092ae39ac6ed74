------------------------- MODULE MCTelegramBotListener -------------------------
(* The listener with one user it talks to, asked twice, and a stranger.    *)
EXTENDS TelegramBotListener

CONSTANTS u1, u2, s1, s2, o1, o2

\* Messages of the user and the stranger, and the buttons of both surveys.
UserInputs ==
    {[user |-> u1, kind |-> "done"], [user |-> u1, kind |-> "text"], [user |-> u2, kind |-> "done"]}
        \cup [user : {u1}, kind : {"press"}, session : Sessions, option : Options]
BothAskTheUser == [s \in Sessions |-> u1]
=============================================================================
