----------------------- MODULE TelegramBotListener_proofs -----------------------
(***************************************************************************)
(* Theorems about TelegramBotListener, for every set of users, sessions    *)
(* and options, single or multi select, and every bound.                   *)
(***************************************************************************)
EXTENDS TelegramBotListener, TLAPS

---------------------------------------------------------------------------
(***************************************************************************)
(* Type correctness.  What is handled is an update there is: the offset    *)
(* stays within the batch, and the batch within the updates.               *)
(***************************************************************************)

\* The polling task works on its batch, publishes a session there is, and ends
\* with the process.
PollerInv ==
    /\ last <= Len(updates)
    /\ poller.step \in {"next", "handle", "answer", "publish"} =>
           last <= poller.batch /\ poller.batch <= Len(updates)
    /\ poller.step = "handle" => last > 0
    /\ poller.step = "publish" => poller.session \in Sessions
    /\ ~up => poller.step = "dead"

\* The initial state has its types, and nothing to handle.
LEMMA TypeInit == Init => TypeOK /\ PollerInv
BY DEF Init, TypeOK, PollerInv, Poller, NewPoller

\* The update in hand is one of Telegram's.
LEMMA InHand ==
    ASSUME TypeOK, PollerInv, At("handle")
    PROVE  Update1 \in Update /\ Update1.user \in Users
<1>1. last \in 1..Len(updates)
  BY DEF TypeOK, PollerInv, At
<1> QED BY <1>1 DEF TypeOK, Update1, Update, Message, Press

\* A button in hand names a session and an option.
LEMMA PressInHand ==
    ASSUME TypeOK, PollerInv, At("handle"), Update1.kind = "press"
    PROVE  Update1.session \in Sessions /\ Update1.option \in Options
BY InHand DEF Update, Message, Press

\* Selecting an option yields options.
LEMMA MergeType ==
    ASSUME NEW chosen \in SUBSET Options, NEW option \in Options
    PROVE  Merge(chosen, option) \in SUBSET Options
BY DEF Merge

\* What the next step of the polling task leaves of its state.
LEMMA PollerFields ==
    ASSUME TypeOK
    PROVE  /\ poller \in Poller /\ poller.batch \in Nat /\ last \in Nat /\ Len(updates) \in Nat
           /\ Len(handled) \in Nat /\ crashes \in Nat
           /\ NewPoller \in Poller /\ Dead \in Poller
           /\ NewPoller.step = "poll" /\ Dead.step = "dead" /\ Dead.session = None
           /\ \A step \in {"next", "handle", "answer"} :
                 LET moved == [poller EXCEPT !.step = step]
                 IN moved \in Poller /\ moved.step = step /\ moved.batch = poller.batch
<1>1. /\ poller \in Poller /\ poller.batch \in Nat /\ last \in Nat /\ Len(updates) \in Nat
      /\ Len(handled) \in Nat /\ crashes \in Nat
  BY DEF TypeOK, Poller
<1>2. NewPoller \in Poller /\ NewPoller.step = "poll" /\ NewPoller.session = None
  BY DEF NewPoller, Poller
<1>3. Dead \in Poller /\ Dead.step = "dead" /\ Dead.session = None
  BY DEF Dead, NewPoller, Poller
<1>4. ASSUME NEW step \in {"next", "handle", "answer"}
      PROVE  /\ [poller EXCEPT !.step = step] \in Poller
             /\ [poller EXCEPT !.step = step].step = step
             /\ [poller EXCEPT !.step = step].batch = poller.batch
  BY <1>1 DEF Poller
<1> QED BY <1>1, <1>2, <1>3, <1>4

\* The steps of the polling task keep the types.
LEMMA PollingType ==
    ASSUME TypeOK, PollerInv, Polling \/ GetUpdatesFails \/ PublishFails
    PROVE  TypeOK' /\ PollerInv'
<1> USE DEF store
<1>0. poller \in Poller /\ last \in Nat /\ Len(updates) \in Nat /\ failures \in Nat
  BY PollerFields DEF TypeOK
<1>a. failures + 1 \in Nat
  BY <1>0
<1>1. CASE GetUpdates
  <2>1. poller' \in Poller /\ poller'.step = "next" /\ poller'.batch = Len(updates)
    BY <1>0, <1>1 DEF GetUpdates, Poller
  <2> QED BY <1>0, <1>1, <2>1 DEF TypeOK, PollerInv, GetUpdates, At
<1>2. CASE GetUpdatesFails \/ PublishFails
  <2>1. poller' \in Poller /\ poller'.step = "dead"
    BY <1>2, PollerFields DEF GetUpdatesFails, PublishFails
  <2> QED BY <1>0, <1>a, <1>2, <2>1 DEF TypeOK, PollerInv, GetUpdatesFails, PublishFails, CallFails
<1>3. CASE Mark
  <2>1. poller' \in Poller /\ poller'.step = "handle" /\ poller'.batch = poller.batch
    BY <1>3, PollerFields DEF Mark
  <2>2. poller.step = "next" /\ last < poller.batch /\ last' = last + 1 /\ poller.batch \in Nat
    BY <1>3, PollerFields DEF Mark, At
  <2>3. last' \in Nat /\ last' > 0 /\ last' <= poller'.batch /\ poller'.batch <= Len(updates)
    BY <1>0, <2>1, <2>2 DEF PollerInv
  <2> QED BY <1>0, <1>3, <2>1, <2>2, <2>3 DEF TypeOK, PollerInv, Mark, At
<1>4. CASE BatchDone
  <2>1. poller' \in Poller /\ poller'.step = "poll"
    BY <1>4, PollerFields DEF BatchDone
  <2> QED BY <1>4, <2>1 DEF TypeOK, PollerInv, BatchDone, At
<1>5. CASE Ignore \/ Text
  <2>1. poller' \in Poller /\ poller'.step = "next" /\ poller'.batch = poller.batch
    BY <1>5, PollerFields DEF Ignore, Text, Continue
  <2>2. handled' \in Seq(Nat)
    <3>1. handled' = Append(handled, last)
      BY <1>5 DEF Ignore, Text, Handled
    <3> QED BY <1>0, <3>1 DEF TypeOK
  <2> QED BY <1>5, <2>1, <2>2 DEF TypeOK, PollerInv, Ignore, Text, At
<1>6. CASE Done
  <2> DEFINE user == Update1.user
             s == active[user]
  <2>1. At("handle") /\ user \in Users
    BY <1>6, InHand DEF Done
  <2> HIDE DEF user
  <2>2. s \in Sessions \cup {None}
    BY <2>1 DEF TypeOK
  <2>3. \/ s = None /\ Continue /\ UNCHANGED <<status, active>>
        \/ /\ s # None
           /\ status' = [status EXCEPT ![s] = "completed"]
           /\ active' = [active EXCEPT ![user] = None]
           /\ poller' = [poller EXCEPT !.step = "publish", !.session = s]
    BY <1>6 DEF Done, user
  <2>4. /\ UNCHANGED <<updates, shown, last, answers, readable, up, sending, reported, crashes,
                       failures>>
        /\ handled' = Append(handled, last)
    BY <1>6 DEF Done, Handled
  <2> HIDE DEF s
  <2>5. poller' \in Poller /\ poller'.batch = poller.batch /\ poller'.step \in {"next", "publish"}
        /\ (poller'.step = "publish" => poller'.session \in Sessions)
    BY <1>0, <2>2, <2>3 DEF Continue, Poller
  <2>6. /\ status' \in [Sessions -> {"none", "active", "completed"}]
        /\ active' \in [Users -> Sessions \cup {None}]
    BY <2>2, <2>3 DEF TypeOK
  <2> QED BY <1>0, <2>1, <2>4, <2>5, <2>6 DEF TypeOK, PollerInv, At
<1>7. CASE Publish
  <2>1. poller.session \in Sessions
    BY <1>7 DEF Publish, At, PollerInv
  <2>2. reported' \in [Sessions -> Seq(SUBSET Options)]
    BY <1>7, <2>1 DEF Publish, TypeOK
  <2>3. /\ poller' \in Poller /\ poller'.step \in {"next", "dead"}
        /\ poller'.step = "next" => poller'.batch = poller.batch
    BY <1>0, <1>7, PollerFields DEF Publish, Poller
  <2>4. failures' \in Nat
    BY <1>0, <1>a, <1>7 DEF Publish, CallFails
  <2> QED BY <1>7, <2>2, <2>3, <2>4 DEF TypeOK, PollerInv, Publish, At
<1>8. CASE Select
  <2>1. At("handle") /\ Update1.session \in Sessions /\ Update1.option \in Options
    BY <1>8, PressInHand DEF Select
  <2>2. Merge(answers[Update1.session], Update1.option) \in SUBSET Options
    BY <2>1, MergeType DEF TypeOK
  <2>3. answers' \in [Sessions -> SUBSET Options]
    BY <1>8, <2>1, <2>2 DEF TypeOK, Select
  <2>4. poller' \in Poller /\ poller'.step = "answer" /\ poller'.batch = poller.batch
    BY <1>8, PollerFields DEF Select
  <2>5. handled' \in Seq(Nat)
    <3>1. handled' = Append(handled, last)
      BY <1>8 DEF Select, Handled
    <3> QED BY <1>0, <3>1 DEF TypeOK
  <2> QED BY <1>8, <2>1, <2>3, <2>4, <2>5 DEF TypeOK, PollerInv, Select, At
<1>9. CASE AnswerCallback
  <2>1. /\ poller' \in Poller /\ poller'.step \in {"next", "dead"}
        /\ poller'.step = "next" => poller'.batch = poller.batch
    BY <1>9, PollerFields DEF AnswerCallback, Continue
  <2>2. failures' \in Nat
    BY <1>0, <1>a, <1>9 DEF AnswerCallback, CallFails
  <2> QED BY <1>9, <2>1, <2>2 DEF TypeOK, PollerInv, AnswerCallback, At
<1> QED BY <1>1, <1>2, <1>3, <1>4, <1>5, <1>6, <1>7, <1>8, <1>9 DEF Polling

\* The updates that arrive, the surveys' requests, crashes and restarts keep the
\* types.
LEMMA OthersType ==
    ASSUME TypeOK, PollerInv,
           \/ \E update \in Inputs : Arrive(update)
           \/ \E s \in Sessions : CreateSurvey(s) \/ SendIntro(s) \/ SendQuestion(s) \/ SendFails(s)
           \/ (\E tears \in BOOLEAN : Crash(tears)) \/ Restart
    PROVE  TypeOK' /\ PollerInv'
<1> USE DEF store
<1>1. ASSUME NEW update \in Inputs, Arrive(update)
      PROVE  TypeOK' /\ PollerInv'
  <2>1. update \in Update
    BY ListenerAssumption
  <2>2. updates' \in Seq(Update) /\ Len(updates') = Len(updates) + 1 /\ Len(updates) \in Nat
    BY <1>1, <2>1 DEF Arrive, TypeOK
  <2> QED BY <1>1, <2>2 DEF TypeOK, PollerInv, Arrive, Poller
<1>2. ASSUME NEW s \in Sessions, CreateSurvey(s)
      PROVE  TypeOK' /\ PollerInv'
  BY <1>2, ListenerAssumption DEF TypeOK, PollerInv, CreateSurvey
<1>3. ASSUME NEW s \in Sessions, SendIntro(s) \/ SendQuestion(s) \/ SendFails(s)
      PROVE  TypeOK' /\ PollerInv'
  <2>1. failures' \in Nat
    BY <1>3 DEF TypeOK, SendIntro, SendQuestion, SendFails, CallFails
  <2>2. sending' \in [Sessions -> {"no", "intro", "question"}]
    <3>1. PICK step \in {"no", "intro", "question"} : sending' = [sending EXCEPT ![s] = step]
      BY <1>3 DEF SendIntro, SendQuestion, SendFails
    <3> QED BY <3>1 DEF TypeOK
  <2>3. shown' \in SUBSET Sessions
    BY <1>3 DEF TypeOK, SendIntro, SendQuestion, SendFails
  <2> QED BY <1>3, <2>1, <2>2, <2>3 DEF TypeOK, PollerInv, SendIntro, SendQuestion, SendFails
<1>4. ASSUME NEW tears \in BOOLEAN, Crash(tears)
      PROVE  TypeOK' /\ PollerInv'
  <2>1. poller' \in Poller /\ poller'.step = "dead"
    BY <1>4, PollerFields DEF Crash
  <2>2. crashes' \in Nat /\ readable' \in BOOLEAN
    BY <1>4 DEF Crash, TypeOK
  <2> QED BY <1>4, <2>1, <2>2 DEF TypeOK, PollerInv, Crash
<1>5. CASE Restart
  BY <1>5 DEF TypeOK, PollerInv, Restart, NewPoller, Poller
<1> QED BY <1>1, <1>2, <1>3, <1>4, <1>5

\* Every state has its variables in their types, and the update that is handled
\* is one that Telegram has: the offset never runs ahead of the updates.
THEOREM ListenerTypeCorrect == Spec => [](TypeOK /\ PollerInv)
<1>1. TypeOK /\ PollerInv /\ [Next]_vars => TypeOK' /\ PollerInv'
  <2> SUFFICES ASSUME TypeOK, PollerInv, [Next]_vars PROVE TypeOK' /\ PollerInv'
    OBVIOUS
  <2>1. CASE UNCHANGED vars
    BY <2>1 DEF vars, store, TypeOK, PollerInv
  <2> QED BY <2>1, PollingType, OthersType DEF Next
<1> QED BY TypeInit, <1>1, PTL DEF Spec

---------------------------------------------------------------------------
(***************************************************************************)
(* No update takes effect twice, and each crash costs one at most.         *)
(***************************************************************************)

\* What has taken effect came before the update in hand, in order; the updates
\* that were marked and not handled are the one in hand and one for each crash.
HandledInv ==
    /\ \A i \in 1..Len(handled) :
          handled[i] < last + (IF poller.step = "handle" THEN 0 ELSE 1)
    /\ HandledOnce

\* A step that neither marks nor handles an update, nor puts one down but in a
\* crash.
LEMMA HandledFrame ==
    ASSUME TypeOK, HandledInv, UNCHANGED <<last, handled>>,
           poller'.step # "handle" \/ poller' = poller,
           \/ crashes' = crashes /\ (poller.step = "handle" => poller' = poller)
           \/ crashes' = crashes + 1
    PROVE  HandledInv'
<1>1. last \in Nat /\ Len(handled) \in Nat /\ crashes \in Nat
      /\ \A i \in 1..Len(handled) : handled[i] \in Nat
  BY DEF TypeOK
<1> QED BY <1>1 DEF HandledInv, HandledOnce

\* Handling the update in hand keeps the order.
LEMMA HandledOne ==
    ASSUME TypeOK, HandledInv, At("handle"), Handled, UNCHANGED <<last, crashes>>,
           poller'.step # "handle"
    PROVE  HandledInv'
<1>1. /\ last \in Nat /\ Len(handled) \in Nat /\ crashes \in Nat /\ handled \in Seq(Nat)
      /\ \A i \in 1..Len(handled) : handled[i] \in Nat
  BY DEF TypeOK
<1>2. poller.step = "handle" /\ handled' = Append(handled, last)
  BY DEF At, Handled
<1>3. /\ Len(handled') = Len(handled) + 1 /\ handled'[Len(handled) + 1] = last
      /\ \A i \in 1..Len(handled) : handled'[i] = handled[i]
  BY <1>1, <1>2
<1>4. \A i \in 1..Len(handled) : handled[i] < last
  BY <1>1, <1>2 DEF HandledInv
<1>5. \A i \in 1..Len(handled') : handled'[i] < last' + 1
  BY <1>1, <1>3, <1>4
<1>6. ASSUME NEW i \in 1..Len(handled') - 1
      PROVE  handled'[i] < handled'[i + 1]
  <2>1. CASE i = Len(handled)
    BY <1>1, <1>3, <1>4, <2>1
  <2>2. CASE i # Len(handled)
    <3>1. i \in 1..Len(handled) - 1 /\ i \in 1..Len(handled) /\ i + 1 \in 1..Len(handled)
      BY <1>1, <1>3, <2>2
    <3> QED BY <1>3, <3>1 DEF HandledInv, HandledOnce
  <2> QED BY <2>1, <2>2
<1>7. last' - Len(handled') <= crashes'
  BY <1>1, <1>2, <1>3 DEF HandledInv, HandledOnce
<1>8. \A i \in 1..Len(handled') : handled'[i] < last' + (IF poller'.step = "handle" THEN 0 ELSE 1)
  BY <1>5
<1>9. last' - Len(handled') <= crashes' + (IF poller'.step = "handle" THEN 1 ELSE 0)
  <2>1. poller'.step # "handle" /\ last' \in Nat /\ Len(handled') \in Nat /\ crashes' \in Nat
    BY <1>1, <1>3
  <2> QED BY <1>7, <2>1
<1> QED BY <1>6, <1>8, <1>9 DEF HandledInv, HandledOnce

\* Every step keeps the order and the count.
LEMMA HandledStep ==
    ASSUME TypeOK, PollerInv, HandledInv, [Next]_vars
    PROVE  HandledInv'
<1> USE DEF store
<1>0. poller \in Poller /\ last \in Nat /\ Len(handled) \in Nat /\ crashes \in Nat
  BY DEF TypeOK
<1>1. CASE Mark
  <2>1. /\ poller.step = "next" /\ poller'.step = "handle" /\ last' = last + 1
        /\ UNCHANGED <<handled, crashes>>
    BY <1>0, <1>1 DEF Mark, At, Poller
  <2>2. \A i \in 1..Len(handled) : handled[i] \in Nat
    BY DEF TypeOK
  <2> QED BY <1>0, <2>1, <2>2 DEF HandledInv, HandledOnce
<1>2. CASE Ignore \/ Text
  BY <1>0, <1>2, HandledOne DEF Ignore, Text, Continue, Poller
<1>3. CASE Done
  <2>1. poller'.step # "handle"
    BY <1>0, <1>3 DEF Done, Continue, Poller
  <2> QED BY <1>3, <2>1, HandledOne DEF Done
<1>4. CASE Select
  <2>1. poller'.step # "handle"
    BY <1>0, <1>4 DEF Select, Poller
  <2> QED BY <1>4, <2>1, HandledOne DEF Select
<1>5. CASE \/ GetUpdates \/ GetUpdatesFails \/ BatchDone \/ Publish \/ PublishFails
           \/ AnswerCallback
  <2>1. UNCHANGED <<last, handled, crashes>> /\ poller.step # "handle"
    BY <1>5 DEF GetUpdates, GetUpdatesFails, BatchDone, Publish, PublishFails, AnswerCallback, At
  <2>2. poller'.step # "handle"
    <3>1. CASE GetUpdates \/ BatchDone
      BY <1>0, <3>1, PollerFields DEF GetUpdates, BatchDone, Poller
    <3>2. CASE GetUpdatesFails \/ PublishFails
      BY <3>2, PollerFields DEF GetUpdatesFails, PublishFails
    <3>3. CASE Publish
      BY <1>0, <3>3, PollerFields DEF Publish, Poller
    <3>4. CASE AnswerCallback
      BY <3>4, PollerFields DEF AnswerCallback, Continue
    <3> QED BY <1>5, <3>1, <3>2, <3>3, <3>4
  <2> QED BY <2>1, <2>2, HandledFrame
<1>6. CASE Restart
  <2>1. UNCHANGED <<last, handled, crashes>> /\ poller'.step # "handle" /\ poller.step # "handle"
    BY <1>6 DEF Restart, NewPoller, PollerInv
  <2> QED BY <2>1, HandledFrame
<1>7. ASSUME NEW tears \in BOOLEAN, Crash(tears)
      PROVE  HandledInv'
  <2>1. UNCHANGED <<last, handled>> /\ crashes' = crashes + 1 /\ poller'.step # "handle"
    BY <1>7 DEF Crash, Dead, NewPoller
  <2> QED BY <2>1, HandledFrame
<1>8. CASE UNCHANGED <<last, handled, crashes, poller>>
  BY <1>8, HandledFrame
<1>9. ASSUME NEW s \in Sessions, CreateSurvey(s) \/ SendIntro(s) \/ SendQuestion(s) \/ SendFails(s)
      PROVE  HandledInv'
  BY <1>8, <1>9 DEF CreateSurvey, SendIntro, SendQuestion, SendFails
<1>10. ASSUME NEW update \in Inputs, Arrive(update)
       PROVE  HandledInv'
  BY <1>8, <1>10 DEF Arrive
<1> QED BY <1>1, <1>2, <1>3, <1>4, <1>5, <1>6, <1>7, <1>8, <1>9, <1>10 DEF Next, Polling, vars

\* No update takes effect twice or out of order, and each crash loses one at
\* most: the offset is saved before the update is handled, and nothing that ends
\* the polling task does so between the two but a crash.
THEOREM UpdatesAreHandledOnce == Spec => []HandledOnce
<1>1. Init => HandledInv
  BY DEF Init, HandledInv, HandledOnce, NewPoller
<1>2. TypeOK /\ PollerInv /\ HandledInv /\ [Next]_vars => HandledInv'
  BY HandledStep
<1>3. HandledInv => HandledOnce
  BY DEF HandledInv
<1> QED BY <1>1, <1>2, <1>3, ListenerTypeCorrect, PTL DEF Spec

---------------------------------------------------------------------------
(***************************************************************************)
(* The listener implements the life of a survey: each of its steps is a    *)
(* step of SurveyLifecycle or leaves the surveys alone.                    *)
(***************************************************************************)

\* The store knows the one active session of each user, and a session is
\* reported when it is complete, by the polling task that completed it.
SessionInv ==
    /\ \A u \in Users : active[u] # None => status[active[u]] = "active" /\ UserOf[active[u]] = u
    /\ \A s \in Sessions : status[s] = "active" => active[UserOf[s]] = s
    /\ \A s \in Sessions : reported[s] # <<>> => status[s] = "completed"
    /\ poller.step = "publish" =>
           status[poller.session] = "completed" /\ reported[poller.session] = <<>>

\* A step that leaves the sessions alone, and publishes nothing.
LEMMA SessionFrame ==
    ASSUME SessionInv, UNCHANGED <<status, active, reported>>,
           poller' = poller \/ poller'.step # "publish"
    PROVE  SessionInv'
BY DEF SessionInv

\* Creating a survey is opening it: its user has no other that is active.
LEMMA CreateOpens ==
    ASSUME TypeOK, SessionInv, NEW s \in Sessions, CreateSurvey(s)
    PROVE  SessionInv' /\ Life!Open(s)
<1>0. UserOf \in [Sessions -> Users] /\ None \notin Sessions /\ UserOf[s] \in Users
  BY ListenerAssumption
<1>1. /\ status' = [status EXCEPT ![s] = "active"] /\ active' = [active EXCEPT ![UserOf[s]] = s]
      /\ status[s] = "none" /\ active[UserOf[s]] = None
      /\ UNCHANGED <<answers, reported, poller>>
  BY DEF CreateSurvey
<1>2. \A t \in Sessions : UserOf[t] = UserOf[s] => status[t] # "active"
  BY <1>0, <1>1 DEF SessionInv
<1>3. \A u \in Users : active'[u] # None =>
          status'[active'[u]] = "active" /\ UserOf[active'[u]] = u
  BY <1>0, <1>1 DEF SessionInv, TypeOK
<1>4. \A t \in Sessions : status'[t] = "active" => active'[UserOf[t]] = t
  BY <1>0, <1>1, <1>2 DEF SessionInv, TypeOK
<1>5. \A t \in Sessions : reported[t] # <<>> => status'[t] = "completed"
  BY <1>1 DEF SessionInv, TypeOK
<1>6. poller.step = "publish" =>
          status'[poller.session] = "completed" /\ reported[poller.session] = <<>>
  BY <1>1 DEF SessionInv, TypeOK
<1> QED BY <1>1, <1>2, <1>3, <1>4, <1>5, <1>6 DEF SessionInv, Life!Open

\* A user's /done finishes the session that is active, if there is one.
LEMMA DoneFinishes ==
    ASSUME TypeOK, PollerInv, SessionInv, Done
    PROVE  /\ SessionInv'
           /\ UNCHANGED Life!survey \/ \E s \in Sessions : Life!Finish(s)
<1> DEFINE user == Update1.user
           s == active[user]
<1>0. UserOf \in [Sessions -> Users] /\ None \notin Sessions
  BY ListenerAssumption
<1>1. user \in Users
  BY InHand DEF Done
<1>2. s \in Sessions \cup {None}
  BY <1>1 DEF TypeOK
<1>3. /\ UNCHANGED <<answers, reported>>
      /\ \/ s = None /\ Continue /\ UNCHANGED <<status, active>>
         \/ /\ s # None
            /\ status' = [status EXCEPT ![s] = "completed"]
            /\ active' = [active EXCEPT ![user] = None]
            /\ poller' = [poller EXCEPT !.step = "publish", !.session = s]
  BY DEF Done
<1>4. s # None => status[s] = "active" /\ UserOf[s] = user
  BY <1>1 DEF SessionInv
<1> HIDE DEF user, s
<1>5. CASE s = None
  <2>1. UNCHANGED <<status, answers, active, reported>> /\ poller'.step # "publish"
    BY <1>3, <1>5, PollerFields DEF Continue
  <2> QED BY <2>1, SessionFrame DEF Life!survey
<1>6. CASE s # None
  <2>1. /\ s \in Sessions /\ status[s] = "active" /\ UserOf[s] = user /\ active[user] = s
        /\ status' = [status EXCEPT ![s] = "completed"]
        /\ active' = [active EXCEPT ![user] = None]
    BY <1>2, <1>3, <1>4, <1>6 DEF s
  <2>2. poller'.step = "publish" /\ poller'.session = s
    BY <1>3, <1>6, PollerFields DEF Poller
  <2>3. Life!Finish(s)
    BY <1>3, <2>1 DEF Life!Finish
  <2>4. \A u \in Users : active'[u] # None =>
            status'[active'[u]] = "active" /\ UserOf[active'[u]] = u
    BY <1>0, <1>1, <2>1 DEF SessionInv, TypeOK
  <2>5. \A t \in Sessions : status'[t] = "active" => active'[UserOf[t]] = t
    BY <1>0, <1>1, <2>1 DEF SessionInv, TypeOK
  <2>6. reported[s] = <<>> /\ status'[s] = "completed"
    BY <2>1 DEF SessionInv, TypeOK
  <2>7. \A t \in Sessions : reported[t] # <<>> => status'[t] = "completed"
    BY <2>1 DEF SessionInv, TypeOK
  <2> QED BY <1>3, <2>1, <2>2, <2>3, <2>4, <2>5, <2>6, <2>7 DEF SessionInv
<1> QED BY <1>5, <1>6

\* Publishing reports the session that has just been completed, whether the call
\* raises afterwards or not.
LEMMA PublishReports ==
    ASSUME TypeOK, PollerInv, SessionInv, Publish
    PROVE  SessionInv' /\ \E s \in Sessions : Life!Report(s)
<1> DEFINE s == poller.session
<1>1. s \in Sessions /\ status[s] = "completed" /\ reported[s] = <<>>
  BY DEF Publish, At, PollerInv, SessionInv
<1>2. /\ reported' = [reported EXCEPT ![s] = Append(reported[s], answers[s])]
      /\ UNCHANGED <<status, answers, active>>
  BY DEF Publish, store
<1>3. poller'.step # "publish"
  BY PollerFields DEF Publish, Poller
<1> HIDE DEF s
<1>4. Append(reported[s], answers[s]) = <<answers[s]>>
  BY <1>1
<1>5. Life!Report(s)
  BY <1>1, <1>2, <1>4 DEF Life!Report
<1>6. \A t \in Sessions : reported'[t] # <<>> => status[t] = "completed"
  BY <1>1, <1>2 DEF SessionInv, TypeOK
<1> QED BY <1>1, <1>2, <1>3, <1>5, <1>6 DEF SessionInv

\* A button changes the answers of the session that is active, or nothing.
LEMMA SelectAnswers ==
    ASSUME TypeOK, PollerInv, SessionInv, Select
    PROVE  /\ SessionInv'
           /\ \/ UNCHANGED Life!survey
              \/ \E s \in Sessions, chosen \in SUBSET Options : Life!Answer(s, chosen)
<1> DEFINE s == Update1.session
           chosen == Merge(answers[s], Update1.option)
<1>0. None \notin Sessions
  BY ListenerAssumption
<1>1. s \in Sessions /\ Update1.option \in Options /\ Update1.user \in Users
  BY PressInHand, InHand DEF Select
<1>2. chosen \in SUBSET Options
  BY <1>1, MergeType DEF TypeOK
<1>3. /\ UNCHANGED <<status, active, reported>>
      /\ answers' = IF active[Update1.user] = s THEN [answers EXCEPT ![s] = chosen] ELSE answers
  BY DEF Select
<1>4. poller'.step # "publish"
  BY PollerFields DEF Select
<1>5. active[Update1.user] = s => status[s] = "active"
  BY <1>0, <1>1 DEF SessionInv
<1> HIDE DEF s, chosen
<1>6. UNCHANGED Life!survey \/ Life!Answer(s, chosen)
  BY <1>3, <1>5 DEF Life!Answer, Life!survey
<1> QED BY <1>1, <1>2, <1>3, <1>4, <1>6, SessionFrame

\* Every step keeps the sessions in order, and is a step in a survey's life or
\* none of its business.
LEMMA LifeStep ==
    ASSUME TypeOK, PollerInv, SessionInv, [Next]_vars
    PROVE  SessionInv' /\ [Life!SurveyNext]_(Life!survey)
<1>1. ASSUME UNCHANGED <<status, answers, active, reported>>,
             poller' = poller \/ poller'.step # "publish"
      PROVE  SessionInv' /\ UNCHANGED Life!survey
  BY <1>1, SessionFrame DEF Life!survey
<1>2. ASSUME NEW s \in Sessions, CreateSurvey(s)
      PROVE  SessionInv' /\ [Life!SurveyNext]_(Life!survey)
  BY <1>2, CreateOpens DEF Life!SurveyNext
<1>3. CASE Done
  BY <1>3, DoneFinishes DEF Life!SurveyNext
<1>4. CASE Publish
  BY <1>4, PublishReports DEF Life!SurveyNext
<1>5. CASE Select
  BY <1>5, SelectAnswers DEF Life!SurveyNext
<1>6. CASE Ignore \/ Text \/ Mark
  BY <1>1, <1>6, PollerFields DEF Ignore, Text, Mark, Continue, store
<1>7. CASE AnswerCallback
  BY <1>1, <1>7, PollerFields DEF AnswerCallback, Continue, store
<1>8. CASE GetUpdates
  <2>1. poller'.step # "publish"
    BY <1>8, PollerFields DEF GetUpdates, Poller
  <2> QED BY <1>1, <1>8, <2>1 DEF GetUpdates, store
<1>9. CASE GetUpdatesFails \/ PublishFails \/ BatchDone \/ Restart
  BY <1>1, <1>9, PollerFields DEF GetUpdatesFails, PublishFails, BatchDone, Restart, store
<1>10. ASSUME NEW tears \in BOOLEAN, Crash(tears)
       PROVE  SessionInv' /\ UNCHANGED Life!survey
  BY <1>1, <1>10, PollerFields DEF Crash
<1>11. ASSUME NEW s \in Sessions, SendIntro(s) \/ SendQuestion(s) \/ SendFails(s)
       PROVE  SessionInv' /\ UNCHANGED Life!survey
  BY <1>1, <1>11 DEF SendIntro, SendQuestion, SendFails, store
<1>12. ASSUME NEW update \in Inputs, Arrive(update)
       PROVE  SessionInv' /\ UNCHANGED Life!survey
  BY <1>1, <1>12 DEF Arrive, store
<1>13. CASE UNCHANGED vars
  BY <1>1, <1>13 DEF vars, store
<1> QED BY <1>2, <1>3, <1>4, <1>5, <1>6, <1>7, <1>8, <1>9, <1>10, <1>11, <1>12, <1>13
        DEF Next, Polling

\* The listener implements the life of a survey, for every number of users and
\* sessions: a user answers one survey at a time, a survey takes no answer after
\* /done, and is reported at most once, with the answers it had then.
THEOREM ListenerKeepsSurveys == Spec => KeepsSurveys
<1>1. Init => SessionInv /\ Life!SurveyInit
  BY DEF Init, SessionInv, Life!SurveyInit, NewPoller
<1>2. TypeOK /\ PollerInv /\ SessionInv /\ [Next]_vars =>
          SessionInv' /\ [Life!SurveyNext]_(Life!survey)
  BY LifeStep
<1> QED BY <1>1, <1>2, ListenerTypeCorrect, PTL DEF Spec, KeepsSurveys, Life!Survey
=============================================================================
