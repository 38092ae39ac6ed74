--------------------------- MODULE AgentRuntime_proofs ---------------------------
(***************************************************************************)
(* Theorems about AgentRuntime, for every finite set of events, for every  *)
(* set of threads, limit and bound, and for both backends.                 *)
(***************************************************************************)
EXTENDS AgentRuntime, FiniteSetTheorems, SequenceTheorems, TLAPS

---------------------------------------------------------------------------
(***************************************************************************)
(* Sequences.                                                              *)
(***************************************************************************)

\* Removing an element of a sequence without repetitions closes the gap.
LEMMA RemoveFirstIs ==
    ASSUME NEW S, NEW s \in Seq(S), NEW e,
           \A i, j \in 1..Len(s) : s[i] = s[j] => i = j
    PROVE  \/ RemoveFirst(s, e) = s /\ \A i \in 1..Len(s) : s[i] # e
           \/ \E p \in 1..Len(s) :
                 /\ s[p] = e
                 /\ RemoveFirst(s, e) \in Seq(S) /\ Len(RemoveFirst(s, e)) = Len(s) - 1
                 /\ \A i \in 1..(Len(s) - 1) :
                       RemoveFirst(s, e)[i] = IF i < p THEN s[i] ELSE s[i + 1]
<1>1. CASE \E i \in 1..Len(s) : s[i] = e
  <2>1. PICK p \in 1..Len(s) : s[p] = e
    BY <1>1
  <2>2. {i \in 1..Len(s) : s[i] = e} = {p}
    BY <2>1
  <2>3. Min({p}) = p
    BY <2>1 DEF Min
  <2>4. SelectInSeq(s, LAMBDA v : v = e) = p
    BY <2>2, <2>3 DEF SelectInSeq
  <2> DEFINE f == SubSeq(s, 1, p - 1)
             g == SubSeq(s, p + 1, Len(s))
  <2>5. RemoveFirst(s, e) = f \o g
    BY <1>1, <2>4 DEF RemoveFirst, RemoveAt
  <2>6. Len(s) \in Nat /\ p \in Nat /\ p >= 1 /\ p <= Len(s)
    BY <2>1
  <2>7. f \in Seq(S) /\ Len(f) = p - 1 /\ \A i \in 1..(p - 1) : f[i] = s[i]
    BY <2>6
  <2>8. g \in Seq(S) /\ Len(g) = Len(s) - p /\ \A i \in 1..(Len(s) - p) : g[i] = s[p + i]
    BY <2>6
  <2> HIDE DEF f, g
  <2>9. f \o g \in Seq(S) /\ Len(f \o g) = Len(f) + Len(g)
    BY <2>7, <2>8, ConcatProperties, ZenonT(40)
  <2>10. Len(f \o g) = Len(s) - 1
    BY <2>6, <2>7, <2>8, <2>9
  <2>11. \A i \in 1..(Len(s) - 1) : (f \o g)[i] = IF i < p THEN s[i] ELSE s[i + 1]
    BY <2>6, <2>7, <2>8
  <2> QED BY <2>1, <2>5, <2>9, <2>10, <2>11
<1>2. CASE ~ \E i \in 1..Len(s) : s[i] = e
  BY <1>2 DEF RemoveFirst
<1> QED BY <1>1, <1>2

---------------------------------------------------------------------------
(***************************************************************************)
(* Type correctness, and the order of the turns.                           *)
(***************************************************************************)

\* The turns under way are in the order of the deliveries that started them, and
\* the slot is of one of these deliveries.
IdsInv ==
    /\ \A i, j \in 1..Len(tasks) : i < j => tasks[i].id < tasks[j].id
    /\ \A i \in 1..Len(tasks) : tasks[i].id <= posts
    /\ slot # None => slot.id <= posts

\* The initial states have their types.
LEMMA TypeInit == Init => TypeOK /\ IdsInv
<1> SUFFICES ASSUME Init PROVE TypeOK /\ IdsInv
  OBVIOUS
<1>1. NoTurn \in Turn /\ NotClearing \in Clearing
  BY DEF NoTurn, Turn, NotClearing, Clearing
<1>2. /\ turns \in [Events -> Nat] /\ since \in [Events -> (SUBSET Events) \cup {None}]
      /\ remembered \in Seq(Events) /\ tasks \in Seq(Task) /\ sessions \in Seq(SUBSET Nat)
  <2>1. turns \in [Events -> Nat]
    BY DEF Init
  <2>2. since \in [Events -> (SUBSET Events) \cup {None}]
    BY DEF Init
  <2>3. remembered = <<>> /\ tasks = <<>> /\ sessions = <<>>
    BY DEF Init
  <2>4. remembered \in Seq(Events)
    BY <2>3
  <2>5. tasks \in Seq(Task)
    BY <2>3
  <2>6. sessions \in Seq(SUBSET Nat)
    BY <2>3
  <2> QED BY <2>1, <2>2, <2>4, <2>5, <2>6
<1>3. /\ backend \in {"opencode", "sgr"} /\ up \in BOOLEAN /\ context \in Nat
      /\ slot = None /\ mapping = None /\ mapped = None
      /\ posts \in Nat /\ clears \in Nat /\ faults \in Nat
      /\ turn = NoTurn /\ clearing = NotClearing
  BY DEF Init
<1>4. IdsInv
  BY DEF Init, IdsInv
<1> QED BY <1>1, <1>2, <1>3, <1>4 DEF TypeOK

\* A turn under way is one of an event.
LEMMA TasksType ==
    ASSUME TypeOK
    PROVE  /\ tasks \in Seq(Task) /\ Len(tasks) \in Nat
           /\ \A i \in 1..Len(tasks) :
                 tasks[i] \in Task /\ tasks[i].id \in Nat /\ tasks[i].event \in Events
<1>1. tasks \in Seq(Task)
  BY DEF TypeOK
<1>2. Len(tasks) \in Nat /\ \A i \in 1..Len(tasks) : tasks[i] \in Task
  BY <1>1
<1>3. \A task \in Task : task.id \in Nat /\ task.event \in Events
  BY DEF Task
<1> QED BY <1>1, <1>2, <1>3

\* The turn with the lock is the first one.
LEMMA CurrentType ==
    ASSUME TypeOK, tasks # <<>>
    PROVE  /\ Len(tasks) \in Nat /\ Len(tasks) >= 1 /\ Current = tasks[1]
           /\ Current \in Task /\ Current.id \in Nat /\ Current.event \in Events
<1>1. tasks \in Seq(Task)
  BY DEF TypeOK
<1>2. Len(tasks) \in Nat /\ Len(tasks) >= 1 /\ Current = tasks[1]
  BY <1>1 DEF Current
<1> QED BY <1>2, TasksType

\* No turn is under way twice.
LEMMA DistinctTasks ==
    ASSUME TypeOK, IdsInv
    PROVE  /\ \A i, j \in 1..Len(tasks) : tasks[i] = tasks[j] => i = j
           /\ \A i, j \in 1..Len(tasks) : tasks[i].id = tasks[j].id => i = j
<1>1. Len(tasks) \in Nat /\ \A i \in 1..Len(tasks) : tasks[i].id \in Nat
  BY TasksType
<1>2. ASSUME NEW i \in 1..Len(tasks), NEW j \in 1..Len(tasks), tasks[i].id = tasks[j].id
      PROVE  i = j
  <2>1. CASE i < j
    <3>1. tasks[i].id < tasks[j].id
      BY <2>1 DEF IdsInv
    <3> QED BY <1>1, <1>2, <3>1
  <2>2. CASE j < i
    <3>1. tasks[j].id < tasks[i].id
      BY <2>2 DEF IdsInv
    <3> QED BY <1>1, <1>2, <3>1
  <2> QED BY <1>1, <2>1, <2>2
<1> QED BY <1>2

\* Taking a turn in adds it behind the others.
LEMMA EnqueueIs ==
    ASSUME TypeOK, IdsInv, NEW e \in Events, Enqueue(e)
    PROVE  /\ tasks' \in Seq(Task)
           /\ Len(tasks) \in Nat /\ Len(tasks') = Len(tasks) + 1
           /\ tasks'[Len(tasks) + 1] = [id |-> posts + 1, event |-> e]
           /\ \A i \in 1..Len(tasks) : tasks'[i] = tasks[i]
           /\ [id |-> posts + 1, event |-> e] \in Task
           /\ \A i, j \in 1..Len(tasks') : i < j => tasks'[i].id < tasks'[j].id
           /\ \A i \in 1..Len(tasks') : tasks'[i].id <= posts + 1
<1> DEFINE new == [id |-> posts + 1, event |-> e]
<1>1. posts \in Nat /\ tasks \in Seq(Task) /\ Len(tasks) \in Nat
  BY DEF TypeOK
<1>2. new \in Task /\ new.id = posts + 1
  BY <1>1 DEF Task
<1>3. tasks' = Append(tasks, new)
  BY DEF Enqueue
<1> HIDE DEF new
<1>4. /\ tasks' \in Seq(Task) /\ Len(tasks') = Len(tasks) + 1 /\ tasks'[Len(tasks) + 1] = new
      /\ \A i \in 1..Len(tasks) : tasks'[i] = tasks[i]
  BY <1>1, <1>2, <1>3
<1>5. \A i \in 1..Len(tasks) : tasks[i].id \in Nat /\ tasks[i].id <= posts
  BY TasksType DEF IdsInv
<1>6. \A i, j \in 1..Len(tasks') : i < j => tasks'[i].id < tasks'[j].id
  BY <1>1, <1>2, <1>4, <1>5 DEF IdsInv
<1>7. \A i \in 1..Len(tasks') : tasks'[i].id <= posts + 1
  BY <1>1, <1>2, <1>4, <1>5
<1> QED BY <1>1, <1>2, <1>4, <1>6, <1>7 DEF new

\* The end of a turn takes the first one away.
LEMMA EndTurnIs ==
    ASSUME TypeOK, IdsInv, tasks # <<>>, EndTurn
    PROVE  /\ tasks' \in Seq(Task) /\ turn' \in Turn
           /\ Current = tasks[1] /\ Current \in Task
           /\ Len(tasks) \in Nat /\ Len(tasks) >= 1 /\ Len(tasks') = Len(tasks) - 1
           /\ \A i \in 1..Len(tasks') : tasks'[i] = tasks[i + 1]
           /\ \A i, j \in 1..Len(tasks') : i < j => tasks'[i].id < tasks'[j].id
           /\ \A i \in 1..Len(tasks') : tasks'[i].id <= posts /\ tasks'[i].id > Current.id
<1>1. tasks \in Seq(Task) /\ tasks' = Tail(tasks) /\ Len(tasks) \in Nat /\ Len(tasks) >= 1
  BY DEF TypeOK, EndTurn
<1>2. /\ tasks' \in Seq(Task) /\ Len(tasks') = Len(tasks) - 1
      /\ \A i \in 1..Len(tasks') : tasks'[i] = tasks[i + 1]
  BY <1>1
<1>3. Current = tasks[1] /\ Current \in Task
  BY <1>1 DEF Current
<1>4. turn' \in Turn
  BY DEF EndTurn, NoTurn, Turn
<1>5. \A i \in 1..Len(tasks') : i + 1 \in 1..Len(tasks) /\ 1 < i + 1 /\ 1 \in 1..Len(tasks)
  BY <1>1, <1>2
<1>6. \A i \in 1..Len(tasks') : tasks'[i].id <= posts /\ tasks'[1 + 0 * i] = tasks'[1]
  BY <1>2, <1>5 DEF IdsInv
<1>7. \A i \in 1..Len(tasks') : tasks[1].id < tasks[i + 1].id
  BY <1>5 DEF IdsInv
<1>8. \A i \in 1..Len(tasks') : tasks[i + 1].id \in Nat /\ tasks[1].id \in Nat
  BY <1>5, TasksType
<1>9. \A i, j \in 1..Len(tasks') : i < j => tasks'[i].id < tasks'[j].id
  BY <1>1, <1>2, <1>5 DEF IdsInv
<1> QED BY <1>1, <1>2, <1>3, <1>4, <1>6, <1>7, <1>8, <1>9

\* Remembering an event keeps the types.
LEMMA RememberType ==
    ASSUME TypeOK, NEW e \in Events, Remember(e)
    PROVE  remembered' \in Seq(Events) /\ since' \in [Events -> (SUBSET Events) \cup {None}]
<1> DEFINE all == Append(remembered, e)
<1>0. remembered \in Seq(Events)
  BY DEF TypeOK
<1>1. all \in Seq(Events) /\ all # <<>>
  <2>1. all \in Seq(Events) /\ Len(all) = Len(remembered) + 1 /\ Len(remembered) \in Nat
    BY <1>0
  <2> QED BY <2>1
<1>2. remembered' = IF Len(all) > Limit THEN Tail(all) ELSE all
  BY DEF Remember
<1> HIDE DEF all
<1>3. remembered' \in Seq(Events)
  BY <1>1, <1>2
<1>4. since' \in [Events -> (SUBSET Events) \cup {None}]
  BY DEF Remember, TypeOK
<1> QED BY <1>3, <1>4

\* The steps of the opencode backend keep the types and the order of the turns.
LEMMA OpencodeType ==
    ASSUME TypeOK, IdsInv,
           \/ Dispatch \/ GetSession \/ CreateSession \/ Sent
           \/ (\E expected \in BOOLEAN : DispatchFails(expected))
           \/ (\E e \in Events : Accept(e)) \/ (\E t \in Threads : StopDispatch(t))
    PROVE  TypeOK' /\ IdsInv'
<1> USE DEF opencode
<1>0. /\ posts \in Nat /\ context \in Nat /\ faults \in Nat /\ turn \in Turn /\ tasks \in Seq(Task)
      /\ slot \in Task \cup {None} /\ sessions \in Seq(SUBSET Nat) /\ turns \in [Events -> Nat]
  BY DEF TypeOK
<1>a. slot # None => slot \in Task /\ slot.id \in Nat
  BY <1>0 DEF Task
<1>1. ASSUME NEW e \in Events, Accept(e)
      PROVE  TypeOK' /\ IdsInv'
  <2>1. posts' = posts + 1 /\ posts' \in Nat
    BY <1>0, <1>1 DEF Accept
  <2>2. CASE Seen(e)
    <3>1. UNCHANGED <<remembered, since, tasks, slot, turns>>
      BY <1>1, <2>2 DEF Accept
    <3>2. \A i \in 1..Len(tasks) : tasks[i].id <= posts'
      BY <1>0, <2>1, TasksType DEF IdsInv
    <3> QED BY <1>0, <1>a, <1>1, <2>1, <3>1, <3>2 DEF TypeOK, IdsInv, Accept
  <2>3. CASE ~Seen(e)
    <3>1. Remember(e) /\ Enqueue(e) /\ slot' = [id |-> posts + 1, event |-> e] /\ Begun(e)
      BY <1>1, <2>3 DEF Accept
    <3>2. turns' \in [Events -> Nat]
      BY <1>0, <3>1 DEF Begun
    <3>3. slot' \in Task /\ slot'.id = posts'
      BY <2>1, <3>1, EnqueueIs
    <3>4. IdsInv'
      BY <2>1, <3>1, <3>3, EnqueueIs DEF IdsInv
    <3> QED BY <1>1, <2>1, <3>1, <3>2, <3>3, <3>4, EnqueueIs, RememberType DEF TypeOK, Accept
  <2> QED BY <2>2, <2>3
<1>2. CASE Dispatch
  <2>1. turn' \in Turn
    BY <1>0, <1>2 DEF Dispatch, Turn
  <2> QED BY <1>2, <2>1 DEF TypeOK, IdsInv, Dispatch
<1>3. CASE GetSession
  <2>1. turn' \in Turn /\ sessions' \in Seq(SUBSET Nat)
    <3>1. CASE Matches(turn.context)
      <4>1. mapping.session \in Nat
        BY <3>1 DEF Matches, TypeOK, Mapping
      <4>2. Prompt(mapping.session)
        BY <1>3, <3>1 DEF GetSession
      <4>3. turn' \in Turn
        BY <1>0, <4>1, <4>2 DEF Prompt, Turn
      <4>4. turn.context \in Nat
        BY <1>0 DEF Turn
      <4>5. sessions' \in Seq(SUBSET Nat)
        <5> DEFINE i == mapping.session
                   with == sessions[i] \cup {turn.context}
        <5>1. sessions' = [sessions EXCEPT ![i] = with]
          BY <4>2 DEF Prompt
        <5>2. CASE i \in 1..Len(sessions)
          <6>1. with \in SUBSET Nat
            BY <1>0, <4>4, <5>2
          <6> QED BY <1>0, <5>1, <5>2, <6>1, ExceptSeq
        <5>3. CASE i \notin 1..Len(sessions)
          <6>1. sessions' = sessions
            BY <1>0, <5>1, <5>3
          <6> QED BY <1>0, <6>1
        <5> QED BY <5>2, <5>3
      <4> QED BY <4>3, <4>5
    <3>2. CASE ~Matches(turn.context)
      BY <1>0, <1>3, <3>2 DEF GetSession, Go, Turn
    <3> QED BY <3>1, <3>2
  <2> QED BY <1>3, <2>1 DEF TypeOK, IdsInv, GetSession
<1>4. CASE CreateSession
  <2> DEFINE session == Len(sessions) + 1
  <2>1. session \in Nat /\ turn.context \in Nat
    BY <1>0 DEF Turn
  <2>2. /\ mapping' = [context |-> turn.context, session |-> session] /\ mapped' = mapping'
        /\ sessions' = Append(sessions, {turn.context})
        /\ turn' = [turn EXCEPT !.step = "send", !.session = session]
    BY <1>4 DEF CreateSession
  <2> HIDE DEF session
  <2>3. mapping' \in Mapping /\ turn' \in Turn
    BY <1>0, <2>1, <2>2 DEF Mapping, Turn
  <2>4. sessions' \in Seq(SUBSET Nat)
    BY <1>0, <2>1, <2>2
  <2> QED BY <1>4, <2>2, <2>3, <2>4 DEF TypeOK, IdsInv, CreateSession
<1>5. CASE Sent
  <2>1. EndTurn /\ tasks # <<>> /\ slot' \in {slot, None}
    BY <1>5 DEF Sent, At, Free
  <2> QED BY <1>5, <2>1, EndTurnIs DEF TypeOK, IdsInv, Sent
<1>6. ASSUME NEW expected \in BOOLEAN, DispatchFails(expected)
      PROVE  TypeOK' /\ IdsInv'
  <2>1. EndTurn /\ tasks # <<>> /\ slot' \in {slot, None} /\ faults' \in Nat
    BY <1>0, <1>6 DEF DispatchFails, At, Free, Fault
  <2> QED BY <1>6, <2>1, EndTurnIs DEF TypeOK, IdsInv, DispatchFails
<1>7. ASSUME NEW t \in Threads, StopDispatch(t)
      PROVE  TypeOK' /\ IdsInv'
  <2>1. \A i, j \in 1..Len(tasks) : tasks[i] = tasks[j] => i = j
    BY DistinctTasks
  <2>2. tasks' = RemoveFirst(tasks, slot)
    BY <1>7 DEF StopDispatch
  <2>3. /\ tasks' \in Seq(Task)
        /\ \A i, j \in 1..Len(tasks') : i < j => tasks'[i].id < tasks'[j].id
        /\ \A i \in 1..Len(tasks') : tasks'[i].id <= posts
    <3>1. CASE tasks' = tasks
      BY <1>0, <3>1 DEF IdsInv
    <3>2. CASE tasks' # tasks
      <4>1. PICK p \in 1..Len(tasks) :
                /\ tasks' \in Seq(Task) /\ Len(tasks') = Len(tasks) - 1
                /\ \A i \in 1..(Len(tasks) - 1) :
                      tasks'[i] = IF i < p THEN tasks[i] ELSE tasks[i + 1]
        <5>1. \/ tasks' = tasks
              \/ \E p \in 1..Len(tasks) :
                    /\ tasks' \in Seq(Task) /\ Len(tasks') = Len(tasks) - 1
                    /\ \A i \in 1..(Len(tasks) - 1) :
                          tasks'[i] = IF i < p THEN tasks[i] ELSE tasks[i + 1]
          <6> DEFINE r == RemoveFirst(tasks, slot)
          <6>1. \/ r = tasks
                \/ \E p \in 1..Len(tasks) :
                      /\ r \in Seq(Task) /\ Len(r) = Len(tasks) - 1
                      /\ \A i \in 1..(Len(tasks) - 1) : r[i] = IF i < p THEN tasks[i] ELSE tasks[i + 1]
            <7>1. ASSUME NEW s \in Seq(Task), NEW e, \A i, j \in 1..Len(s) : s[i] = s[j] => i = j
                  PROVE  \/ RemoveFirst(s, e) = s
                         \/ \E p \in 1..Len(s) :
                               /\ RemoveFirst(s, e) \in Seq(Task)
                               /\ Len(RemoveFirst(s, e)) = Len(s) - 1
                               /\ \A i \in 1..(Len(s) - 1) :
                                     RemoveFirst(s, e)[i] = IF i < p THEN s[i] ELSE s[i + 1]
              BY <7>1, RemoveFirstIs
            <7> QED BY <1>0, <2>1, <7>1
          <6>2. tasks' = r
            BY <2>2
          <6> HIDE DEF r
          <6> QED BY <6>1, <6>2
        <5> QED BY <3>2, <5>1
      <4>2. Len(tasks) \in Nat
        BY <1>0
      <4>3. ASSUME NEW i \in 1..Len(tasks')
            PROVE  tasks'[i].id <= posts
        <5>1. i \in 1..Len(tasks) /\ i + 1 \in 1..Len(tasks)
          BY <4>1, <4>2
        <5> QED BY <4>1, <4>2, <5>1 DEF IdsInv
      <4>4. ASSUME NEW i \in 1..Len(tasks'), NEW j \in 1..Len(tasks'), i < j
            PROVE  tasks'[i].id < tasks'[j].id
        <5>1. PICK k \in 1..Len(tasks), l \in 1..Len(tasks) :
                  k < l /\ tasks'[i] = tasks[k] /\ tasks'[j] = tasks[l]
          <6>1. /\ i \in 1..Len(tasks) /\ i + 1 \in 1..Len(tasks)
                /\ j \in 1..Len(tasks) /\ j + 1 \in 1..Len(tasks)
            BY <4>1, <4>2
          <6>2. CASE i < p /\ j < p
            BY <4>1, <4>4, <6>1, <6>2
          <6>3. CASE i < p /\ ~(j < p)
            BY <4>1, <4>4, <6>1, <6>3
          <6>4. CASE ~(i < p)
            BY <4>1, <4>4, <6>1, <6>4
          <6> QED BY <6>2, <6>3, <6>4
        <5> QED BY <5>1 DEF IdsInv
      <4> QED BY <4>1, <4>3, <4>4
    <3> QED BY <3>1, <3>2
  <2>4. turn' \in Turn
    BY <1>0, <1>7 DEF StopDispatch, NoTurn, Turn
  <2> QED BY <1>7, <2>3, <2>4 DEF TypeOK, IdsInv, StopDispatch
<1> QED BY <1>1, <1>2, <1>3, <1>4, <1>5, <1>6, <1>7

\* The steps of a clear_context, those of the sgr backend, a crash and a restart
\* keep the types and the order of the turns too.
LEMMA OtherType ==
    ASSUME TypeOK, IdsInv,
           \/ ClearBegin \/ ClearLock \/ ClearDelete \/ ClearFails
           \/ (\E e \in Events : Queue(e)) \/ BeginTurn \/ FinishTurn \/ TurnFails \/ Clear
           \/ Crash \/ (\E listed \in BOOLEAN : Restart(listed))
    PROVE  TypeOK' /\ IdsInv'
<1> USE DEF opencode
<1>0. /\ posts \in Nat /\ context \in Nat /\ faults \in Nat /\ clears \in Nat
      /\ turn \in Turn /\ tasks \in Seq(Task) /\ slot \in Task \cup {None}
      /\ clearing \in Clearing /\ turns \in [Events -> Nat]
  BY DEF TypeOK
<1>a. slot # None => slot.id \in Nat
  BY <1>0 DEF Task
<1>b. NoTurn \in Turn /\ NotClearing \in Clearing
  BY DEF NoTurn, Turn, NotClearing, Clearing
<1>1. CASE ClearBegin
  <2>1. clearing' \in Clearing /\ clears' \in Nat
    BY <1>0, <1>1 DEF ClearBegin, Clearing
  <2> QED BY <1>1, <2>1 DEF TypeOK, IdsInv, ClearBegin
<1>2. ASSUME Cleared
      PROVE  mapping' = None /\ mapped' = None /\ clearing' \in Clearing /\ context' \in Nat
  BY <1>0, <1>2, <1>b DEF Cleared, Rotate
<1>3. CASE ClearLock
  <2>1. /\ clearing' \in Clearing /\ context' \in Nat
        /\ mapping' \in Mapping \cup {None} /\ mapped' \in Mapping \cup {None}
    <3>1. CASE Matches(clearing.context)
      BY <1>0, <1>3, <3>1 DEF ClearLock, Clearing, TypeOK
    <3>2. CASE ~Matches(clearing.context)
      BY <1>2, <1>3, <3>2 DEF ClearLock
    <3> QED BY <3>1, <3>2
  <2> QED BY <1>3, <2>1 DEF TypeOK, IdsInv, ClearLock
<1>4. CASE ClearDelete
  <2>1. Cleared
    BY <1>4 DEF ClearDelete
  <2> QED BY <1>2, <1>4, <2>1 DEF TypeOK, IdsInv, ClearDelete
<1>5. CASE ClearFails
  <2>1. faults' \in Nat /\ clearing' \in Clearing
    BY <1>0, <1>5, <1>b DEF ClearFails, Fault
  <2> QED BY <1>5, <2>1 DEF TypeOK, IdsInv, ClearFails
<1>6. ASSUME NEW e \in Events, Queue(e)
      PROVE  TypeOK' /\ IdsInv'
  <2>1. posts' = posts + 1 /\ posts' \in Nat /\ Enqueue(e)
    BY <1>0, <1>6 DEF Queue
  <2>2. slot' = slot
    BY <1>6 DEF Queue
  <2>3. IdsInv'
    <3>1. slot' # None => slot'.id <= posts'
      BY <1>0, <1>a, <2>1, <2>2 DEF IdsInv
    <3>2. /\ \A i, j \in 1..Len(tasks') : i < j => tasks'[i].id < tasks'[j].id
          /\ \A i \in 1..Len(tasks') : tasks'[i].id <= posts'
      BY <2>1, EnqueueIs
    <3> QED BY <3>1, <3>2 DEF IdsInv
  <2> QED BY <1>6, <2>1, <2>3, EnqueueIs DEF TypeOK, Queue
<1>7. CASE BeginTurn
  <2>1. tasks # <<>>
    BY <1>7 DEF BeginTurn, At
  <2>2. CASE Seen(Current.event)
    <3>1. EndTurn /\ turns' = turns
      BY <1>7, <2>2 DEF BeginTurn
    <3> QED BY <1>7, <2>1, <3>1, EndTurnIs DEF TypeOK, IdsInv, BeginTurn
  <2>3. CASE ~Seen(Current.event)
    <3>1. Go("reason") /\ Begun(Current.event) /\ tasks' = tasks
      BY <1>7, <2>3 DEF BeginTurn
    <3>2. turn' \in Turn
      BY <1>0, <3>1 DEF Go, Turn
    <3>3. turns' \in [Events -> Nat]
      <4>1. Current.event \in Events
        BY <2>1, CurrentType
      <4> QED BY <1>0, <3>1, <4>1 DEF Begun
    <3> QED BY <1>7, <3>1, <3>2, <3>3 DEF TypeOK, IdsInv, BeginTurn
  <2> QED BY <2>2, <2>3
<1>8. CASE FinishTurn
  <2>1. tasks # <<>> /\ EndTurn /\ Remember(Current.event)
    BY <1>8 DEF FinishTurn, At
  <2>2. Current.event \in Events
    BY <2>1, EndTurnIs DEF Task
  <2> QED BY <1>8, <2>1, <2>2, EndTurnIs, RememberType DEF TypeOK, IdsInv, FinishTurn
<1>9. CASE TurnFails
  <2>1. tasks # <<>> /\ EndTurn /\ faults' \in Nat
    BY <1>0, <1>9 DEF TurnFails, At, Fault
  <2> QED BY <1>9, <2>1, EndTurnIs DEF TypeOK, IdsInv, TurnFails
<1>10. ASSUME Forget
       PROVE  remembered' \in Seq(Events) /\ since' \in [Events -> (SUBSET Events) \cup {None}]
  <2>1. remembered' \in Seq(Events)
    BY <1>10 DEF Forget
  <2>2. since' \in [Events -> (SUBSET Events) \cup {None}]
    BY <1>10 DEF Forget
  <2> QED BY <2>1, <2>2
<1>11. CASE Clear
  <2>1. clears' \in Nat /\ context' \in Nat /\ Forget
    BY <1>0, <1>11 DEF Clear, Rotate
  <2> QED BY <1>10, <1>11, <2>1 DEF TypeOK, IdsInv, Clear
<1>12. CASE Crash
  <2>1. Forget /\ faults' \in Nat /\ turn' \in Turn /\ clearing' \in Clearing
    BY <1>0, <1>12, <1>b DEF Crash, Fault
  <2>2. tasks' = <<>> /\ slot' = None /\ mapping' = None /\ up' = FALSE
    BY <1>12 DEF Crash
  <2>3. tasks' \in Seq(Task) /\ Len(tasks') = 0
    BY <2>2
  <2>4. IdsInv'
    BY <2>2, <2>3 DEF IdsInv
  <2>5. TypeOK'
    BY <1>10, <1>12, <2>1, <2>2, <2>3 DEF TypeOK, Crash
  <2> QED BY <2>4, <2>5
<1>13. ASSUME NEW listed \in BOOLEAN, Restart(listed)
       PROVE  TypeOK' /\ IdsInv'
  <2>1. mapping' \in Mapping \cup {None} /\ mapped' = mapping' /\ context' \in Nat
    BY <1>0, <1>13 DEF Restart, Rotate, TypeOK
  <2> QED BY <1>13, <2>1 DEF TypeOK, IdsInv, Restart
<1> QED BY <1>1, <1>3, <1>4, <1>5, <1>6, <1>7, <1>8, <1>9, <1>11, <1>12, <1>13

\* Every step keeps the types and the order of the turns.
LEMMA TypeStep == TypeOK /\ IdsInv /\ [Next]_vars => TypeOK' /\ IdsInv'
<1> SUFFICES ASSUME TypeOK, IdsInv, [Next]_vars PROVE TypeOK' /\ IdsInv'
  OBVIOUS
<1>1. CASE Next
  BY <1>1, OpencodeType, OtherType DEF Next, TurnStep, ClearStep
<1>2. CASE UNCHANGED vars
  BY <1>2 DEF vars, opencode, TypeOK, IdsInv
<1> QED BY <1>1, <1>2

\* Every variable has its type, and the turns are in the order of the deliveries
\* that started them: the lock is taken in that order.
THEOREM RuntimeTypeCorrect == Spec => [](TypeOK /\ IdsInv)
  BY TypeInit, TypeStep, PTL DEF Spec

---------------------------------------------------------------------------
(***************************************************************************)
(* The slot.                                                               *)
(***************************************************************************)

\* A step that takes a dispatch out of the slot ends it or puts a later one in.
LEMMA SlotStep ==
    ASSUME TypeOK, IdsInv, Next, slot # None, slot' # slot
    PROVE  \/ slot' # None /\ slot'.id > slot.id
           \/ \A i \in 1..Len(tasks') : tasks'[i] # slot
<1> USE DEF opencode
<1>0. slot \in Task /\ slot.id \in Nat /\ posts \in Nat /\ slot.id <= posts
  BY DEF TypeOK, Task, IdsInv
<1>1. ASSUME tasks # <<>>, EndTurn, Free(Current)
      PROVE  \A i \in 1..Len(tasks') : tasks'[i] # slot
  <2>1. slot.id = Current.id
    BY <1>1 DEF Free
  <2>2. Current.id \in Nat
    BY <1>1, CurrentType
  <2> QED BY <1>1, <2>1, <2>2, EndTurnIs
<1>2. CASE Sent
  BY <1>1, <1>2 DEF Sent, At
<1>3. ASSUME NEW expected \in BOOLEAN, DispatchFails(expected)
      PROVE  \A i \in 1..Len(tasks') : tasks'[i] # slot
  BY <1>1, <1>3 DEF DispatchFails, At
<1>4. ASSUME NEW e \in Events, Accept(e)
      PROVE  slot' # None /\ slot'.id > slot.id
  <2>1. slot' = [id |-> posts + 1, event |-> e]
    BY <1>4 DEF Accept
  <2>2. slot' \in Task
    BY <1>0, <2>1 DEF Task
  <2> QED BY <1>0, <2>1, <2>2, NoneAssumption
<1>5. ASSUME NEW t \in Threads, StopDispatch(t)
      PROVE  \A i \in 1..Len(tasks') : tasks'[i] # slot
  <2>1. tasks' = RemoveFirst(tasks, slot)
    BY <1>5 DEF StopDispatch
  <2>2. tasks \in Seq(Task) /\ Len(tasks) \in Nat
    BY TasksType
  <2>3. \A i, j \in 1..Len(tasks) : tasks[i] = tasks[j] => i = j
    BY DistinctTasks
  <2>4. ASSUME NEW s \in Seq(Task), NEW x, \A i, j \in 1..Len(s) : s[i] = s[j] => i = j
        PROVE  \A i \in 1..Len(RemoveFirst(s, x)) : RemoveFirst(s, x)[i] # x
    <3> DEFINE r == RemoveFirst(s, x)
    <3>1. \/ r = s /\ \A i \in 1..Len(s) : s[i] # x
          \/ \E p \in 1..Len(s) :
                /\ s[p] = x
                /\ r \in Seq(Task) /\ Len(r) = Len(s) - 1
                /\ \A i \in 1..(Len(s) - 1) : r[i] = IF i < p THEN s[i] ELSE s[i + 1]
      BY <2>4, RemoveFirstIs
    <3> HIDE DEF r
    <3>2. ASSUME r = s, \A i \in 1..Len(s) : s[i] # x
          PROVE  \A i \in 1..Len(r) : r[i] # x
      BY <3>2
    <3>3. ASSUME NEW p \in 1..Len(s), s[p] = x, Len(r) = Len(s) - 1,
                 \A i \in 1..(Len(s) - 1) : r[i] = IF i < p THEN s[i] ELSE s[i + 1]
          PROVE  \A i \in 1..Len(r) : r[i] # x
      <4> SUFFICES ASSUME NEW i \in 1..Len(r) PROVE r[i] # x
        OBVIOUS
      <4>1. Len(s) \in Nat /\ i \in 1..Len(s) /\ i + 1 \in 1..Len(s) /\ r[i] = IF i < p THEN s[i] ELSE s[i + 1]
        BY <3>3
      <4>2. CASE i < p
        BY <2>4, <3>3, <4>1, <4>2
      <4>3. CASE ~(i < p)
        <5>1. i + 1 # p
          BY <4>1, <4>3
        <5> QED BY <2>4, <3>3, <4>1, <4>3, <5>1
      <4> QED BY <4>2, <4>3
    <3>4. \A i \in 1..Len(r) : r[i] # x
      BY <3>1, <3>2, <3>3
    <3> QED BY <3>4 DEF r
  <2>5. \A i \in 1..Len(RemoveFirst(tasks, slot)) : RemoveFirst(tasks, slot)[i] # slot
    BY <2>2, <2>3, <2>4
  <2> QED BY <2>1, <2>5
<1>6. CASE Crash
  BY <1>6 DEF Crash
<1>7. CASE \/ Dispatch \/ GetSession \/ CreateSession \/ BeginTurn \/ FinishTurn
           \/ ClearBegin \/ ClearLock \/ ClearDelete \/ ClearFails \/ TurnFails \/ Clear
           \/ (\E e \in Events : Queue(e)) \/ (\E listed \in BOOLEAN : Restart(listed))
  BY <1>7 DEF Dispatch, GetSession, CreateSession, BeginTurn, FinishTurn, ClearBegin, ClearLock,
              ClearDelete, ClearFails, TurnFails, Clear, Queue, Restart
<1> QED BY <1>2, <1>3, <1>4, <1>5, <1>6, <1>7 DEF Next, TurnStep, ClearStep

\* What /stop looks a dispatch up by is never lost while the dispatch runs: only a
\* later dispatch takes its place, and the end of an earlier one leaves it alone.
THEOREM SlotNamesTheDispatch == Spec => SlotIsKept
<1> DEFINE A == slot # None /\ slot' # slot =>
                   \/ slot' # None /\ slot'.id > slot.id
                   \/ \A i \in 1..Len(tasks') : tasks'[i] # slot
<1>1. TypeOK /\ IdsInv /\ [Next]_vars => [A]_vars
  BY SlotStep
<1>2. Spec => [][A]_vars
  BY <1>1, RuntimeTypeCorrect, PTL DEF Spec
<1> QED BY <1>2 DEF SlotIsKept

---------------------------------------------------------------------------
(***************************************************************************)
(* Sessions and contexts.                                                  *)
(***************************************************************************)

\* The session of a mapping got the prompts of the mapping's context.
Names(m) == m.session \in 1..Len(sessions) /\ sessions[m.session] = {m.context}

\* A session is made for one context, and the mapping in memory and the one in the
\* file know for which.
SessionsInv ==
    /\ \A i \in 1..Len(sessions) : \E c \in Nat : sessions[i] = {c}
    /\ mapping # None => Names(mapping)
    /\ mapped # None => Names(mapped)

\* There is no session at first.
LEMMA SessionsInit == Init => SessionsInv
  BY DEF Init, SessionsInv

\* A prompt goes to the session of its own context.
LEMMA PromptIs ==
    ASSUME TypeOK, SessionsInv, Matches(turn.context), Prompt(mapping.session)
    PROVE  sessions' = sessions
<1> DEFINE i == mapping.session
<1>1. sessions \in Seq(SUBSET Nat)
  BY DEF TypeOK
<1>2. i \in 1..Len(sessions) /\ sessions[i] = {turn.context}
  BY DEF Matches, SessionsInv, Names
<1>3. sessions' = [sessions EXCEPT ![i] = sessions[i] \cup {turn.context}]
  BY DEF Prompt
<1> HIDE DEF i
<1>4. sessions[i] \cup {turn.context} = sessions[i]
  BY <1>2
<1>5. sessions' = [sessions EXCEPT ![i] = sessions[i]]
  BY <1>3, <1>4
<1>6. ASSUME NEW s \in Seq(SUBSET Nat), NEW k
      PROVE  [s EXCEPT ![k] = s[k]] = s
  OBVIOUS
<1> QED BY <1>1, <1>5, <1>6

\* Every step keeps the contexts of the sessions apart.
LEMMA SessionsStep == TypeOK /\ SessionsInv /\ [Next]_vars => SessionsInv'
<1> SUFFICES ASSUME TypeOK, SessionsInv, [Next]_vars PROVE SessionsInv'
  OBVIOUS
<1> USE DEF opencode
<1>0. sessions \in Seq(SUBSET Nat) /\ Len(sessions) \in Nat /\ turn.context \in Nat
  BY DEF TypeOK, Turn
<1>1. ASSUME sessions' = sessions, mapping' \in {mapping, mapped, None},
             mapped' \in {mapping, mapped, None}
      PROVE  SessionsInv'
  BY <1>1 DEF SessionsInv, Names
<1>2. CASE GetSession
  <2>1. sessions' = sessions
    BY <1>2, PromptIs DEF GetSession
  <2> QED BY <1>1, <1>2, <2>1 DEF GetSession
<1>3. CASE CreateSession
  <2> DEFINE session == Len(sessions) + 1
             c == turn.context
             m == [context |-> c, session |-> session]
  <2>1. mapping' = m /\ mapped' = m /\ sessions' = Append(sessions, {c})
    BY <1>3 DEF CreateSession
  <2>2. c \in Nat /\ m.session = session /\ m.context = c /\ session \in Nat
    BY <1>0
  <2>3. {c} \in SUBSET Nat
    BY <2>2
  <2> HIDE DEF m, c
  <2>4. /\ Len(sessions') = session /\ sessions'[session] = {c}
        /\ \A i \in 1..Len(sessions) : sessions'[i] = sessions[i]
    BY <1>0, <2>1, <2>3
  <2>5. \A i \in 1..Len(sessions') : \E d \in Nat : sessions'[i] = {d}
    <3> SUFFICES ASSUME NEW i \in 1..Len(sessions') PROVE \E d \in Nat : sessions'[i] = {d}
      OBVIOUS
    <3>1. CASE i \in 1..Len(sessions)
      BY <2>4, <3>1 DEF SessionsInv
    <3>2. CASE i = session
      BY <2>2, <2>4, <3>2
    <3> QED BY <1>0, <2>4, <3>1, <3>2
  <2>6. /\ mapping'.session \in 1..Len(sessions')
        /\ sessions'[mapping'.session] = {mapping'.context} /\ mapped' = mapping'
    <3>1. mapping'.session = session /\ mapping'.context = c
      BY <2>1, <2>2
    <3>2. session \in 1..Len(sessions') /\ sessions'[session] = {c}
      BY <1>0, <2>2, <2>4
    <3> QED BY <3>1, <3>2, <2>1
  <2> QED BY <2>5, <2>6 DEF SessionsInv, Names
<1>4. CASE Cleared /\ sessions' = sessions
  BY <1>1, <1>4 DEF Cleared
<1>5. CASE ClearLock
  BY <1>1, <1>4, <1>5 DEF ClearLock
<1>6. CASE ClearDelete
  BY <1>4, <1>6 DEF ClearDelete
<1>7. CASE Crash
  BY <1>1, <1>7 DEF Crash
<1>8. ASSUME NEW listed \in BOOLEAN, Restart(listed)
      PROVE  SessionsInv'
  BY <1>1, <1>8 DEF Restart
<1>9. CASE \/ Dispatch \/ Sent \/ BeginTurn \/ FinishTurn \/ ClearBegin \/ ClearFails \/ TurnFails
           \/ Clear \/ (\E expected \in BOOLEAN : DispatchFails(expected))
           \/ (\E e \in Events : Accept(e) \/ Queue(e)) \/ (\E t \in Threads : StopDispatch(t))
  <2>1. UNCHANGED <<sessions, mapping, mapped>>
    BY <1>9 DEF Dispatch, Sent, BeginTurn, FinishTurn, ClearBegin, ClearFails, TurnFails, Clear,
                DispatchFails, Accept, Queue, StopDispatch
  <2> QED BY <1>1, <2>1
<1>10. CASE UNCHANGED vars
  BY <1>1, <1>10 DEF vars
<1> QED BY <1>2, <1>3, <1>5, <1>6, <1>7, <1>8, <1>9, <1>10 DEF Next, TurnStep, ClearStep

\* No opencode session gets prompts of two contexts: what was said before a
\* clear_context or a restart never comes back.
THEOREM SessionsAreOfOneContext == Spec => []OneContextPerSession
<1>1. SessionsInv => OneContextPerSession
  <2> SUFFICES ASSUME SessionsInv, NEW i \in 1..Len(sessions)
               PROVE  Cardinality(sessions[i]) <= 1
    BY DEF OneContextPerSession
  <2>1. PICK c \in Nat : sessions[i] = {c}
    BY DEF SessionsInv
  <2>2. Cardinality({c}) = 1
    BY FS_Singleton
  <2> QED BY <2>1, <2>2
<1>2. Spec => []SessionsInv
  BY RuntimeTypeCorrect, SessionsInit, SessionsStep, PTL DEF Spec
<1> QED BY <1>1, <1>2, PTL

---------------------------------------------------------------------------
(***************************************************************************)
(* The events a backend remembers.                                         *)
(***************************************************************************)

\* A set that n different values are in has at least n elements.
LEMMA AtLeast ==
    ASSUME NEW T, IsFiniteSet(T), NEW n \in Nat, NEW f \in [1..n -> T],
           \A i, j \in 1..n : f[i] = f[j] => i = j
    PROVE  Cardinality(T) >= n
<1>1. f \in Injection(1..n, T)
  BY DEF Injection, IsInjective
<1>2. Cardinality(1..n) = n
  BY FS_Interval
<1>3. Cardinality(1..n) <= Cardinality(T)
  BY <1>1, FS_Injection
<1>4. Cardinality(T) \in Nat
  BY FS_CardinalityType
<1> QED BY <1>2, <1>3, <1>4

\* A set of events is finite, and has no more elements than one it is part of.
LEMMA EventSets ==
    ASSUME NEW S \in SUBSET Events, NEW T \in SUBSET S
    PROVE  /\ IsFiniteSet(S) /\ Cardinality(S) \in Nat /\ Cardinality(T) \in Nat
           /\ Cardinality(T) <= Cardinality(S)
<1>1. IsFiniteSet(S)
  BY RuntimeAssumption, FS_Subset
<1>2. IsFiniteSet(T) /\ Cardinality(T) <= Cardinality(S)
  BY <1>1, FS_Subset
<1> QED BY <1>1, <1>2, FS_CardinalityType

\* The events remembered are at most Limit and different, each knows those
\* remembered after it, and those not remembered any more have had Limit others
\* after them.
MemoryInv ==
    /\ Len(remembered) <= Limit
    /\ \A i, j \in 1..Len(remembered) : remembered[i] = remembered[j] => i = j
    /\ \A i \in 1..Len(remembered) : since[remembered[i]] # None
    /\ \A i, j \in 1..Len(remembered) : i < j => remembered[j] \in since[remembered[i]]
    /\ \A e \in Events : ~Seen(e) /\ since[e] # None => Cardinality(since[e]) >= Limit

\* The sgr backend runs no turn for an event it remembers: it holds the lock.
TurnInv ==
    backend = "sgr" /\ turn.step = "reason" =>
        tasks # <<>> /\ \A i \in 1..Len(remembered) : remembered[i] # Current.event

\* Nothing is remembered at first.
LEMMA MemoryInit == Init => MemoryInv /\ TurnInv
<1> SUFFICES ASSUME Init PROVE MemoryInv /\ TurnInv
  OBVIOUS
<1>1. remembered = <<>> /\ turn.step = "begin" /\ Len(remembered) = 0
  BY DEF Init, NoTurn
<1>2. \A e \in Events : since[e] = None
  BY DEF Init
<1>3. Limit \in Nat
  BY RuntimeAssumption
<1> QED BY <1>1, <1>2, <1>3 DEF MemoryInv, TurnInv

\* Nothing is remembered after a clear or a crash.
LEMMA ForgetKeeps == Forget => MemoryInv'
<1> SUFFICES ASSUME Forget PROVE MemoryInv'
  OBVIOUS
<1>1. remembered' = <<>> /\ Len(remembered') = 0
  BY DEF Forget
<1>2. \A e \in Events : since'[e] = None
  BY DEF Forget
<1>3. Limit \in Nat
  BY RuntimeAssumption
<1> QED BY <1>1, <1>2, <1>3 DEF MemoryInv

\* A new event is remembered last; when there are too many, the one dropped has had
\* Limit others after it.
LEMMA RememberKeeps ==
    ASSUME TypeOK, MemoryInv, NEW e \in Events, ~Seen(e), Remember(e)
    PROVE  MemoryInv'
<1> DEFINE n == Len(remembered)
           all == Append(remembered, e)
<1>0. /\ remembered \in Seq(Events) /\ n \in Nat /\ Limit \in Nat /\ Limit >= 1 /\ n <= Limit
      /\ \A i \in 1..n : remembered[i] \in Events
  <2>1. remembered \in Seq(Events)
    BY DEF TypeOK
  <2>2. Limit \in Nat /\ Limit >= 1
    BY RuntimeAssumption
  <2> QED BY <2>1, <2>2 DEF MemoryInv
<1>1. /\ all \in Seq(Events) /\ Len(all) = n + 1 /\ all[n + 1] = e
      /\ \A i \in 1..n : all[i] = remembered[i]
  BY <1>0
<1>2. \A i \in 1..n : remembered[i] # e
  BY DEF Seen
<1>3. remembered' = IF Len(all) > Limit THEN Tail(all) ELSE all
  BY DEF Remember
<1> HIDE DEF all
<1>4. \A o \in Events : since[o] \in SUBSET Events \/ since[o] = None
  BY DEF TypeOK
<1>5. /\ since'[e] = {}
      /\ \A o \in Events : o # e /\ since[o] = None => since'[o] = None
      /\ \A o \in Events : o # e /\ since[o] # None => since'[o] = since[o] \cup {e}
  BY DEF Remember
<1>6. \A o \in Events : since'[o] = None \/ since'[o] \in SUBSET Events
  BY <1>4, <1>5
<1>7. \A set \in SUBSET Events : set # None
  BY NoneAssumption
<1>8. \A i, j \in 1..(n + 1) : all[i] = all[j] => i = j
  BY <1>0, <1>1, <1>2 DEF MemoryInv
<1>9. \A i \in 1..(n + 1) : all[i] \in Events /\ since'[all[i]] \in SUBSET Events
  <2> SUFFICES ASSUME NEW i \in 1..(n + 1)
               PROVE  all[i] \in Events /\ since'[all[i]] \in SUBSET Events
    OBVIOUS
  <2>1. CASE i = n + 1
    BY <1>1, <1>5, <2>1
  <2>2. CASE i \in 1..n
    <3>1. all[i] = remembered[i] /\ all[i] \in Events /\ all[i] # e
      BY <1>0, <1>1, <1>2, <2>2
    <3>2. since[all[i]] # None
      BY <2>2, <3>1 DEF MemoryInv
    <3>3. since'[all[i]] = since[all[i]] \cup {e}
      BY <1>5, <3>1, <3>2
    <3> QED BY <1>4, <3>1, <3>2, <3>3
  <2> QED BY <1>0, <2>1, <2>2
<1>10. \A i, j \in 1..(n + 1) : i < j => all[j] \in since'[all[i]]
  <2> SUFFICES ASSUME NEW i \in 1..(n + 1), NEW j \in 1..(n + 1), i < j
               PROVE  all[j] \in since'[all[i]]
    OBVIOUS
  <2>1. i \in 1..n
    BY <1>0
  <2>2. all[i] = remembered[i] /\ all[i] \in Events /\ all[i] # e
    BY <1>0, <1>1, <1>2, <2>1
  <2>3. since[all[i]] # None
    BY <2>1, <2>2 DEF MemoryInv
  <2>4. since'[all[i]] = since[all[i]] \cup {e}
    BY <1>5, <2>2, <2>3
  <2>5. CASE j = n + 1
    BY <1>1, <2>4, <2>5
  <2>6. CASE j \in 1..n
    <3>1. remembered[j] \in since[remembered[i]]
      BY <2>1, <2>6 DEF MemoryInv
    <3> QED BY <1>1, <2>2, <2>4, <2>6, <3>1
  <2> QED BY <1>0, <2>5, <2>6
<1>11. ASSUME NEW o \in Events, ~Seen(o), o # e, since'[o] # None
       PROVE  Cardinality(since'[o]) >= Limit
  <2>1. since[o] # None /\ since'[o] = since[o] \cup {e}
    BY <1>5, <1>11
  <2>2. Cardinality(since[o]) >= Limit
    BY <1>11, <2>1 DEF MemoryInv
  <2>3. since[o] \in SUBSET (since[o] \cup {e}) /\ since[o] \cup {e} \in SUBSET Events
    BY <1>4, <2>1
  <2>4. Cardinality(since[o]) \in Nat /\ Cardinality(since[o] \cup {e}) \in Nat
        /\ Cardinality(since[o]) <= Cardinality(since[o] \cup {e})
    BY <2>3, EventSets
  <2> QED BY <1>0, <2>1, <2>2, <2>4
<1>12. CASE n + 1 <= Limit
  <2>1. remembered' = all /\ Len(remembered') = n + 1
    BY <1>0, <1>1, <1>3, <1>12
  <2>2. \A o \in Events : ~Seen(o)' /\ since'[o] # None => Cardinality(since'[o]) >= Limit
    <3> SUFFICES ASSUME NEW o \in Events, ~Seen(o)', since'[o] # None
                 PROVE  Cardinality(since'[o]) >= Limit
      OBVIOUS
    <3>1. \A i \in 1..(n + 1) : all[i] # o
      BY <2>1 DEF Seen
    <3>2. ~Seen(o) /\ o # e
      BY <1>0, <1>1, <3>1 DEF Seen
    <3> QED BY <1>11, <3>2
  <2>3. \A i \in 1..(n + 1) : since'[all[i]] # None
    BY <1>7, <1>9
  <2> QED BY <1>8, <1>10, <1>12, <2>1, <2>2, <2>3 DEF MemoryInv
<1>13. CASE n + 1 > Limit
  <2>1. n = Limit /\ remembered' = Tail(all)
    BY <1>0, <1>1, <1>3, <1>13
  <2>2. /\ Len(remembered') = n
        /\ \A i \in 1..n : remembered'[i] = all[i + 1] /\ i + 1 \in 1..(n + 1)
    BY <1>0, <1>1, <2>1
  <2>3. \A i, j \in 1..n : remembered'[i] = remembered'[j] => i = j
    BY <1>0, <1>8, <2>2, SMTT(30)
  <2>4. \A i \in 1..n : since'[remembered'[i]] # None
    BY <1>7, <1>9, <2>2
  <2>5. \A i, j \in 1..n : i < j => remembered'[j] \in since'[remembered'[i]]
    BY <1>0, <1>10, <2>2
  <2>6. ASSUME NEW o \in Events, ~Seen(o)', since'[o] # None
        PROVE  Cardinality(since'[o]) >= Limit
    <3>1. \A i \in 1..n : all[i + 1] # o
      BY <2>2, <2>6 DEF Seen
    <3>2. CASE o = all[1]
      <4> DEFINE T == since'[o]
                 f == [i \in 1..n |-> all[i + 1]]
      <4>1. T \in SUBSET Events
        BY <1>6, <2>6
      <4>2. \A i \in 1..n : all[i + 1] \in T
        <5> SUFFICES ASSUME NEW i \in 1..n PROVE all[i + 1] \in T
          OBVIOUS
        <5>1. 1 \in 1..(n + 1) /\ i + 1 \in 1..(n + 1) /\ 1 < i + 1
          BY <1>0
        <5> QED BY <1>10, <3>2, <5>1
      <4>3. \A i, j \in 1..n : all[i + 1] = all[j + 1] => i = j
        BY <1>0, <1>8, <2>2
      <4>4. f \in [1..n -> T]
        BY <4>2
      <4>5. \A i, j \in 1..n : f[i] = f[j] => i = j
        BY <4>3
      <4>6. IsFiniteSet(T)
        BY <4>1, EventSets
      <4> HIDE DEF T, f
      <4>7. Cardinality(T) >= n
        BY <1>0, <4>4, <4>5, <4>6, AtLeast
      <4> QED BY <2>1, <4>7 DEF T
    <3>3. CASE o # all[1]
      <4>1. \A i \in 1..(n + 1) : all[i] # o
        <5> SUFFICES ASSUME NEW i \in 1..(n + 1) PROVE all[i] # o
          OBVIOUS
        <5>1. CASE i = 1
          BY <3>3, <5>1
        <5>2. CASE i # 1
          <6>1. i - 1 \in 1..n /\ (i - 1) + 1 = i
            BY <1>0, <5>2
          <6> QED BY <3>1, <6>1
        <5> QED BY <5>1, <5>2
      <4>2. ~Seen(o) /\ o # e
        BY <1>0, <1>1, <4>1 DEF Seen
      <4> QED BY <1>11, <2>6, <4>2
    <3> QED BY <3>2, <3>3
  <2> QED BY <1>0, <2>2, <2>3, <2>4, <2>5, <2>6 DEF MemoryInv
<1> QED BY <1>0, <1>12, <1>13

\* Every step keeps what is remembered in order; an event whose turn ends is
\* remembered once, since no other turn and no delivery remembered it meanwhile.
LEMMA MemoryStep ==
    TypeOK /\ IdsInv /\ MemoryInv /\ TurnInv /\ [Next]_vars => MemoryInv' /\ TurnInv'
<1> SUFFICES ASSUME TypeOK, IdsInv, MemoryInv, TurnInv, [Next]_vars
             PROVE  MemoryInv' /\ TurnInv'
  OBVIOUS
<1>1. ASSUME remembered' = remembered, since' = since
      PROVE  MemoryInv'
  BY <1>1 DEF MemoryInv, Seen
<1>2. ASSUME NoTurn = turn'
      PROVE  TurnInv'
  BY <1>2 DEF TurnInv, NoTurn
<1>3. CASE \/ Dispatch \/ GetSession \/ CreateSession \/ Sent
           \/ (\E expected \in BOOLEAN : DispatchFails(expected))
           \/ (\E t \in Threads : StopDispatch(t))
           \/ ClearBegin \/ ClearLock \/ ClearDelete \/ ClearFails
  <2>1. remembered' = remembered /\ since' = since /\ backend' # "sgr"
    BY <1>3 DEF Dispatch, GetSession, CreateSession, Sent, DispatchFails, StopDispatch,
                ClearBegin, ClearLock, ClearDelete, ClearFails, Using
  <2> QED BY <1>1, <2>1 DEF TurnInv
<1>4. ASSUME NEW e \in Events, Accept(e)
      PROVE  MemoryInv' /\ TurnInv'
  <2>1. TurnInv'
    BY <1>4 DEF Accept, Using, TurnInv
  <2>2. CASE Seen(e)
    BY <1>1, <1>4, <2>1, <2>2 DEF Accept
  <2>3. CASE ~Seen(e)
    BY <1>4, <2>1, <2>3, RememberKeeps DEF Accept
  <2> QED BY <2>2, <2>3
<1>5. ASSUME NEW e \in Events, Queue(e)
      PROVE  MemoryInv' /\ TurnInv'
  <2>1. remembered' = remembered /\ since' = since /\ turn' = turn /\ backend' = backend
    BY <1>5 DEF Queue
  <2>2. Enqueue(e)
    BY <1>5 DEF Queue
  <2>3. ASSUME tasks # <<>>
        PROVE  tasks' # <<>> /\ Head(tasks') = Head(tasks)
    <3>1. Len(tasks) \in Nat /\ Len(tasks) >= 1 /\ Head(tasks) = tasks[1]
      BY <2>3, CurrentType DEF Current
    <3>2. /\ tasks' \in Seq(Task) /\ Len(tasks') = Len(tasks) + 1
          /\ \A i \in 1..Len(tasks) : tasks'[i] = tasks[i]
      BY <2>2, EnqueueIs
    <3>3. Head(tasks') = tasks'[1] /\ tasks' # <<>>
      BY <3>1, <3>2
    <3> QED BY <3>1, <3>2, <3>3
  <2> QED BY <1>1, <2>1, <2>3 DEF TurnInv, Current
<1>6. CASE BeginTurn
  <2>1. remembered' = remembered /\ since' = since
    BY <1>6 DEF BeginTurn
  <2>2. CASE Seen(Current.event)
    BY <1>1, <1>2, <1>6, <2>1, <2>2 DEF BeginTurn, EndTurn
  <2>3. CASE ~Seen(Current.event)
    <3>1. tasks # <<>> /\ tasks' = tasks
      BY <1>6, <2>3 DEF BeginTurn, At
    <3>2. \A i \in 1..Len(remembered) : remembered[i] # Current.event
      BY <2>3 DEF Seen
    <3> QED BY <1>1, <2>1, <3>1, <3>2 DEF TurnInv, Current
  <2> QED BY <2>2, <2>3
<1>7. CASE FinishTurn
  <2>1. tasks # <<>> /\ turn.step = "reason" /\ backend = "sgr" /\ EndTurn /\ Remember(Current.event)
    BY <1>7 DEF FinishTurn, At, Using
  <2>2. Current.event \in Events /\ ~Seen(Current.event)
    BY <2>1, CurrentType DEF TurnInv, Seen
  <2>3. MemoryInv'
    BY <2>1, <2>2, RememberKeeps
  <2> QED BY <1>2, <2>1, <2>3 DEF EndTurn
<1>8. CASE TurnFails
  BY <1>1, <1>2, <1>8 DEF TurnFails, EndTurn
<1>9. CASE Clear
  <2>1. TurnInv'
    BY <1>9 DEF Clear, Forget, TurnInv, Current
  <2> QED BY <1>9, <2>1, ForgetKeeps DEF Clear
<1>10. CASE Crash
  BY <1>2, <1>10, ForgetKeeps DEF Crash
<1>11. ASSUME NEW listed \in BOOLEAN, Restart(listed)
       PROVE  MemoryInv' /\ TurnInv'
  <2>1. UNCHANGED <<remembered, since, turn, tasks, backend>>
    BY <1>11 DEF Restart
  <2> QED BY <1>1, <2>1 DEF TurnInv, Current
<1>12. CASE UNCHANGED vars
  <2>1. UNCHANGED <<remembered, since, turn, tasks, backend>>
    BY <1>12 DEF vars
  <2> QED BY <1>1, <2>1 DEF TurnInv, Current
<1> QED BY <1>3, <1>4, <1>5, <1>6, <1>7, <1>8, <1>9, <1>10, <1>11, <1>12
        DEF Next, TurnStep, ClearStep

\* A step that begins a turn of an event finds it not remembered.
LEMMA TurnsStep ==
    ASSUME TypeOK, MemoryInv, Next, NEW e \in Events, turns'[e] > turns[e]
    PROVE  since[e] = None \/ Cardinality(since[e]) >= Limit
<1>0. turns \in [Events -> Nat]
  BY DEF TypeOK
<1>1. ASSUME NEW x \in Events, ~Seen(x), Begun(x)
      PROVE  since[e] = None \/ Cardinality(since[e]) >= Limit
  <2>1. x = e
    BY <1>0, <1>1 DEF Begun
  <2> QED BY <1>1, <2>1 DEF MemoryInv
<1>2. turns' # turns
  BY <1>0
<1>3. ASSUME NEW x \in Events, Accept(x)
      PROVE  since[e] = None \/ Cardinality(since[e]) >= Limit
  BY <1>1, <1>2, <1>3 DEF Accept
<1>4. CASE BeginTurn
  <2>1. tasks # <<>> /\ ~Seen(Current.event) /\ Begun(Current.event)
    BY <1>2, <1>4 DEF BeginTurn, At
  <2>2. Current.event \in Events
    BY <2>1, CurrentType
  <2> QED BY <1>1, <2>1, <2>2
<1> QED BY <1>2, <1>3, <1>4
        DEF Next, TurnStep, ClearStep, Dispatch, GetSession, CreateSession, Sent, FinishTurn,
            ClearLock, ClearDelete, DispatchFails, ClearBegin, ClearFails, TurnFails, Clear,
            Crash, Queue, StopDispatch, Restart

\* No event gets a second turn unless what was remembered is gone, the first turn
\* failed, or Limit other events were remembered since.
THEOREM TurnsAreNotRepeated == Spec => NoRepeat
<1> DEFINE A == \A e \in Events : turns'[e] > turns[e] =>
                   since[e] = None \/ Cardinality(since[e]) >= Limit
<1>1. TypeOK /\ MemoryInv /\ [Next]_vars => [A]_vars
  BY TurnsStep
<1>2. Spec => []MemoryInv
  BY RuntimeTypeCorrect, MemoryInit, MemoryStep, PTL DEF Spec
<1>3. Spec => [][A]_vars
  BY <1>1, <1>2, RuntimeTypeCorrect, PTL DEF Spec
<1> QED BY <1>3 DEF NoRepeat
=============================================================================
