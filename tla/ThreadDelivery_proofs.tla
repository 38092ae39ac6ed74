------------------------ MODULE ThreadDelivery_proofs ------------------------
(***************************************************************************)
(* Theorems about ThreadDelivery, for all agents and events, every limit,  *)
(* retry delay, lease, heartbeat interval and latency, and every bound.    *)
(***************************************************************************)
EXTENDS ThreadDelivery, FiniteSetTheorems, SequenceTheorems, TLAPS

\* The smaller of two numbers.
LEMMA MinOfTwo ==
    ASSUME NEW m \in Nat, NEW n \in Nat
    PROVE  Min({m, n}) \in Nat /\ Min({m, n}) <= m /\ Min({m, n}) <= n
<1>1. \E x \in {m, n} : \A y \in {m, n} : x <= y
  OBVIOUS
<1>2. Min({m, n}) \in {m, n} /\ \A y \in {m, n} : Min({m, n}) <= y
  BY <1>1 DEF Min
<1> QED BY <1>2
-----------------------------------------------------------------------------
(***************************************************************************)
(* Leases.  The age of last_seen_at alone is no invariant: it is bounded   *)
(* because a request that was carried out is younger than the latency, so  *)
(* that the row is older than the loop's sleep by the latency at most.     *)
(***************************************************************************)
LeaseInv ==
    /\ agent \in [Agents -> AgentStates] /\ request \in [Agents -> Requests]
    /\ seen \in [Agents -> Nat]
    /\ since \in [Agents -> Nat]
    /\ \A a \in Agents :
          /\ request[a] # "none" => agent[a] \in {"starting", "beating"} /\ since[a] <= Latency
          /\ request[a] = "written" => seen[a] <= since[a]
          /\ request[a] = "none" /\ agent[a] = "beating" =>
                seen[a] <= since[a] + Latency /\ since[a] <= HeartbeatEvery

\* No agent has a heartbeat loop at first.
LEMMA LeaseInit == Init => LeaseInv
BY DeliveryAssumption DEF Init, LeaseInv, AgentStates, Requests

\* Only the agents' own steps, the stop of the service and the passing of time
\* touch a lease.
LEMMA LeaseStep == LeaseInv /\ [Next]_vars => LeaseInv'
<1> SUFFICES ASSUME LeaseInv, [Next]_vars
             PROVE  LeaseInv'
  OBVIOUS
<1> USE DeliveryAssumption DEF AgentStates, Requests
<1>1. ASSUME NEW a \in Agents, Start(a) \/ Beat(a)
      PROVE  LeaseInv'
  BY <1>1 DEF LeaseInv, Start, Beat, Send
<1>2. ASSUME NEW a \in Agents, Register(a) \/ Heartbeat(a)
      PROVE  LeaseInv'
  BY <1>2 DEF LeaseInv, Register, Heartbeat
<1>3. ASSUME NEW a \in Agents, Answer(a)
      PROVE  LeaseInv'
  BY <1>3 DEF LeaseInv, Answer
<1>4. ASSUME NEW a \in Agents, RequestFails(a) \/ GoDown(a)
      PROVE  LeaseInv'
  BY <1>4 DEF LeaseInv, RequestFails, GoDown
<1>5. ASSUME Tick
      PROVE  LeaseInv'
  <2>1. \A a \in Agents : seen'[a] \in Nat /\ seen'[a] <= seen[a] + 1
    <3> TAKE a \in Agents
    <3>1. seen[a] + 1 \in Nat /\ Lease + 1 \in Nat
      BY DEF LeaseInv
    <3>2. seen'[a] = Min({seen[a] + 1, Lease + 1})
      BY <1>5 DEF Tick
    <3> QED BY <3>1, <3>2, MinOfTwo
  <2>2. seen' \in [Agents -> Nat]
    BY <1>5, <2>1 DEF Tick
  <2>3. since' \in [Agents -> Nat] /\ agent' = agent /\ request' = request
    BY <1>5 DEF Tick, LeaseInv
  <2>4. \A a \in Agents : agent[a] \in {"starting", "beating"} => since'[a] = since[a] + 1
    BY <1>5 DEF Tick
  <2>5. \A a \in Agents :
           /\ request[a] # "none" => ~(since[a] >= Latency)
           /\ agent[a] = "beating" /\ request[a] = "none" => ~(since[a] >= HeartbeatEvery)
    BY <1>5 DEF Tick, Due
  <2> QED BY <2>1, <2>2, <2>3, <2>4, <2>5 DEF LeaseInv
<1>6. ASSUME ServiceStops
      PROVE  LeaseInv'
  BY <1>6 DEF LeaseInv, ServiceStops
<1>7. ASSUME UNCHANGED agentVars
      PROVE  LeaseInv'
  BY <1>7 DEF LeaseInv, agentVars
<1>8. ASSUME \/ \E e \in Events : NewEvent(e)
             \/ StartRound
             \/ \E item \in round : TaskStep(item) \/ DatabaseError(item)
             \/ ServiceStarts
             \/ UNCHANGED vars
      PROVE  UNCHANGED agentVars
  BY <1>8 DEF NewEvent, StartRound, TaskStep, PostAccepted, PostFails, Delivered, Failed,
              DatabaseError, ServiceStarts, vars
<1> QED BY <1>1, <1>2, <1>3, <1>4, <1>5, <1>6, <1>7, <1>8 DEF Next, AgentStep

\* An agent whose heartbeat loop runs is online, whatever the interval, the
\* latency and the lease, as long as the lease covers the other two: outside a
\* request that the service has not carried out, which the assumption leaves
\* uncovered.
THEOREM BeatingAgentsAreOnline == Spec => []BeatingIsOnline
<1>1. LeaseInv => BeatingIsOnline
  BY DeliveryAssumption DEF LeaseInv, BeatingIsOnline, Online, Requests
<1> QED BY <1>1, LeaseInit, LeaseStep, PTL DEF Spec
-----------------------------------------------------------------------------
(***************************************************************************)
(* The loop implements AtLeastOnce.  A task knows by its step whether the  *)
(* agent has accepted its event; late tasks know it just as well.          *)
(***************************************************************************)
TaskInv ==
    /\ pending \subseteq Events /\ pending \cap delivered = {}
    /\ current \in Nat /\ taken \in [Events -> Nat]
    /\ \A item \in round :
          /\ item \in [event : Events, step : Steps, number : Nat]
          /\ item.event \in pending \cup delivered
          /\ item.step = "accepted" => item.event \in received

\* There are no tasks at first.
LEMMA TaskInit == Init => TaskInv
BY DEF Init, TaskInv

\* What an accepted event adds to those the agents have received.
LEMMA TakenIs ==
    ASSUME taken \in [Events -> Nat], NEW e \in Events
    PROVE  /\ Taken(e) => taken' \in [Events -> Nat] /\ received' = received \cup {e}
           /\ taken' = taken => taken' \in [Events -> Nat] /\ received' = received
BY DEF Taken, received

\* A task that goes on with a POST answered or failed.
LEMMA ProceedStep ==
    ASSUME TaskInv, NEW item \in round, NEW step \in Steps, Proceed(item, step),
           step = "accepted" => Taken(item.event),
           taken' = taken \/ Taken(item.event), UNCHANGED <<pending, delivered, current>>
    PROVE  TaskInv'
<1> DEFINE next == [item EXCEPT !.step = step]
<1>1. /\ next \in [event : Events, step : Steps, number : Nat]
      /\ next.event = item.event /\ next.step = step
  BY DEF TaskInv
<1>2. round' = (round \ {item}) \cup {next}
  BY DEF Proceed
<1>3. item.event \in Events
  BY DEF TaskInv
<1>4. taken' \in [Events -> Nat] /\ received \subseteq received'
      /\ (step = "accepted" => item.event \in received')
  BY <1>3, TakenIs DEF TaskInv
<1> HIDE DEF next
<1> QED BY <1>1, <1>2, <1>4 DEF TaskInv

\* Every step keeps: the tasks of a round, late or not, are for events that are
\* pending or delivered, and know when the agent has accepted theirs.
LEMMA TaskStepInv == TaskInv /\ [Next]_vars => TaskInv'
<1> SUFFICES ASSUME TaskInv, [Next]_vars
             PROVE  TaskInv'
  OBVIOUS
<1>1. ASSUME NEW e \in Events, NewEvent(e)
      PROVE  TaskInv'
  BY <1>1 DEF TaskInv, NewEvent, received
<1>2. ASSUME StartRound
      PROVE  TaskInv'
  <2> DEFINE task(e) == [event |-> e, step |-> IF Online(To[e]) THEN "post" ELSE "failed",
                         number |-> current]
  <2>1. \A e \in ListDue :
            /\ task(e) \in [event : Events, step : Steps, number : Nat]
            /\ task(e).event = e /\ e \in pending /\ task(e).step # "accepted"
    BY DEF TaskInv, ListDue, Steps
  <2>2. round' = round \cup {task(e) : e \in ListDue}
    BY <1>2 DEF StartRound
  <2>3. UNCHANGED <<pending, delivered, taken, current>>
    BY <1>2 DEF StartRound, eventVars
  <2> HIDE DEF task
  <2> QED BY <2>1, <2>2, <2>3 DEF TaskInv, received
<1>3. ASSUME NEW item \in round, PostAccepted(item)
      PROVE  TaskInv'
  BY <1>3, ProceedStep DEF PostAccepted, eventVars, Steps
<1>4. ASSUME NEW item \in round, PostFails(item)
      PROVE  TaskInv'
  BY <1>4, ProceedStep DEF PostFails, eventVars, Steps
<1>5. ASSUME NEW item \in round, Delivered(item)
      PROVE  TaskInv'
  BY <1>5 DEF TaskInv, Delivered, received
<1>6. ASSUME NEW item \in round, Failed(item)
      PROVE  TaskInv'
  BY <1>6 DEF TaskInv, Failed, received
<1>7. ASSUME NEW item \in round, DatabaseError(item)
      PROVE  TaskInv'
  BY <1>7 DEF TaskInv, DatabaseError, eventVars, received
<1>8. ASSUME ServiceStops
      PROVE  TaskInv'
  BY <1>8 DEF TaskInv, ServiceStops, eventVars, received
<1>9. ASSUME UNCHANGED <<pending, delivered, taken, round, current>>
      PROVE  TaskInv'
  BY <1>9 DEF TaskInv, received
<1>10. ASSUME \/ \E a \in Agents : AgentStep(a)
              \/ ServiceStarts \/ Tick \/ UNCHANGED vars
       PROVE  UNCHANGED <<pending, delivered, taken, round, current>>
  BY <1>10 DEF AgentStep, Start, Beat, Send, Register, Heartbeat, Answer,
    RequestFails, GoDown, ServiceStarts, Tick, vars, eventVars
<1> QED BY <1>1, <1>2, <1>3, <1>4, <1>5, <1>6, <1>7, <1>8, <1>9, <1>10 DEF Next, TaskStep

\* Every step of the loop owes, accepts or settles one event, or does not
\* concern the promise.
LEMMA PromiseStep ==
    TaskInv /\ [Next]_vars => [Abstract!PromiseNext]_(Abstract!promise)
<1> SUFFICES ASSUME TaskInv, [Next]_vars
             PROVE  [Abstract!PromiseNext]_(Abstract!promise)
  OBVIOUS
<1>1. ASSUME NEW e \in Events, NewEvent(e)
      PROVE  Abstract!PromiseNext
  <2>1. Abstract!Owe(e)
    BY <1>1 DEF NewEvent, Abstract!Owe, Abstract!Known, received
  <2> QED BY <2>1 DEF Abstract!PromiseNext
<1>2. ASSUME NEW item \in round, PostAccepted(item) \/ PostFails(item)
      PROVE  [Abstract!PromiseNext]_(Abstract!promise)
  <2>1. UNCHANGED <<pending, delivered>> /\ item.event \in Events
    BY <1>2 DEF PostAccepted, PostFails, eventVars, TaskInv
  <2>2. received' \in {received, received \cup {item.event}}
    BY <1>2, <2>1, TakenIs DEF PostAccepted, PostFails, TaskInv
  <2>3. CASE received' = received
    BY <2>1, <2>3 DEF Abstract!promise
  <2>4. CASE received' = received \cup {item.event}
    <3>1. Abstract!Accept(item.event)
      BY <2>1, <2>4 DEF TaskInv, Abstract!Accept, Abstract!Known
    <3> QED BY <2>1, <3>1 DEF Abstract!PromiseNext
  <2> QED BY <2>2, <2>3, <2>4
<1>3. ASSUME NEW item \in round, Delivered(item)
      PROVE  [Abstract!PromiseNext]_(Abstract!promise)
  <2>1. /\ pending' = pending \ {item.event} /\ delivered' = delivered \cup {item.event}
        /\ received' = received /\ item.event \in received /\ item.event \in Events
    BY <1>3 DEF Delivered, TaskInv, received
  <2>2. CASE item.event \in pending
    <3>1. Abstract!Settle(item.event)
      BY <2>1, <2>2 DEF Abstract!Settle
    <3> QED BY <2>1, <3>1 DEF Abstract!PromiseNext
  <2>3. CASE item.event \notin pending
    BY <2>1, <2>3 DEF TaskInv, Abstract!promise
  <2> QED BY <2>2, <2>3
<1>4. ASSUME \/ \E a \in Agents : AgentStep(a)
             \/ StartRound
             \/ \E item \in round : Failed(item) \/ DatabaseError(item)
             \/ ServiceStops \/ ServiceStarts \/ Tick \/ UNCHANGED vars
      PROVE  UNCHANGED Abstract!promise
  <2>1. UNCHANGED <<pending, delivered, received>>
    BY <1>4 DEF AgentStep, Start, Beat, Send, Register, Heartbeat, Answer,
    RequestFails, GoDown, StartRound, Failed, DatabaseError,
                ServiceStops, ServiceStarts, Tick, vars, eventVars, received
  <2> QED BY <2>1 DEF Abstract!promise
<1> QED BY <1>1, <1>2, <1>3, <1>4 DEF Next, TaskStep

\* The delivery loop implements AtLeastOnce: whatever the limit, the backoff,
\* the leases, the lost answers, the outages and the rounds that overlap after
\* a database error, an event stays owed until its agent has accepted it.
THEOREM DeliveryKeepsPromise == Spec => KeepsPromise
<1>1. Init => Abstract!PromiseInit
  BY DEF Init, Abstract!PromiseInit, received
<1> QED BY <1>1, TaskInit, TaskStepInv, PromiseStep, PTL DEF Spec, KeepsPromise, Abstract!Promise
-----------------------------------------------------------------------------
(***************************************************************************)
(* How often an agent accepts an event.  The bound alone is no invariant:  *)
(* an attempt that is still to be posted counts like one that was          *)
(* accepted, and an event that the loop may list again has one acceptance  *)
(* left, because the round that ended without delivering it has lost an    *)
(* answer or has been cut off.                                             *)
(***************************************************************************)
Posts(e) == {item \in round : item.event = e /\ item.step = "post"}

\* The round that the loop awaits has a task that may deliver the event.
Underway(e) == \E item \in round :
    item.event = e /\ item.number = current /\ item.step \in {"post", "accepted"}

Spent == lost + outages + current

BoundInv ==
    /\ lost \in Nat /\ outages \in Nat
    /\ \A e \in Events :
          /\ IsFiniteSet(Posts(e))
          /\ taken[e] + Cardinality(Posts(e)) <= 1 + Spent
          /\ e \notin delivered /\ ~Underway(e) => taken[e] + Cardinality(Posts(e)) <= Spent

\* No agent has accepted anything at first.
LEMMA BoundInit == Init => BoundInv
<1> SUFFICES ASSUME Init
             PROVE  BoundInv
  OBVIOUS
<1>1. \A e \in Events : Posts(e) = {}
  BY DEF Init, Posts
<1>2. IsFiniteSet({}) /\ Cardinality({}) = 0
  BY FS_EmptySet
<1>3. lost = 0 /\ outages = 0 /\ current = 0 /\ \A e \in Events : taken[e] = 0
  BY DEF Init
<1>4. Spent = 0
  BY <1>3 DEF Spent
<1>5. \A e \in Events : Cardinality(Posts(e)) = 0 /\ IsFiniteSet(Posts(e))
  BY <1>1, <1>2
<1> QED BY <1>3, <1>4, <1>5 DEF BoundInv

\* The fault that a step may add.
LEMMA SpentGrows ==
    ASSUME lost \in Nat, outages \in Nat, current \in Nat, NEW more \in {0, 1},
           \/ lost' = lost + more /\ outages' = outages /\ current' = current
           \/ lost' = lost /\ outages' = outages + more /\ current' = current
           \/ lost' = lost /\ outages' = outages /\ current' = current + more
    PROVE  Spent \in Nat /\ Spent' = Spent + more
BY DEF Spent

\* What a step does to the attempts of one event that are still to be posted.
LEMMA PostsChange ==
    ASSUME NEW e, IsFiniteSet(Posts(e))
    PROVE  /\ Cardinality(Posts(e)) \in Nat
           /\ Posts(e)' = Posts(e) => /\ IsFiniteSet(Posts(e)')
                                      /\ Cardinality(Posts(e)') = Cardinality(Posts(e))
           /\ \A item \in Posts(e) : Posts(e)' = Posts(e) \ {item} =>
                  /\ IsFiniteSet(Posts(e)')
                  /\ Cardinality(Posts(e)') = Cardinality(Posts(e)) - 1
           /\ \A item : item \notin Posts(e) /\ Posts(e)' = Posts(e) \cup {item} =>
                  /\ IsFiniteSet(Posts(e)')
                  /\ Cardinality(Posts(e)') = Cardinality(Posts(e)) + 1
<1>1. Cardinality(Posts(e)) \in Nat
  BY FS_CardinalityType
<1>2. \A item \in Posts(e) : /\ IsFiniteSet(Posts(e) \ {item})
                             /\ Cardinality(Posts(e) \ {item}) = Cardinality(Posts(e)) - 1
  BY FS_RemoveElement
<1>3. \A item : item \notin Posts(e) =>
          /\ IsFiniteSet(Posts(e) \cup {item})
          /\ Cardinality(Posts(e) \cup {item}) = Cardinality(Posts(e)) + 1
  BY FS_AddElement
<1> QED BY <1>1, <1>2, <1>3

\* A round that starts lists an event that was not under way, once.
LEMMA StartKeepsBound ==
    ASSUME TaskInv, BoundInv, StartRound
    PROVE  BoundInv'
<1> DEFINE task(e) == [event |-> e, step |-> IF Online(To[e]) THEN "post" ELSE "failed",
                       number |-> current]
<1>1. \A e \in ListDue : /\ task(e).event = e /\ task(e).number = current
                         /\ task(e).step \in {"post", "failed"}
                         /\ e \in pending
  BY DEF ListDue
<1>2. round' = round \cup {task(e) : e \in ListDue}
  BY DEF StartRound
<1>3. UNCHANGED <<taken, delivered, lost, outages, current>>
  BY DEF StartRound, eventVars, faults
<1>4. \A item \in round : item.number # current
  BY DEF StartRound, Late, TaskInv
<1> HIDE DEF task
<1>5. ASSUME NEW e \in Events
      PROVE  /\ IsFiniteSet(Posts(e)')
             /\ taken'[e] + Cardinality(Posts(e)') <= 1 + Spent'
             /\ e \notin delivered' /\ ~Underway(e)' => taken'[e] + Cardinality(Posts(e)') <= Spent'
  <2>1. taken[e] \in Nat /\ Spent \in Nat /\ Spent' = Spent /\ IsFiniteSet(Posts(e))
    BY <1>3 DEF TaskInv, BoundInv, Spent
  <2>2. Cardinality(Posts(e)) \in Nat
    BY <2>1, PostsChange
  <2>3. CASE e \in ListDue /\ task(e).step = "post"
    <3>1. Posts(e)' = Posts(e) \cup {task(e)}
      BY <1>1, <1>2, <2>3 DEF Posts
    <3>2. task(e) \notin Posts(e)
      BY <1>1, <1>4, <2>3 DEF Posts
    <3>3. Underway(e)'
      BY <1>1, <1>2, <1>3, <2>3 DEF Underway
    <3>4. taken[e] + Cardinality(Posts(e)) <= 1 + Spent
          /\ (e \notin delivered => taken[e] + Cardinality(Posts(e)) <= Spent)
      BY <1>4 DEF BoundInv, Underway
    <3>5. e \notin delivered
      BY <1>1, <2>3 DEF TaskInv
    <3>6. IsFiniteSet(Posts(e)') /\ Cardinality(Posts(e)') = Cardinality(Posts(e)) + 1
      BY <2>1, <3>1, <3>2, PostsChange
    <3> QED BY <1>3, <2>1, <2>2, <3>3, <3>4, <3>5, <3>6
  <2>4. CASE ~(e \in ListDue /\ task(e).step = "post")
    <3>1. Posts(e)' = Posts(e)
      BY <1>1, <1>2, <2>4 DEF Posts
    <3>2. ~Underway(e)
      BY <1>4 DEF Underway
    <3>3. taken[e] + Cardinality(Posts(e)) <= 1 + Spent
          /\ (e \notin delivered => taken[e] + Cardinality(Posts(e)) <= Spent)
      BY <3>2 DEF BoundInv
    <3>4. IsFiniteSet(Posts(e)') /\ Cardinality(Posts(e)') = Cardinality(Posts(e))
      BY <2>1, <3>1, PostsChange
    <3> QED BY <1>3, <2>1, <2>2, <3>3, <3>4
  <2> QED BY <2>3, <2>4
<1> QED BY <1>3, <1>5 DEF BoundInv

\* A POST that was answered, or whose answer was lost, is one attempt less.
LEMMA PostKeepsBound ==
    ASSUME TaskInv, BoundInv, NEW item \in round, item.step = "post",
           NEW step \in {"accepted", "failed"}, Proceed(item, step),
           UNCHANGED <<delivered, outages, current>>,
           \/ step = "accepted" /\ Taken(item.event) /\ lost' = lost
           \/ step = "failed" /\ taken' = taken /\ lost' \in {lost, lost + 1}
           \/ step = "failed" /\ Taken(item.event) /\ lost' = lost + 1
    PROVE  BoundInv'
<1> DEFINE next == [item EXCEPT !.step = step]
<1>1. /\ next.event = item.event /\ next.number = item.number /\ next.step = step
      /\ item.event \in Events
  BY DEF TaskInv
<1>2. round' = (round \ {item}) \cup {next}
  BY DEF Proceed
<1>3. lost \in Nat /\ outages \in Nat /\ current \in Nat
  BY DEF BoundInv, TaskInv
<1>4. PICK more \in {0, 1} :
          /\ lost' = lost + more /\ outages' = outages /\ current' = current
          /\ step = "accepted" => more = 0
          /\ step = "failed" => taken' = taken \/ (Taken(item.event) /\ more = 1)
  BY <1>3
<1>5. Spent \in Nat /\ Spent' = Spent + more
  <2>1. lost' = lost + more /\ outages' = outages /\ current' = current
    BY <1>4
  <2> QED BY <1>3, <2>1, SpentGrows
<1> HIDE DEF next
<1>6. ASSUME NEW e \in Events
      PROVE  /\ IsFiniteSet(Posts(e)')
             /\ taken'[e] + Cardinality(Posts(e)') <= 1 + Spent'
             /\ e \notin delivered' /\ ~Underway(e)' => taken'[e] + Cardinality(Posts(e)') <= Spent'
  <2>1. taken[e] \in Nat /\ IsFiniteSet(Posts(e)) /\ Cardinality(Posts(e)) \in Nat
    BY PostsChange DEF TaskInv, BoundInv
  <2>2. /\ taken[e] + Cardinality(Posts(e)) <= 1 + Spent
        /\ e \notin delivered /\ ~Underway(e) => taken[e] + Cardinality(Posts(e)) <= Spent
    BY DEF BoundInv
  <2>3. CASE e = item.event
    <3>1. item \in Posts(e) /\ Posts(e)' = Posts(e) \ {item}
      BY <1>1, <1>2, <2>3 DEF Posts
    <3>2. IsFiniteSet(Posts(e)') /\ Cardinality(Posts(e)') = Cardinality(Posts(e)) - 1
      BY <2>1, <3>1, PostsChange
    <3>3. taken'[e] \in {taken[e], taken[e] + 1}
      BY <2>3 DEF Taken, TaskInv
    <3>4. CASE step = "accepted"
      <4>1. Spent' = Spent
        <5>1. more = 0
          BY <1>4, <3>4
        <5> QED BY <1>5, <5>1
      <4>2. Underway(e)' => Underway(e)
        BY <1>1, <1>2, <2>3, <3>4 DEF Underway
      <4>3. Underway(e) => Underway(e)'
        <5> SUFFICES ASSUME NEW other \in round, other.event = e, other.number = current,
                            other.step \in {"post", "accepted"}
                     PROVE  Underway(e)'
          BY DEF Underway
        <5>1. CASE other = item
          BY <1>1, <1>2, <3>4, <5>1 DEF Underway
        <5>2. CASE other # item
          BY <1>2, <5>2 DEF Underway
        <5> QED BY <5>1, <5>2
      <4> QED BY <1>5, <2>1, <2>2, <3>2, <3>3, <4>1, <4>2, <4>3
    <3>5. CASE step = "failed"
      <4>1. taken'[e] = taken[e] \/ (taken'[e] = taken[e] + 1 /\ more = 1)
        <5>1. taken' = taken \/ (Taken(item.event) /\ more = 1)
          BY <1>4, <3>5
        <5> QED BY <2>3, <5>1 DEF Taken, TaskInv
      <4> QED BY <1>5, <2>1, <2>2, <3>2, <4>1
    <3> QED BY <3>4, <3>5
  <2>4. CASE e # item.event
    <3>1. Posts(e)' = Posts(e)
      BY <1>1, <1>2, <2>4 DEF Posts
    <3>2. Underway(e)' = Underway(e)
      BY <1>1, <1>2, <2>4 DEF Underway
    <3>3. taken'[e] = taken[e]
      BY <2>4 DEF Taken, TaskInv
    <3>4. IsFiniteSet(Posts(e)') /\ Cardinality(Posts(e)') = Cardinality(Posts(e))
      BY <2>1, <3>1, PostsChange
    <3> QED BY <1>5, <2>1, <2>2, <3>2, <3>3, <3>4
  <2> QED BY <2>3, <2>4
<1> QED BY <1>3, <1>4, <1>6 DEF BoundInv

\* A task that ends posts nothing; if it was of the round the loop awaits, its
\* event is delivered, or failed, or the error has ended the round.
LEMMA EndKeepsBound ==
    ASSUME TaskInv, BoundInv, NEW item \in round, item.step # "post",
           round' = round \ {item}, UNCHANGED <<taken, lost, outages>>,
           current' \in {current, current + 1}, delivered \subseteq delivered',
           \/ item.step = "failed"
           \/ item.event \in delivered'
           \/ Late(item)
           \/ current' = current + 1
    PROVE  BoundInv'
<1>1. lost \in Nat /\ outages \in Nat /\ current \in Nat
  BY DEF BoundInv, TaskInv
<1>2. PICK more \in {0, 1} : lost' = lost /\ outages' = outages /\ current' = current + more
  BY <1>1
<1>3. Spent \in Nat /\ Spent' = Spent + more
  BY <1>1, <1>2, SpentGrows
<1>4. ASSUME NEW e \in Events
      PROVE  /\ IsFiniteSet(Posts(e)')
             /\ taken'[e] + Cardinality(Posts(e)') <= 1 + Spent'
             /\ e \notin delivered' /\ ~Underway(e)' => taken'[e] + Cardinality(Posts(e)') <= Spent'
  <2>1. Posts(e)' = Posts(e)
    BY DEF Posts
  <2>2. taken[e] \in Nat /\ IsFiniteSet(Posts(e)) /\ Cardinality(Posts(e)) \in Nat
    BY PostsChange DEF TaskInv, BoundInv
  <2>3. IsFiniteSet(Posts(e)') /\ Cardinality(Posts(e)') = Cardinality(Posts(e))
    BY <2>1, <2>2, PostsChange
  <2>4. /\ taken[e] + Cardinality(Posts(e)) <= 1 + Spent
        /\ e \notin delivered /\ ~Underway(e) => taken[e] + Cardinality(Posts(e)) <= Spent
    BY DEF BoundInv
  <2>5. CASE current' = current + 1
    BY <1>1, <1>2, <1>3, <2>2, <2>3, <2>4, <2>5
  <2>6. CASE current' = current
    <3>1. ASSUME e \notin delivered', ~Underway(e)'
          PROVE  e \notin delivered /\ ~Underway(e)
      <4>1. e \notin delivered
        BY <3>1
      <4>2. ASSUME NEW other \in round, other.event = e, other.number = current,
                   other.step \in {"post", "accepted"}
            PROVE  FALSE
        <5>1. CASE other = item
          BY <1>1, <2>6, <3>1, <4>2, <5>1 DEF Late
        <5>2. CASE other # item
          BY <2>6, <3>1, <4>2, <5>2 DEF Underway
        <5> QED BY <5>1, <5>2
      <4> QED BY <4>1, <4>2 DEF Underway
    <3> QED BY <1>3, <2>2, <2>3, <2>4, <3>1
  <2> QED BY <2>5, <2>6
<1> QED BY <1>1, <1>2, <1>4 DEF BoundInv

\* Every step keeps an acceptance for each event that the loop may list again.
LEMMA BoundStepInv == TaskInv /\ BoundInv /\ [Next]_vars => BoundInv'
<1> SUFFICES ASSUME TaskInv, BoundInv, [Next]_vars
             PROVE  BoundInv'
  OBVIOUS
<1>1. CASE StartRound
  BY <1>1, StartKeepsBound
<1>2. ASSUME NEW item \in round, PostAccepted(item) \/ PostFails(item)
      PROVE  BoundInv'
  BY <1>2, PostKeepsBound DEF PostAccepted, PostFails, eventVars, faults
<1>3. ASSUME NEW item \in round, Delivered(item) \/ Failed(item) \/ DatabaseError(item)
      PROVE  BoundInv'
  BY <1>3, EndKeepsBound DEF Delivered, Failed, DatabaseError, eventVars, faults
<1>4. CASE ServiceStops
  <2>1. /\ round' = {} /\ UNCHANGED <<taken, delivered, lost, current>>
        /\ outages' = outages + 1
    BY <1>4 DEF ServiceStops, eventVars
  <2>2. lost \in Nat /\ outages \in Nat /\ current \in Nat
    BY DEF BoundInv, TaskInv
  <2>3. Spent \in Nat /\ Spent' = Spent + 1
    BY <2>1, <2>2 DEF Spent
  <2>4. \A e \in Events : Posts(e)' = {}
    BY <2>1 DEF Posts
  <2>5. IsFiniteSet({}) /\ Cardinality({}) = 0
    BY FS_EmptySet
  <2>6. ASSUME NEW e \in Events
        PROVE  /\ IsFiniteSet(Posts(e)')
               /\ taken'[e] + Cardinality(Posts(e)') <= Spent'
    <3>1. taken[e] \in Nat /\ Cardinality(Posts(e)) \in Nat
      BY PostsChange DEF TaskInv, BoundInv
    <3>2. taken[e] + Cardinality(Posts(e)) <= 1 + Spent
      BY DEF BoundInv
    <3> QED BY <2>1, <2>3, <2>4, <2>5, <3>1, <3>2
  <2>7. ASSUME NEW e \in Events
        PROVE  taken'[e] + Cardinality(Posts(e)') <= 1 + Spent'
    <3>1. taken'[e] \in Nat /\ Cardinality(Posts(e)') = 0
      BY <2>1, <2>4, <2>5 DEF TaskInv
    <3> QED BY <2>3, <2>6, <3>1
  <2> QED BY <2>1, <2>2, <2>6, <2>7 DEF BoundInv
<1>5. ASSUME UNCHANGED <<round, taken, delivered, lost, outages, current>>
      PROVE  BoundInv'
  BY <1>5 DEF BoundInv, Posts, Underway, Spent
<1>6. ASSUME \/ \E a \in Agents : AgentStep(a)
             \/ \E e \in Events : NewEvent(e)
             \/ ServiceStarts \/ Tick \/ UNCHANGED vars
      PROVE  UNCHANGED <<round, taken, delivered, lost, outages, current>>
  BY <1>6 DEF AgentStep, Start, Beat, Send, Register, Heartbeat, Answer, RequestFails, GoDown,
              NewEvent, ServiceStarts, Tick, eventVars, faults, vars
<1> QED BY <1>1, <1>2, <1>3, <1>4, <1>5, <1>6 DEF Next, TaskStep

\* Whatever the limit, the retries and the order of the faults, an agent accepts
\* an event once, and once more at most for each lost answer, each restart of the
\* service and each round that a database error let overlap with the next.
THEOREM EventsAreRedeliveredForFaultsOnly == Spec => []RedeliveryIsBounded
<1>1. TaskInv /\ BoundInv => RedeliveryIsBounded
  <2> SUFFICES ASSUME TaskInv, BoundInv, NEW e \in Events
               PROVE  taken[e] <= 1 + lost + outages + current
    BY DEF RedeliveryIsBounded
  <2>1. taken[e] \in Nat /\ Cardinality(Posts(e)) \in Nat
    BY PostsChange DEF TaskInv, BoundInv
  <2>2. taken[e] + Cardinality(Posts(e)) <= 1 + (lost + outages + current)
    BY DEF BoundInv, Spent
  <2> QED BY <2>1, <2>2 DEF BoundInv, TaskInv
<1> QED BY <1>1, TaskInit, TaskStepInv, BoundInit, BoundStepInv, PTL DEF Spec
-----------------------------------------------------------------------------
(***************************************************************************)
(* Type correctness, and the order of the query: due lists, without        *)
(* repetition, exactly the pending events whose wait is over.              *)
(***************************************************************************)
\* RemoveFirst takes an element out of a sequence that holds it once.
LEMMA RemoveFirstOfInjective ==
    ASSUME NEW S, NEW s \in Seq(S), IsInjective(s), NEW e
    PROVE  /\ RemoveFirst(s, e) \in Seq(S)
           /\ IsInjective(RemoveFirst(s, e))
           /\ ToSet(RemoveFirst(s, e)) = ToSet(s) \ {e}
<1>1. CASE \E i \in 1..Len(s) : s[i] = e
  <2>1. PICK p \in 1..Len(s) : s[p] = e
    BY <1>1
  <2>2. {i \in 1..Len(s) : s[i] = e} = {p}
    BY <2>1 DEF IsInjective
  <2>3. Min({p}) = p
    BY <2>1 DEF Min
  <2>4. SelectInSeq(s, LAMBDA v : v = e) = p
    BY <2>2, <2>3 DEF SelectInSeq
  <2>5. RemoveFirst(s, e) = SubSeq(s, 1, p - 1) \o SubSeq(s, p + 1, Len(s))
    BY <1>1, <2>4 DEF RemoveFirst, RemoveAt
  <2> DEFINE r == SubSeq(s, 1, p - 1) \o SubSeq(s, p + 1, Len(s))
  <2>6. /\ r \in Seq(S) /\ Len(r) = Len(s) - 1
        /\ \A i \in 1..Len(r) : r[i] = IF i < p THEN s[i] ELSE s[i + 1]
    <3> DEFINE f == SubSeq(s, 1, p - 1)
               g == SubSeq(s, p + 1, Len(s))
    <3>1. Len(s) \in Nat /\ p \in Nat /\ p >= 1 /\ p <= Len(s)
      BY <2>1
    <3>2. f \in Seq(S) /\ Len(f) = p - 1 /\ \A i \in 1..(p - 1) : f[i] = s[i]
      BY <3>1
    <3>3. g \in Seq(S) /\ Len(g) = Len(s) - p /\ \A i \in 1..(Len(s) - p) : g[i] = s[p + i]
      BY <3>1
    <3> HIDE DEF f, g
    <3>4. f \o g \in Seq(S) /\ Len(f \o g) = Len(f) + Len(g)
      BY <3>2, <3>3, ConcatProperties
    <3>5. Len(f \o g) = Len(s) - 1
      BY <3>1, <3>2, <3>3, <3>4
    <3>6. \A i \in 1..(Len(s) - 1) : (f \o g)[i] = IF i < p THEN s[i] ELSE s[i + 1]
      BY <3>1, <3>2, <3>3
    <3> QED BY <3>4, <3>5, <3>6 DEF f, g
  <2> HIDE DEF r
  <2>7. IsInjective(r)
    BY <2>1, <2>6, SMTT(30) DEF IsInjective
  <2>8. \A i \in 1..Len(s) : i # p => \E j \in 1..Len(r) : r[j] = s[i]
    <3> SUFFICES ASSUME NEW i \in 1..Len(s), i # p
                 PROVE  \E j \in 1..Len(r) : r[j] = s[i]
      OBVIOUS
    <3>1. CASE i < p
      BY <2>6, <3>1
    <3>2. CASE i > p
      <4>1. i - 1 \in 1..Len(r) /\ r[i - 1] = s[i]
        BY <2>1, <2>6, <3>2
      <4> QED BY <4>1
    <3> QED BY <2>1, <3>1, <3>2
  <2>9. \A i \in 1..Len(r) : r[i] # e /\ \E j \in 1..Len(s) : s[j] = r[i]
    BY <2>1, <2>6, SMTT(30) DEF IsInjective
  <2>10. ToSet(r) = ToSet(s) \ {e}
    <3>1. DOMAIN r = 1..Len(r) /\ DOMAIN s = 1..Len(s)
      BY <2>6
    <3>2. \A x \in ToSet(r) : x \in ToSet(s) /\ x # e
      BY <3>1, <2>9 DEF ToSet
    <3>3. \A x \in ToSet(s) : x # e => x \in ToSet(r)
      BY <2>1, <3>1, <2>8 DEF ToSet
    <3> QED BY <3>2, <3>3
  <2> QED BY <2>5, <2>6, <2>7, <2>10 DEF r
<1>2. CASE ~ \E i \in 1..Len(s) : s[i] = e
  BY <1>2 DEF RemoveFirst, ToSet
<1> QED BY <1>1, <1>2

\* A sequence of SetToSeqs lists a finite set completely and without repetition.
LEMMA SetToSeqsLists ==
    ASSUME NEW S, IsFiniteSet(S), NEW s \in SetToSeqs(S)
    PROVE  s \in Seq(S) /\ IsInjective(s) /\ ToSet(s) = S
<1> DEFINE n == Cardinality(S)
<1>1. n \in Nat
  BY FS_CardinalityType
<1>2. s \in [1..n -> S] /\ IsInjective(s)
  BY DEF SetToSeqs, IsInjective
<1>3. IsFiniteSet(1..n) /\ Cardinality(1..n) = n
  BY <1>1, FS_Interval
<1>4. s \in Injection(1..n, S)
  BY <1>2 DEF Injection
<1>5. s \in Surjection(1..n, S)
  BY <1>3, <1>4, FS_Injection
<1>6. ToSet(s) = S
  BY <1>2, <1>5 DEF Surjection, ToSet
<1>7. s \in Seq(S)
  BY <1>1, <1>2
<1> QED BY <1>2, <1>6, <1>7

\* Two sequences without repetition that share no element, one after the other.
LEMMA ConcatOfInjective ==
    ASSUME NEW S, NEW s \in Seq(S), NEW t \in Seq(S),
           IsInjective(s), IsInjective(t), ToSet(s) \cap ToSet(t) = {}
    PROVE  /\ s \o t \in Seq(S)
           /\ IsInjective(s \o t)
           /\ ToSet(s \o t) = ToSet(s) \cup ToSet(t)
<1> DEFINE r == s \o t
<1>1. /\ r \in Seq(S) /\ Len(r) = Len(s) + Len(t)
      /\ \A i \in 1..(Len(s) + Len(t)) : r[i] = IF i <= Len(s) THEN s[i] ELSE t[i - Len(s)]
  BY ConcatProperties
<1>2. /\ Len(s) \in Nat /\ Len(t) \in Nat
      /\ DOMAIN s = 1..Len(s) /\ DOMAIN t = 1..Len(t) /\ DOMAIN r = 1..(Len(s) + Len(t))
  BY <1>1
<1> HIDE DEF r
<1>3. \A i \in 1..Len(s) : i \in DOMAIN r /\ r[i] = s[i]
  BY <1>1, <1>2
<1>4. \A i \in 1..Len(t) : Len(s) + i \in DOMAIN r /\ r[Len(s) + i] = t[i]
  <2> SUFFICES ASSUME NEW i \in 1..Len(t)
               PROVE  Len(s) + i \in DOMAIN r /\ r[Len(s) + i] = t[i]
    OBVIOUS
  <2>1. Len(s) + i \in 1..(Len(s) + Len(t)) /\ ~(Len(s) + i <= Len(s))
        /\ (Len(s) + i) - Len(s) = i
    BY <1>2
  <2> QED BY <1>1, <1>2, <2>1
<1>5. \A i \in DOMAIN r : \/ i \in 1..Len(s)
                          \/ \E j \in 1..Len(t) : i = Len(s) + j
  <2> SUFFICES ASSUME NEW i \in DOMAIN r, i \notin 1..Len(s)
               PROVE  \E j \in 1..Len(t) : i = Len(s) + j
    OBVIOUS
  <2>1. i - Len(s) \in 1..Len(t) /\ i = Len(s) + (i - Len(s))
    BY <1>2
  <2> QED BY <2>1
<1>6. \A i \in 1..Len(s), j \in 1..Len(t) : s[i] # t[j]
  BY <1>2 DEF ToSet
<1>7. IsInjective(r)
  <2> SUFFICES ASSUME NEW i \in DOMAIN r, NEW j \in DOMAIN r, r[i] = r[j]
               PROVE  i = j
    BY DEF IsInjective
  <2>1. CASE i \in 1..Len(s)
    BY <1>2, <1>3, <1>4, <1>5, <1>6, <2>1 DEF IsInjective
  <2>2. CASE i \notin 1..Len(s)
    <3>1. PICK k \in 1..Len(t) : i = Len(s) + k /\ r[i] = t[k]
      BY <1>4, <1>5, <2>2
    <3>2. j \notin 1..Len(s)
      BY <1>3, <1>6, <3>1
    <3>3. PICK m \in 1..Len(t) : j = Len(s) + m /\ r[j] = t[m]
      BY <1>4, <1>5, <3>2
    <3>4. k = m
      BY <1>2, <3>1, <3>3 DEF IsInjective
    <3> QED BY <3>1, <3>3, <3>4
  <2> QED BY <2>1, <2>2
<1>8. ToSet(r) = ToSet(s) \cup ToSet(t)
  <2>1. \A x \in ToSet(r) : x \in ToSet(s) \cup ToSet(t)
    BY <1>2, <1>3, <1>4, <1>5 DEF ToSet
  <2>2. \A x \in ToSet(s) \cup ToSet(t) : x \in ToSet(r)
    BY <1>2, <1>3, <1>4 DEF ToSet
  <2> QED BY <2>1, <2>2
<1> QED BY <1>1, <1>7, <1>8 DEF r

\* A power of two is a positive number: it counts the subsets of a set.
LEMMA PowerOfTwo ==
    ASSUME NEW k \in Nat
    PROVE  2 ^ k \in Nat \ {0}
<1>1. IsFiniteSet(1..k) /\ Cardinality(1..k) = k
  BY FS_Interval
<1>2. IsFiniteSet(SUBSET (1..k)) /\ Cardinality(SUBSET (1..k)) = 2 ^ k
  BY <1>1, FS_SUBSET
<1>3. Cardinality(SUBSET (1..k)) \in Nat
  BY <1>2, FS_CardinalityType
<1>4. Cardinality(SUBSET (1..k)) # 0
  BY <1>2, FS_EmptySet
<1> QED BY <1>2, <1>3, <1>4

\* A failed event waits at least one unit of time and at most RetryMax.
LEMMA DelayType ==
    ASSUME NEW n \in Nat \ {0}
    PROVE  Delay(n) \in 1..RetryMax
<1> USE DeliveryAssumption
<1>1. Min({n - 1, MaxExponent}) \in Nat
  BY MinOfTwo
<1> DEFINE power == 2 ^ Min({n - 1, MaxExponent})
<1>2. power \in Nat \ {0}
  BY <1>1, PowerOfTwo
<1> HIDE DEF power
<1>3. RetryBase * power \in Nat \ {0}
  BY <1>2
<1>4. Min({RetryMax, RetryBase * power}) \in {RetryMax, RetryBase * power}
  <2>1. \E x \in {RetryMax, RetryBase * power} : \A y \in {RetryMax, RetryBase * power} : x <= y
    BY <1>3
  <2> QED BY <2>1 DEF Min
<1>5. Min({RetryMax, RetryBase * power}) <= RetryMax
  BY <1>3, MinOfTwo
<1> QED BY <1>3, <1>4, <1>5 DEF Delay, power

LeaseTypes ==
    /\ up \in BOOLEAN
    /\ agent \in [Agents -> AgentStates] /\ request \in [Agents -> Requests]
    /\ seen \in [Agents -> 0..(Lease + 1)]
    /\ since \in [Agents -> Nat]

\* An event nobody has appended yet waits for nothing, so that it is due from
\* its creation; there are never infinitely many to put in an order.
EventTypes ==
    /\ pending \subseteq Events /\ delivered \subseteq Events
    /\ taken \in [Events -> Nat]
    /\ IsFiniteSet(pending)
    /\ due \in Seq(Events) /\ IsInjective(due)
    /\ ToSet(due) = {e \in pending : wait[e] = 0}
    /\ wait \in [Events -> 0..RetryMax]
    /\ attempts \in [Events -> 0..(MaxExponent + 1)]
    /\ \A e \in Events : e \notin pending \cup delivered => wait[e] = 0

RoundTypes ==
    /\ round \subseteq Item /\ current \in 0..MaxFaults
    /\ outages \in Nat /\ lost \in Nat /\ stops \in Nat

TypeInv == LeaseTypes /\ EventTypes /\ RoundTypes

\* Nothing is appended at first.
LEMMA TypeInit == Init => TypeInv
<1> SUFFICES ASSUME Init
             PROVE  TypeInv
  OBVIOUS
<1> USE DeliveryAssumption DEF Init, AgentStates, Requests
<1>1. LeaseTypes
  BY DEF LeaseTypes
<1>2. due \in Seq(Events) /\ IsInjective(due) /\ ToSet(due) = {}
  BY DEF IsInjective, ToSet
<1>3. EventTypes
  BY <1>2, FS_EmptySet DEF EventTypes
<1>4. RoundTypes
  BY DEF RoundTypes
<1> QED BY <1>1, <1>3, <1>4 DEF TypeInv

\* Time and the agents' steps keep the types of the leases.
LEMMA LeaseTypesStep == LeaseTypes /\ [Next]_vars => LeaseTypes'
<1> SUFFICES ASSUME LeaseTypes, [Next]_vars
             PROVE  LeaseTypes'
  OBVIOUS
<1> USE DeliveryAssumption DEF LeaseTypes, AgentStates, Requests
<1>1. ASSUME NEW a \in Agents, AgentStep(a)
      PROVE  LeaseTypes'
  <2>1. PICK state \in AgentStates, next \in Requests :
            agent' = [agent EXCEPT ![a] = state] /\ request' = [request EXCEPT ![a] = next]
    BY <1>1 DEF AgentStep, Start, Beat, Send, Register, Heartbeat, Answer, RequestFails, GoDown
  <2>2. /\ up' = up
        /\ seen' \in {seen, [seen EXCEPT ![a] = 0]} /\ since' \in {since, [since EXCEPT ![a] = 0]}
    BY <1>1 DEF AgentStep, Start, Beat, Send, Register, Heartbeat, Answer, RequestFails, GoDown
  <2> QED BY <2>1, <2>2
<1>2. ASSUME Tick
      PROVE  LeaseTypes'
  <2>1. UNCHANGED <<up, agent, request>>
    BY <1>2 DEF Tick
  <2>2. \A a \in Agents : seen'[a] \in 0..(Lease + 1)
    <3> TAKE a \in Agents
    <3>1. seen[a] + 1 \in Nat /\ Lease + 1 \in Nat
      OBVIOUS
    <3>2. seen'[a] = Min({seen[a] + 1, Lease + 1})
      BY <1>2 DEF Tick
    <3> QED BY <3>1, <3>2, MinOfTwo
  <2>3. seen' \in [Agents -> 0..(Lease + 1)]
    BY <1>2, <2>2 DEF Tick
  <2>4. since' \in [Agents -> Nat]
    BY <1>2 DEF Tick
  <2> QED BY <2>1, <2>3, <2>4
<1>3. ASSUME \/ \E e \in Events : NewEvent(e)
             \/ StartRound
             \/ \E item \in round : TaskStep(item) \/ DatabaseError(item)
             \/ ServiceStarts
             \/ UNCHANGED vars
      PROVE  LeaseTypes'
  <2>1. UNCHANGED agentVars /\ up' \in {up, TRUE, FALSE}
    BY <1>3 DEF NewEvent, StartRound, TaskStep, PostAccepted, PostFails, Delivered, Failed,
                DatabaseError, ServiceStarts, vars
  <2> QED BY <2>1 DEF agentVars
<1>4. ASSUME ServiceStops
      PROVE  LeaseTypes'
  BY <1>4 DEF ServiceStops
<1> QED BY <1>1, <1>2, <1>3, <1>4 DEF Next

\* A task belongs to the round that was current when it started.
LEMMA RoundTypesStep == TypeInv /\ [Next]_vars => RoundTypes'
<1> SUFFICES ASSUME TypeInv, [Next]_vars
             PROVE  RoundTypes'
  OBVIOUS
<1> USE DeliveryAssumption DEF TypeInv, RoundTypes
<1>1. ASSUME StartRound
      PROVE  RoundTypes'
  <2> DEFINE task(e) == [event |-> e, step |-> IF Online(To[e]) THEN "post" ELSE "failed",
                         number |-> current]
  <2>1. \A e \in ListDue : task(e) \in Item
    BY DEF ListDue, EventTypes, Item, Steps
  <2>2. round' = round \cup {task(e) : e \in ListDue}
        /\ UNCHANGED <<current, outages, lost, stops>>
    BY <1>1 DEF StartRound, faults
  <2> HIDE DEF task
  <2> QED BY <2>1, <2>2
<1>2. ASSUME NEW item \in round, NEW step \in Steps, Proceed(item, step), current' = current,
             outages' \in Nat, lost' \in Nat, stops' \in Nat
      PROVE  RoundTypes'
  <2>1. [item EXCEPT !.step = step] \in Item
    BY DEF Item
  <2> QED BY <1>2, <2>1 DEF Proceed
<1>3. ASSUME NEW item \in round, PostAccepted(item) \/ PostFails(item)
      PROVE  RoundTypes'
  BY <1>2, <1>3 DEF PostAccepted, PostFails, Steps, faults
<1>4. ASSUME NEW item \in round, Delivered(item) \/ Failed(item)
      PROVE  RoundTypes'
  BY <1>4 DEF Delivered, Failed, faults
<1>5. ASSUME NEW item \in round, DatabaseError(item)
      PROVE  RoundTypes'
  <2>1. round' \subseteq round /\ UNCHANGED <<outages, lost, stops>>
    BY <1>5 DEF DatabaseError, faults
  <2>2. current' \in 0..MaxFaults
    BY <1>5 DEF DatabaseError, Room
  <2> QED BY <2>1, <2>2
<1>6. ASSUME ServiceStops
      PROVE  RoundTypes'
  BY <1>6 DEF ServiceStops, faults
<1>7. ASSUME \/ \E a \in Agents : AgentStep(a)
             \/ \E e \in Events : NewEvent(e)
             \/ ServiceStarts \/ Tick \/ UNCHANGED vars
      PROVE  RoundTypes'
  <2>1. UNCHANGED <<round, current>>
    BY <1>7 DEF AgentStep, Start, Beat, Send, Register, Heartbeat, Answer, RequestFails, GoDown,
                NewEvent, ServiceStarts, Tick, vars
  <2>2. outages' = outages /\ lost' \in {lost, lost + 1} /\ stops' \in {stops, stops + 1}
    BY <1>7 DEF AgentStep, Start, Beat, Send, Register, Heartbeat, Answer, RequestFails, GoDown,
                NewEvent, ServiceStarts, Tick, faults, vars
  <2> QED BY <2>1, <2>2
<1> QED BY <1>1, <1>3, <1>4, <1>5, <1>6, <1>7 DEF Next, TaskStep

\* An event takes its turn when it is appended, gives it up when its attempt
\* ends, and takes it again when its wait is over.
LEMMA EventTypesStep == TypeInv /\ TaskInv /\ [Next]_vars => EventTypes'
<1> SUFFICES ASSUME TypeInv, TaskInv, [Next]_vars
             PROVE  EventTypes'
  OBVIOUS
<1> USE DeliveryAssumption
<1>0. EventTypes /\ \A item \in round : item.event \in Events /\ item.event \in pending \cup delivered
  BY DEF TypeInv, TaskInv
<1>1. ASSUME NEW e \in Events, NewEvent(e)
      PROVE  EventTypes'
  <2>1. /\ pending' = pending \cup {e} /\ due' = Append(due, e)
        /\ UNCHANGED <<delivered, wait, attempts, taken>> /\ e \notin pending /\ wait[e] = 0
    BY <1>0, <1>1 DEF NewEvent, EventTypes
  <2>2. e \notin ToSet(due)
    BY <1>0, <2>1 DEF EventTypes
  <2>3. due' \in Seq(Events) /\ Len(due') = Len(due) + 1 /\ due'[Len(due) + 1] = e
        /\ \A i \in 1..Len(due) : due'[i] = due[i]
    BY <1>0, <2>1 DEF EventTypes
  <2>4. DOMAIN due = 1..Len(due) /\ DOMAIN due' = 1..(Len(due) + 1) /\ Len(due) \in Nat
    BY <1>0, <2>3 DEF EventTypes
  <2>5. IsInjective(due')
    <3>1. \A i \in 1..Len(due) : due[i] # e
      BY <2>2, <2>4 DEF ToSet
    <3>2. \A i, j \in 1..Len(due) : due[i] = due[j] => i = j
      BY <1>0, <2>4 DEF EventTypes, IsInjective
    <3> QED BY <2>3, <2>4, <3>1, <3>2 DEF IsInjective
  <2>6. ToSet(due') = ToSet(due) \cup {e}
    <3>1. \A x \in ToSet(due') : x \in ToSet(due) \cup {e}
      BY <2>3, <2>4 DEF ToSet
    <3>2. \A x \in ToSet(due) \cup {e} : x \in ToSet(due')
      BY <2>3, <2>4 DEF ToSet
    <3> QED BY <3>1, <3>2
  <2>7. ToSet(due') = {x \in pending' : wait'[x] = 0}
    BY <1>0, <2>1, <2>6 DEF EventTypes
  <2>8. IsFiniteSet(pending')
    BY <1>0, <2>1, FS_AddElement DEF EventTypes
  <2> QED BY <1>0, <2>1, <2>3, <2>5, <2>7, <2>8 DEF EventTypes
<1>2. ASSUME NEW item \in round, Delivered(item)
      PROVE  EventTypes'
  <2> DEFINE e == item.event
  <2>1. /\ pending' = pending \ {e} /\ delivered' = delivered \cup {e}
        /\ due' = RemoveFirst(due, e) /\ wait' = [wait EXCEPT ![e] = 0]
        /\ UNCHANGED <<attempts, taken>> /\ e \in Events
    BY <1>0, <1>2 DEF Delivered
  <2> HIDE DEF e
  <2>2. due' \in Seq(Events) /\ IsInjective(due') /\ ToSet(due') = ToSet(due) \ {e}
    BY <1>0, <2>1, RemoveFirstOfInjective DEF EventTypes
  <2>3. ToSet(due') = {x \in pending' : wait'[x] = 0}
    BY <1>0, <2>1, <2>2 DEF EventTypes
  <2>4. IsFiniteSet(pending')
    BY <1>0, <2>1, FS_RemoveElement DEF EventTypes
  <2> QED BY <1>0, <2>1, <2>2, <2>3, <2>4 DEF EventTypes
<1>3. ASSUME NEW item \in round, Failed(item)
      PROVE  EventTypes'
  <2> DEFINE e == item.event
  <2>1. /\ attempts' = [attempts EXCEPT ![e] = Min({attempts[e] + 1, MaxExponent + 1})]
        /\ due' = RemoveFirst(due, e) /\ wait' = [wait EXCEPT ![e] = Delay(attempts[e] + 1)]
        /\ UNCHANGED <<pending, delivered, taken>>
        /\ e \in Events /\ e \in pending \cup delivered
    BY <1>0, <1>3 DEF Failed, EventTypes
  <2> HIDE DEF e
  <2>2. due' \in Seq(Events) /\ IsInjective(due') /\ ToSet(due') = ToSet(due) \ {e}
    BY <1>0, <2>1, RemoveFirstOfInjective DEF EventTypes
  <2>3. attempts[e] \in Nat
    BY <1>0, <2>1 DEF EventTypes
  <2>4. Delay(attempts[e] + 1) \in 1..RetryMax
    BY <2>3, DelayType
  <2>5. Min({attempts[e] + 1, MaxExponent + 1}) \in 0..(MaxExponent + 1)
    BY <2>3, MinOfTwo
  <2>6. wait' \in [Events -> 0..RetryMax] /\ attempts' \in [Events -> 0..(MaxExponent + 1)]
    BY <1>0, <2>1, <2>4, <2>5 DEF EventTypes
  <2>7. wait'[e] # 0 /\ \A x \in Events \ {e} : wait'[x] = wait[x]
    BY <1>0, <2>1, <2>4 DEF EventTypes
  <2>8. ToSet(due') = {x \in pending' : wait'[x] = 0}
    BY <1>0, <2>1, <2>2, <2>7 DEF EventTypes
  <2>9. \A x \in Events : x \notin pending' \cup delivered' => wait'[x] = 0
    BY <1>0, <2>1, <2>7 DEF EventTypes
  <2> QED BY <1>0, <2>1, <2>2, <2>6, <2>8, <2>9 DEF EventTypes
<1>4. ASSUME Tick
      PROVE  EventTypes'
  <2> DEFINE over == {e \in pending : wait[e] = 1}
  <2>1. PICK order \in SetToSeqs(over) : due' = due \o order
    BY <1>4 DEF Tick
  <2>2. /\ UNCHANGED <<pending, delivered, attempts, taken>>
        /\ wait' = [e \in Events |-> IF wait[e] = 0 THEN 0 ELSE wait[e] - 1]
    BY <1>4 DEF Tick
  <2>3. IsFiniteSet(over) /\ over \subseteq Events
    BY <1>0, FS_Subset DEF EventTypes
  <2>4. order \in Seq(Events) /\ IsInjective(order) /\ ToSet(order) = over
    <3>1. order \in Seq(over) /\ IsInjective(order) /\ ToSet(order) = over
      BY <2>3, SetToSeqsLists
    <3> QED BY <2>3, <3>1
  <2>5. ToSet(due) = {e \in pending : wait[e] = 0}
    BY <1>0 DEF EventTypes
  <2>6. wait' \in [Events -> 0..RetryMax]
    BY <1>0, <2>2 DEF EventTypes
  <2>7. ToSet(due) \cup over = {e \in pending' : wait'[e] = 0}
    BY <1>0, <2>2, <2>5 DEF EventTypes
  <2>8. ToSet(due) \cap over = {}
    BY <2>5
  <2> HIDE DEF over
  <2>9. due' \in Seq(Events) /\ IsInjective(due') /\ ToSet(due') = ToSet(due) \cup over
    BY <1>0, <2>1, <2>4, <2>8, ConcatOfInjective DEF EventTypes
  <2>10. \A x \in Events : x \notin pending' \cup delivered' => wait'[x] = 0
    BY <1>0, <2>2 DEF EventTypes
  <2> QED BY <1>0, <2>2, <2>6, <2>7, <2>9, <2>10 DEF EventTypes
<1>5. ASSUME NEW item \in round, PostAccepted(item) \/ PostFails(item)
      PROVE  EventTypes'
  <2>1. UNCHANGED eventVars /\ taken' \in [Events -> Nat]
    BY <1>0, <1>5, TakenIs DEF PostAccepted, PostFails, EventTypes
  <2> QED BY <1>0, <2>1 DEF EventTypes, eventVars
<1>6. ASSUME \/ \E a \in Agents : AgentStep(a)
             \/ StartRound
             \/ \E item \in round : DatabaseError(item)
             \/ ServiceStops \/ ServiceStarts \/ UNCHANGED vars
      PROVE  EventTypes'
  <2>1. UNCHANGED <<eventVars, taken>>
    BY <1>6 DEF AgentStep, Start, Beat, Send, Register, Heartbeat, Answer,
    RequestFails, GoDown, StartRound, DatabaseError,
                ServiceStops, ServiceStarts, vars
  <2> QED BY <1>0, <2>1 DEF EventTypes, eventVars
<1> QED BY <1>1, <1>2, <1>3, <1>4, <1>5, <1>6 DEF Next, TaskStep

\* The types of the delivery loop, and its order: an event is in the order of
\* the query exactly while it is pending and its wait is over, once.
THEOREM DeliveryTypeCorrect == Spec => []TypeOK
<1>1. TypeInv => TypeOK
  BY DEF TypeInv, LeaseTypes, EventTypes, RoundTypes, TypeOK
<1>2. TypeInv /\ TaskInv /\ [Next]_vars => TypeInv'
  BY LeaseTypesStep, EventTypesStep, RoundTypesStep DEF TypeInv
<1> QED BY <1>1, <1>2, TypeInit, TaskInit, TaskStepInv, PTL DEF Spec
=============================================================================
