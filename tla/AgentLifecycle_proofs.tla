------------------------- MODULE AgentLifecycle_proofs -------------------------
(***************************************************************************)
(* Theorems about AgentLifecycle, for all agents, however many of them are *)
(* started at once or asked for, and every bound.                          *)
(***************************************************************************)
EXTENDS AgentLifecycle, TLAPS

(***************************************************************************)
(* The queue.  A request carries a manifest the service had when it was    *)
(* asked; the steps beyond the first are those of the request in front.    *)
(***************************************************************************)
ForAgent == [op : Operations, slug : Slugs, version : Nat, auto : BOOLEAN]

QueueInv ==
    /\ ~up => queue = <<>>
    /\ work.step # "begin" => queue # <<>> /\ Holder.op # "reload"
    /\ \A i \in 1..Len(queue) : queue[i].op # "reload" => queue[i].version # 0

\* A request that is not a reload is for an agent.
LEMMA RequestTypes ==
    ASSUME NEW r \in Request
    PROVE  /\ r.auto \in BOOLEAN
           /\ r.op # "reload" =>
                r \in ForAgent /\ r.slug \in Slugs /\ r.version \in Nat /\ r.op \in Operations
BY DEF Request, ForAgent, Operations

\* The request in front.
LEMMA HolderTypes ==
    ASSUME TypeOK, queue # <<>>
    PROVE  /\ Holder \in Request /\ Holder = queue[1] /\ 1 \in 1..Len(queue)
           /\ Holder.op # "reload" =>
                Slug \in Slugs /\ Holder.version \in Nat /\ Holder.op \in Operations
<1>1. Holder \in Request /\ Holder = queue[1] /\ 1 \in 1..Len(queue)
  BY DEF TypeOK, Holder
<1> QED BY <1>1, RequestTypes DEF Slug

\* Appending a request leaves the one in front.
LEMMA EnqueueKeeps ==
    ASSUME TypeOK, QueueInv, up, UNCHANGED up, NEW r \in Request, Enqueue(r),
           r.op # "reload" => r.version # 0, UNCHANGED work
    PROVE  /\ queue' \in Seq(Request) /\ QueueInv'
           /\ queue # <<>> => queue' # <<>> /\ Holder' = Holder
           /\ Len(queue') = Len(queue) + 1 /\ queue'[Len(queue) + 1] = r
           /\ \A i \in 1..Len(queue) : queue'[i] = queue[i]
<1>1. /\ queue' \in Seq(Request) /\ Len(queue') = Len(queue) + 1
      /\ queue'[Len(queue) + 1] = r /\ \A i \in 1..Len(queue) : queue'[i] = queue[i]
      /\ Len(queue) \in Nat
  BY DEF TypeOK, Enqueue
<1>2. queue # <<>> => Head(queue') = Head(queue)
  BY <1>1 DEF TypeOK
<1>3. \A i \in 1..Len(queue') : queue'[i].op # "reload" => queue'[i].version # 0
  <2> TAKE i \in 1..Len(queue')
  <2>1. CASE i = Len(queue) + 1
    BY <1>1, <2>1
  <2>2. CASE i # Len(queue) + 1
    BY <1>1, <2>2 DEF QueueInv
  <2> QED BY <2>1, <2>2
<1>4. queue' # <<>>
  BY <1>1
<1> QED BY <1>1, <1>2, <1>3, <1>4 DEF QueueInv, Holder

\* Releasing the lock lets the next request come to the front.
LEMMA ReleaseKeeps ==
    ASSUME TypeOK, QueueInv, queue # <<>>, up, up', Release
    PROVE  /\ queue' \in Seq(Request) /\ QueueInv' /\ work' = NoWork /\ work'.step = "begin"
           /\ work' \in Work /\ toStart' \in SUBSET Slugs
           /\ Len(queue) = Len(queue') + 1
           /\ \A i \in 1..Len(queue') : queue'[i] = queue[i + 1]
<1>1. /\ queue' \in Seq(Request) /\ Len(queue) = Len(queue') + 1 /\ Len(queue') \in Nat
      /\ \A i \in 1..Len(queue') : queue'[i] = queue[i + 1]
  BY DEF TypeOK, Release
<1>2. work' = NoWork /\ work' \in Work /\ work'.step = "begin"
  BY DEF Release, NoWork, Work, Steps
<1>3. toStart' \in SUBSET Slugs
  BY DEF Release, TypeOK
<1>4. \A i \in 1..Len(queue') : queue'[i].op # "reload" => queue'[i].version # 0
  <2> TAKE i \in 1..Len(queue')
  <2>1. i + 1 \in 1..Len(queue)
    BY <1>1
  <2> QED BY <1>1, <2>1 DEF QueueInv
<1> QED BY <1>1, <1>2, <1>3, <1>4 DEF QueueInv
-----------------------------------------------------------------------------
(***************************************************************************)
(* What each step of a request may rely on: the runtime it belongs to, the *)
(* operations that lead to it, and what earlier steps of the same request  *)
(* found or did.  The service's lock is what makes it stay so.             *)
(***************************************************************************)
Starting == Holder.op \in {"start", "restart"}

Ready(step) ==
    /\ step = "image" => Starting
    /\ step \in {"write", "label", "replace", "up"} => Starting /\ Using("compose")
    /\ (step \in {"label", "replace", "up"} \/ (step = "look" /\ Starting /\ Using("compose")))
         => file[Slug] = Holder.version
    /\ step = "run" => Starting /\ Using("docker-cli")
    /\ step \in {"check", "start"} => Holder.op = "start" /\ Using("docker-cli") /\ Present
    /\ step = "halt" => /\ Holder.op # "start"
                        /\ Using("compose") => ~Starting
                        /\ Using("docker-cli") => Present
    /\ step = "discard" => Holder.op \in {"remove", "restart"} /\ Using("docker-cli")
    /\ step = "unlink" => Holder.op = "remove" /\ Using("compose") /\ ~Ours
    /\ step = "answer" => work.blind \/ Foreign \/ Kept

\* A compose container has its file.
FileInv == \A s \in Slugs :
    (container[s] # None /\ container[s].owner = "compose") => file[s] # 0

LifeInv == TypeOK /\ QueueInv /\ Ready(work.step) /\ FileInv

\* The service is not up at first.
LEMMA LifeInit == Init => LifeInv
<1> SUFFICES ASSUME Init
             PROVE  LifeInv
  OBVIOUS
<1>1. work.step = "begin" /\ work \in Work /\ queue \in Seq(Request) /\ Len(queue) = 0
  BY DEF Init, NoWork, Work, Steps
<1>2. TypeOK
  BY <1>1, LifecycleAssumption DEF Init, TypeOK
<1>3. QueueInv /\ FileInv
  BY <1>1 DEF Init, QueueInv, FileInv
<1> QED BY <1>1, <1>2, <1>3 DEF LifeInv, Ready

\* The next step of the same request, with what it relies on.
LEMMA GoKeeps ==
    ASSUME TypeOK, QueueInv, up, queue # <<>>, Holder.op # "reload", UNCHANGED up,
           NEW next \in Steps, Go(next)
    PROVE  /\ queue' \in Seq(Request) /\ QueueInv' /\ Holder' = Holder
           /\ work' \in Work /\ work'.step = next /\ work'.blind = work.blind
           /\ toStart' \in SUBSET Slugs
BY DEF TypeOK, QueueInv, Go, Work, Holder

\* What docker does to one container.
LEMMA PutTypes ==
    ASSUME TypeOK, Slug \in Slugs, NEW c \in Container \cup {None}, Put(c)
    PROVE  /\ container' \in [Slugs -> Container \cup {None}] /\ newest' \in [Slugs -> Nat]
           /\ container'[Slug] = c
           /\ \A s \in Slugs \ {Slug} : container'[s] = container[s] /\ newest'[s] = newest[s]
           /\ newest'[Slug] = IF c # None /\ c.version > newest[Slug] THEN c.version
                              ELSE newest[Slug]
<1>1. c # None => c.version \in Nat
  BY DEF Container
<1> QED BY <1>1 DEF TypeOK, Put

\* A container that was started or stopped is the same otherwise.
LEMMA SwitchTypes ==
    ASSUME TypeOK, Slug \in Slugs, Present, NEW b \in BOOLEAN
    PROVE  /\ [container[Slug] EXCEPT !.running = b] \in Container
           /\ [container[Slug] EXCEPT !.running = b] # None
           /\ [container[Slug] EXCEPT !.running = b].version = container[Slug].version
           /\ [container[Slug] EXCEPT !.running = b].owner = container[Slug].owner
           /\ [container[Slug] EXCEPT !.running = b].running = b
<1>1. container[Slug] \in Container
  BY DEF TypeOK, Present
<1>2. [container[Slug] EXCEPT !.running = b] \in Container
  BY <1>1 DEF Container
<1> QED BY <1>1, <1>2, LifecycleAssumption DEF Container

\* A container that is made is one of this runtime.
LEMMA MakeTypes ==
    ASSUME TypeOK, Slug \in Slugs, NEW version \in Nat, NEW running \in BOOLEAN,
           Make(version, running)
    PROVE  /\ container' \in [Slugs -> Container \cup {None}] /\ newest' \in [Slugs -> Nat]
           /\ container'[Slug] # None /\ container'[Slug].version = version
           /\ container'[Slug].owner = runtime
           /\ \A s \in Slugs \ {Slug} : container'[s] = container[s] /\ newest'[s] = newest[s]
           /\ newest'[Slug] = IF version > newest[Slug] THEN version ELSE newest[Slug]
<1> DEFINE c == [version |-> version, running |-> running, owner |-> runtime]
<1>1. c \in Container /\ c.version = version /\ c.owner = runtime
  BY DEF Container, TypeOK
<1>2. c # None
  BY <1>1, LifecycleAssumption
<1>3. Put(c)
  BY DEF Make
<1> HIDE DEF c
<1> QED BY <1>1, <1>2, <1>3, PutTypes
-----------------------------------------------------------------------------
\* What is left when docker's containers and the compose files have changed.
Calm == UNCHANGED <<disk, runtime, up, due, edits, crashes>>
DataTypes ==
    /\ container' \in [Slugs -> Container \cup {None}] /\ newest' \in [Slugs -> Nat]
    /\ file' \in [Slugs -> Nat] /\ registry' \in [Slugs -> Nat]

\* A request that ends, however it does, hands over a well-kept state.
LEMMA EndKeeps ==
    ASSUME LifeInv, queue # <<>>, up, Release, Calm, DataTypes, FileInv'
    PROVE  LifeInv'
<1>1. /\ queue' \in Seq(Request) /\ QueueInv' /\ work' \in Work /\ toStart' \in SUBSET Slugs
      /\ work'.step = "begin"
  BY ReleaseKeeps DEF Calm, LifeInv
<1>2. TypeOK'
  BY <1>1 DEF Calm, DataTypes, LifeInv, TypeOK
<1>3. Ready(work.step)'
  BY <1>1 DEF Ready
<1> QED BY <1>1, <1>2, <1>3 DEF LifeInv

\* So does one that goes on to a step which is ready.
LEMMA NextKeeps ==
    ASSUME LifeInv, queue # <<>>, up, Holder.op # "reload", NEW next \in Steps, Go(next),
           Calm, DataTypes, FileInv', Ready(next)'
    PROVE  LifeInv'
<1>1. /\ queue' \in Seq(Request) /\ QueueInv' /\ work' \in Work /\ work'.step = next
      /\ toStart' \in SUBSET Slugs
  BY GoKeeps DEF Calm, LifeInv
<1>2. TypeOK'
  BY <1>1 DEF Calm, DataTypes, LifeInv, TypeOK
<1>3. Ready(work.step)'
  BY <1>1
<1> QED BY <1>1, <1>2, <1>3 DEF LifeInv

\* The steps that only ask, and the two ends of a request.
LEMMA AskingSteps ==
    ASSUME LifeInv, Reload \/ Begin \/ Image \/ Look \/ Label \/ Check \/ Answer
    PROVE  LifeInv'
<1>0. /\ up /\ queue # <<>> /\ TypeOK /\ QueueInv /\ Ready(work.step) /\ FileInv
      /\ runtime \in Runtimes
  BY DEF LifeInv, TypeOK, Reload, Begin, Image, Look, Label, Check, Answer, At
<1>1. CASE Reload
  <2>1. DataTypes /\ Calm /\ FileInv'
    BY <1>0, <1>1 DEF Reload, docker, DataTypes, Calm, TypeOK, FileInv
  <2> QED BY <1>0, <1>1, <2>1, EndKeeps DEF Reload
<1>2. ASSUME UNCHANGED <<disk, registry, runtime, up, docker, file, due, edits, crashes>>
      PROVE  DataTypes /\ Calm /\ FileInv'
  BY <1>0, <1>2 DEF docker, DataTypes, Calm, TypeOK, FileInv
<1>3. CASE Begin
  <2>1. DataTypes /\ Calm /\ FileInv' /\ Holder.op \in Operations
    BY <1>0, <1>2, <1>3, HolderTypes DEF Begin
  <2>2. CASE Fail
    BY <1>0, <2>1, <2>2, EndKeeps DEF Fail
  <2>3. CASE Go("image") /\ Using("compose") /\ Starting
    <3>1. Holder' = Holder
      BY <2>3 DEF Go, Holder
    <3>2. Ready("image")'
      BY <2>3, <3>1 DEF Ready, Starting
    <3> QED BY <1>0, <1>3, <2>1, <2>3, <3>2, NextKeeps DEF Begin, Steps
  <2>4. CASE Go("look") /\ ~(Using("compose") /\ Starting)
    <3>1. Holder' = Holder /\ (Using("compose")' <=> Using("compose"))
      BY <1>3, <2>4 DEF Begin, Go, Holder, Using
    <3>2. Ready("look")'
      BY <2>4, <3>1 DEF Ready, Starting
    <3> QED BY <1>0, <1>3, <2>1, <2>4, <3>2, NextKeeps DEF Begin, Steps
  <2> QED BY <1>3, <2>2, <2>3, <2>4 DEF Begin, Starting
<1>4. CASE Image
  <2>1. DataTypes /\ Calm /\ FileInv' /\ Holder.op # "reload" /\ Starting
    BY <1>0, <1>2, <1>4 DEF Image, At, Ready, QueueInv
  <2>2. CASE Fail
    BY <1>0, <2>1, <2>2, EndKeeps DEF Fail
  <2>3. CASE Go(IF Using("compose") THEN "write" ELSE "run")
    <3> DEFINE next == IF Using("compose") THEN "write" ELSE "run"
    <3>1. /\ Holder' = Holder /\ next \in Steps
          /\ Using("compose")' <=> Using("compose")
          /\ Using("docker-cli")' <=> ~Using("compose")
      BY <1>0, <2>1, <2>3 DEF Calm, Go, Holder, Using, Steps, Runtimes
    <3>2. Ready(next)'
      BY <2>1, <3>1 DEF Ready, Starting
    <3> QED BY <1>0, <2>1, <2>3, <3>1, <3>2, NextKeeps
  <2> QED BY <1>4, <2>2, <2>3 DEF Image
<1>5. CASE Label
  <2>1. /\ DataTypes /\ Calm /\ FileInv' /\ Holder.op # "reload" /\ Starting /\ Using("compose")
        /\ file[Slug] = Holder.version
    BY <1>0, <1>2, <1>5 DEF Label, At, Ready, QueueInv
  <2>2. PICK next \in {"up", "replace"} : Go(next)
    BY <1>5 DEF Label
  <2>3. Holder' = Holder /\ file' = file /\ Using("compose")'
    BY <1>5, <2>1, <2>2 DEF Label, Go, Holder, Using
  <2>4. Ready(next)'
    BY <2>1, <2>3 DEF Ready, Starting, Slug
  <2> QED BY <1>0, <2>1, <2>2, <2>4, NextKeeps DEF Steps
<1>6. CASE Check
  <2>1. /\ DataTypes /\ Calm /\ FileInv' /\ Holder.op = "start" /\ Using("docker-cli") /\ Present
    BY <1>0, <1>2, <1>6 DEF Check, At, Ready
  <2>2. PICK next \in {"answer", "start"} : Go(next)
    BY <1>6 DEF Check
  <2>3. Holder' = Holder /\ container' = container /\ Using("docker-cli")' /\ ~Using("compose")'
    BY <1>6, <2>1, <2>2 DEF Check, docker, Go, Holder, Using
  <2>4. Present'
    BY <2>1, <2>3 DEF Present, Slug
  <2>5. Ready(next)'
    BY <2>1, <2>3, <2>4 DEF Ready, Starting, Kept
  <2> QED BY <1>0, <2>1, <2>2, <2>5, NextKeeps DEF Steps
<1>7. CASE Answer
  BY <1>0, <1>2, <1>7, EndKeeps DEF Answer
<1>8. CASE Look
  <2>1. DataTypes /\ Calm /\ FileInv' /\ Holder.op \in Operations
    BY <1>0, <1>2, <1>8, HolderTypes DEF Look, At, QueueInv
  <2>2. PICK seen \in {Present, FALSE} :
           IF MetadataMissing(seen) THEN Fail
           ELSE /\ work' = [step |-> AfterLook(seen), blind |-> seen # Present]
                /\ UNCHANGED <<queue, toStart>>
    BY <1>8 DEF Look
  <2>3. CASE Fail
    BY <1>0, <2>1, <2>3, EndKeeps DEF Fail
  <2>4. CASE /\ work' = [step |-> AfterLook(seen), blind |-> seen # Present]
             /\ UNCHANGED <<queue, toStart>>
    <3>1. /\ Holder' = Holder /\ container' = container /\ file' = file
          /\ Using("compose")' <=> Using("compose")
          /\ Using("docker-cli")' <=> ~Using("compose")
          /\ Using("docker-cli") <=> ~Using("compose")
          /\ Present' <=> Present
      BY <1>0, <1>8, <2>4 DEF Look, docker, Holder, Using, Present, Slug, Runtimes
    <3>2. AfterLook(seen) \in Steps
      BY DEF AfterLook, Steps
    <3>3. seen => Present
      BY <2>2
    <3>4. Starting /\ Using("compose") => file[Slug] = Holder.version
      BY <1>0, <1>8 DEF Look, At, Ready
    <3>5. work'.step = AfterLook(seen) /\ work'.blind = (seen # Present)
      BY <2>4
    <3>6. ASSUME AfterLook(seen) = "answer"
          PROVE  Ready(work.step)'
      <4>1. ~seen /\ ~Starting /\ Holder.op \in {"stop", "remove"}
        BY <2>1, <3>1, <3>6 DEF AfterLook, Starting, Operations
      <4>2. work'.blind \/ ~Present'
        BY <3>1, <3>5, <4>1
      <4>3. Ready("answer")'
        BY <3>1, <4>1, <4>2 DEF Ready, Kept, Starting
      <4> QED BY <3>5, <3>6, <4>3
    <3>7. ASSUME AfterLook(seen) # "answer"
          PROVE  Ready(work.step)'
      <4>1. AfterLook(seen) \in {"label", "up"} => Starting /\ Using("compose")
        BY <2>1, <3>1 DEF AfterLook, Starting, Operations
      <4>2. AfterLook(seen) = "halt" => /\ Holder.op # "start"
                                        /\ Using("compose") => ~Starting
                                        /\ Using("docker-cli") => Present
        BY <2>1, <3>1, <3>3 DEF AfterLook, Starting, Operations
      <4>3. AfterLook(seen) = "check" => Holder.op = "start" /\ Using("docker-cli") /\ Present
        BY <2>1, <3>1, <3>3 DEF AfterLook, Starting, Operations
      <4>4. AfterLook(seen) = "image" => Starting
        BY <2>1, <3>1 DEF AfterLook, Starting, Operations
      <4>5. AfterLook(seen) \in {"label", "up", "halt", "check", "image"}
        BY <3>7 DEF AfterLook
      <4>6. Ready(work.step)'
        BY <3>1, <3>4, <3>5, <4>1, <4>2, <4>3, <4>4, <4>5 DEF Ready, Starting, Slug
      <4> QED BY <4>6
    <3>8. Ready(work.step)'
      BY <3>5, <3>6, <3>7
    <3>9. work' \in Work /\ queue' = queue /\ toStart' = toStart
      BY <2>4, <3>2 DEF Work
    <3>10. TypeOK'
      BY <1>0, <2>1, <3>9 DEF Calm, DataTypes, TypeOK
    <3>11. QueueInv'
      BY <1>0, <2>1, <3>1, <3>9 DEF Calm, QueueInv, Operations
    <3> QED BY <2>1, <3>8, <3>10, <3>11 DEF LifeInv
  <2> QED BY <2>2, <2>3, <2>4
<1> QED BY <1>1, <1>3, <1>4, <1>5, <1>6, <1>7, <1>8

\* The steps at which a command changes a container or a compose file.
Acting == {"halt", "discard", "write", "replace", "up", "unlink", "start", "run"}

\* What holds at such a step.
LEMMA ActingFacts ==
    ASSUME LifeInv, up, queue # <<>>, work.step \in Acting
    PROVE  /\ TypeOK /\ QueueInv /\ Ready(work.step) /\ FileInv /\ runtime \in Runtimes
           /\ Holder.op # "reload" /\ Holder.op \in Operations
           /\ Slug \in Slugs /\ Holder.version \in Nat /\ Holder.version # 0
<1>1. /\ TypeOK /\ QueueInv /\ Ready(work.step) /\ FileInv /\ runtime \in Runtimes
      /\ Holder.op # "reload"
  BY DEF LifeInv, TypeOK, QueueInv, Acting
<1>2. /\ Holder = queue[1] /\ 1 \in 1..Len(queue)
      /\ Slug \in Slugs /\ Holder.version \in Nat /\ Holder.op \in Operations
  BY <1>1, HolderTypes
<1>3. Holder.version # 0
  BY <1>1, <1>2 DEF QueueInv
<1> QED BY <1>1, <1>2, <1>3

\* A container that changes hands needs the file of its new maker only.
LEMMA PutKeeps ==
    ASSUME LifeInv, Slug \in Slugs, NEW c \in Container \cup {None}, Put(c),
           UNCHANGED <<file, registry>>,
           (c # None /\ c.owner = "compose") => file[Slug] # 0
    PROVE  DataTypes /\ FileInv' /\ container'[Slug] = c
BY PutTypes DEF LifeInv, TypeOK, DataTypes, FileInv

LEMMA MakeKeeps ==
    ASSUME LifeInv, Slug \in Slugs, NEW version \in Nat, NEW running \in BOOLEAN,
           Make(version, running), UNCHANGED <<file, registry>>,
           runtime = "compose" => file[Slug] # 0
    PROVE  /\ DataTypes /\ FileInv' /\ container'[Slug] # None
           /\ container'[Slug].version = version /\ container'[Slug].owner = runtime
BY MakeTypes DEF LifeInv, TypeOK, DataTypes, FileInv

\* Nothing has changed when a command did not have its effect.
LEMMA IdleKeeps ==
    ASSUME LifeInv, UNCHANGED <<docker, file, registry>>
    PROVE  DataTypes /\ FileInv'
BY DEF LifeInv, TypeOK, docker, DataTypes, FileInv

\* Stopping and removing.
LEMMA StoppingSteps ==
    ASSUME LifeInv, Halt \/ Discard \/ Replace \/ Unlink
    PROVE  LifeInv'
<1>0. /\ up /\ queue # <<>> /\ Calm
      /\ TypeOK /\ QueueInv /\ Ready(work.step) /\ FileInv /\ runtime \in Runtimes
      /\ Holder.op # "reload" /\ Holder.op \in Operations /\ Slug \in Slugs
  BY ActingFacts DEF Halt, Discard, Replace, Unlink, At, Acting, Calm
<1>1. CASE Halt
  <2>1. /\ Holder.op # "start" /\ Holder.op \in {"stop", "remove", "restart"}
        /\ Using("compose") => ~Starting
        /\ Using("docker-cli") => Present
        /\ UNCHANGED <<file, registry>>
    BY <1>0, <1>1 DEF Halt, At, Ready, Operations
  <2>2. PICK next \in Steps : next = AfterHalt
    BY DEF AfterHalt, Steps
  <2>3. CASE Fail /\ UNCHANGED docker
    BY <1>0, <2>1, <2>3, IdleKeeps, EndKeeps DEF Fail
  <2>4. ASSUME Using("compose"), ~Ours, UNCHANGED docker, Go(next)
        PROVE  LifeInv'
    <3>1. DataTypes /\ FileInv'
      BY <2>1, <2>4, IdleKeeps
    <3>2. Holder' = Holder /\ container' = container /\ runtime' = runtime
      BY <1>0, <2>4 DEF Calm, docker, Go, Holder
    <3>3. /\ next = IF Holder.op = "stop" THEN "answer" ELSE "unlink"
          /\ Holder.op \in {"stop", "remove"}
      BY <2>1, <2>2, <2>4 DEF AfterHalt, Starting
    <3>4. CASE Present
      <4>1. Foreign' /\ ~Ours'
        BY <2>4, <3>2, <3>4 DEF Foreign, Ours, Present, Using, Slug
      <4>2. Ready(next)'
        BY <2>4, <3>2, <3>3, <4>1 DEF Ready, Using, Starting
      <4> QED BY <1>0, <2>2, <2>4, <3>1, <4>2, NextKeeps
    <3>5. CASE ~Present
      <4>1. ~Present' /\ ~Ours'
        BY <3>2, <3>5 DEF Ours, Present, Slug
      <4>2. Ready(next)'
        BY <2>4, <3>2, <3>3, <4>1 DEF Ready, Using, Starting, Kept
      <4> QED BY <1>0, <2>2, <2>4, <3>1, <4>2, NextKeeps
    <3> QED BY <3>4, <3>5
  <2>5. ASSUME Using("compose"), Holder.op = "remove", Put(None), Go(next)
        PROVE  LifeInv'
    <3>1. DataTypes /\ FileInv' /\ container'[Slug] = None
      BY <1>0, <2>1, <2>5, PutKeeps
    <3>2. Holder' = Holder /\ runtime' = runtime /\ next = "unlink"
      BY <1>0, <2>2, <2>5 DEF Calm, Go, Holder, AfterHalt
    <3>3. ~Ours'
      BY <3>1, <3>2 DEF Ours, Present, Slug
    <3>4. Ready("unlink")'
      BY <2>5, <3>2, <3>3 DEF Ready, Using, Starting
    <3> QED BY <1>0, <2>2, <2>5, <3>1, <3>2, <3>4, NextKeeps
  <2>6. ASSUME Present, Put([container[Slug] EXCEPT !.running = FALSE]),
               Using("compose") => Holder.op = "stop"
        PROVE  /\ DataTypes /\ FileInv'
               /\ Go(next) => LifeInv'
    <3> DEFINE c == [container[Slug] EXCEPT !.running = FALSE]
    <3>1. /\ c \in Container /\ c # None /\ c.owner = container[Slug].owner
          /\ c.running = FALSE
      BY <1>0, <2>6, SwitchTypes
    <3>2. c.owner = "compose" => file[Slug] # 0
      BY <1>0, <2>6, <3>1 DEF FileInv, Present
    <3>3. Put(c)
      BY <2>6
    <3> HIDE DEF c
    <3>4. DataTypes /\ FileInv' /\ container'[Slug] = c
      BY <1>0, <2>1, <3>1, <3>2, <3>3, PutKeeps
    <3>5. ASSUME Go(next)
          PROVE  LifeInv'
      <4>1. /\ Holder' = Holder /\ runtime' = runtime
            /\ Using("docker-cli") <=> ~Using("compose")
        BY <1>0, <3>5 DEF Calm, Go, Holder, Using, Runtimes
      <4>2. next = IF Holder.op = "stop" THEN "answer" ELSE "discard"
        BY <2>2, <2>6 DEF AfterHalt
      <4>3. Holder.op = "stop" => Kept'
        BY <3>1, <3>4, <4>1 DEF Kept, Present, Slug
      <4>4. Ready(next)'
        BY <2>1, <2>6, <4>1, <4>2, <4>3 DEF Ready, Using, Starting
      <4> QED BY <1>0, <2>2, <3>4, <3>5, <4>4, NextKeeps
    <3> QED BY <3>4, <3>5
  <2>7. CASE ~(Using("compose") /\ file[Slug] = 0)
    <3>1. Command(IF Using("compose") /\ ~Ours THEN UNCHANGED docker
                  ELSE IF Using("compose") /\ Holder.op = "remove" THEN Put(None)
                  ELSE Put([container[Slug] EXCEPT !.running = FALSE]),
                  UNCHANGED docker, next)
      BY <1>1, <2>2, <2>7 DEF Halt
    <3>2. CASE Using("compose") /\ ~Ours
      BY <2>3, <2>4, <3>1, <3>2 DEF Command
    <3>3. CASE Using("compose") /\ Ours /\ Holder.op = "remove"
      <4>1. Put(None) /\ Fail => LifeInv'
        BY <1>0, <2>1, PutKeeps, EndKeeps DEF Fail
      <4> QED BY <2>3, <2>5, <3>1, <3>3, <4>1 DEF Command
    <3>4. CASE ~(Using("compose") /\ ~Ours) /\ ~(Using("compose") /\ Holder.op = "remove")
      <4>1. Present /\ (Using("compose") => Holder.op = "stop")
        BY <1>0, <2>1, <3>4 DEF Ours, Using, Runtimes, Starting
      <4>2. Put([container[Slug] EXCEPT !.running = FALSE]) /\ Fail => LifeInv'
        BY <1>0, <2>6, <4>1, EndKeeps DEF Fail
      <4> QED BY <2>3, <2>6, <3>1, <3>4, <4>1, <4>2 DEF Command
    <3> QED BY <3>2, <3>3, <3>4
  <2> QED BY <1>1, <2>3, <2>7 DEF Halt
<1>2. CASE Discard
  <2>0. PICK next \in Steps : next = IF Holder.op = "restart" THEN "image" ELSE "answer"
    BY DEF Steps
  <2>1. /\ Holder.op \in {"remove", "restart"} /\ UNCHANGED <<file, registry>>
        /\ Command(Put(None), UNCHANGED docker, next)
    BY <1>0, <1>2, <2>0 DEF Discard, At, Ready
  <2>2. CASE UNCHANGED docker /\ Fail
    BY <1>0, <2>1, <2>2, IdleKeeps, EndKeeps DEF Fail
  <2>3. CASE Put(None) /\ Fail
    BY <1>0, <2>1, <2>3, PutKeeps, EndKeeps DEF Fail
  <2>4. CASE Put(None) /\ Go(next)
    <3>1. DataTypes /\ FileInv' /\ container'[Slug] = None
      BY <1>0, <2>1, <2>4, PutKeeps
    <3>2. Holder' = Holder
      BY <2>4 DEF Go, Holder
    <3>3. Holder.op = "remove" => Kept'
      BY <3>1, <3>2 DEF Kept, Present, Slug
    <3>4. Ready(next)'
      BY <2>0, <2>1, <3>2, <3>3 DEF Ready, Starting
    <3> QED BY <1>0, <2>4, <3>1, <3>4, NextKeeps
  <2> QED BY <2>1, <2>2, <2>3, <2>4 DEF Command
<1>3. CASE Replace
  <2>1. /\ UNCHANGED <<file, registry>> /\ Command(Put(None), UNCHANGED docker, "up")
        /\ Starting /\ Using("compose") /\ file[Slug] = Holder.version
    BY <1>0, <1>3 DEF Replace, At, Ready
  <2>2. CASE UNCHANGED docker /\ Fail
    BY <1>0, <2>1, <2>2, IdleKeeps, EndKeeps DEF Fail
  <2>3. CASE Put(None) /\ Fail
    BY <1>0, <2>1, <2>3, PutKeeps, EndKeeps DEF Fail
  <2>4. CASE Put(None) /\ Go("up")
    <3>1. DataTypes /\ FileInv'
      BY <1>0, <2>1, <2>4, PutKeeps
    <3>2. Holder' = Holder /\ file' = file /\ runtime' = runtime
      BY <1>0, <2>1, <2>4 DEF Go, Holder, Calm
    <3>3. Ready("up")'
      BY <2>1, <3>2 DEF Ready, Starting, Using, Slug
    <3> QED BY <1>0, <2>4, <3>1, <3>3, NextKeeps DEF Steps
  <2> QED BY <2>1, <2>2, <2>3, <2>4 DEF Command
<1>4. CASE Unlink
  <2>1. /\ Holder.op = "remove" /\ Using("compose") /\ ~Ours /\ Go("answer")
        /\ file' = [file EXCEPT ![Slug] = 0] /\ UNCHANGED <<docker, registry>>
    BY <1>0, <1>4 DEF Unlink, At, Ready
  <2>2. /\ Holder' = Holder /\ container' = container /\ runtime' = runtime
    BY <1>0, <2>1 DEF Go, Holder, Calm, docker
  <2>3. FileInv'
    <3>1. ~(container[Slug] # None /\ container[Slug].owner = "compose")
      BY <2>1 DEF Ours, Present, Using
    <3>2. \A s \in Slugs \ {Slug} : file'[s] = file[s]
      BY <1>0, <2>1 DEF TypeOK
    <3> QED BY <1>0, <2>2, <3>1, <3>2 DEF FileInv
  <2>4. DataTypes
    BY <1>0, <2>1 DEF docker, TypeOK, DataTypes
  <2>5. Foreign' \/ Kept'
    BY <2>1, <2>2 DEF Foreign, Kept, Ours, Present, Using, Slug
  <2>6. Ready("answer")'
    BY <2>5 DEF Ready
  <2> QED BY <1>0, <2>1, <2>3, <2>4, <2>6, NextKeeps DEF Steps
<1> QED BY <1>1, <1>2, <1>3, <1>4

\* Writing the compose file, making and starting.
LEMMA StartingSteps ==
    ASSUME LifeInv, WriteFile \/ Up \/ StartExisting \/ Run
    PROVE  LifeInv'
<1>0. /\ up /\ queue # <<>> /\ Calm
      /\ TypeOK /\ QueueInv /\ Ready(work.step) /\ FileInv /\ runtime \in Runtimes
      /\ Holder.op # "reload" /\ Holder.op \in Operations /\ Slug \in Slugs
      /\ Holder.version \in Nat /\ Holder.version # 0
  BY ActingFacts DEF WriteFile, Up, StartExisting, Run, At, Acting, Calm
<1>1. CASE WriteFile
  <2>1. /\ Starting /\ Using("compose") /\ UNCHANGED <<docker, registry>>
        /\ file' = [file EXCEPT ![Slug] = Holder.version]
    BY <1>0, <1>1 DEF WriteFile, At, Ready
  <2>2. /\ DataTypes /\ file'[Slug] = Holder.version
        /\ \A s \in Slugs \ {Slug} : file'[s] = file[s]
    BY <1>0, <2>1 DEF DataTypes, docker, TypeOK
  <2>3. FileInv'
    BY <1>0, <2>1, <2>2 DEF FileInv, docker
  <2>4. CASE Fail
    BY <1>0, <2>2, <2>3, <2>4, EndKeeps DEF Fail
  <2>5. CASE Go("look")
    <3>1. Holder' = Holder
      BY <2>5 DEF Go, Holder
    <3>2. Ready("look")'
      BY <2>2, <3>1 DEF Ready, Slug
    <3> QED BY <1>0, <2>2, <2>3, <2>5, <3>2, NextKeeps DEF Steps
  <2> QED BY <1>1, <2>4, <2>5 DEF WriteFile
<1>2. ASSUME Go("answer"), Kept'
      PROVE  Ready("answer")'
  BY <1>2 DEF Ready
<1>3. CASE Up
  <2>1. /\ UNCHANGED <<file, registry>> /\ Starting /\ Using("compose")
        /\ file[Slug] = Holder.version
    BY <1>0, <1>3 DEF Up, At, Ready
  <2>2. CASE Fail /\ UNCHANGED docker
    BY <1>0, <2>1, <2>2, IdleKeeps, EndKeeps DEF Fail
  <2>3. CASE Put(None) /\ Fail
    BY <1>0, <2>1, <2>3, PutKeeps, EndKeeps DEF Fail
  <2>4. ASSUME NEW running \in BOOLEAN, Make(file[Slug], running)
        PROVE  /\ DataTypes /\ FileInv'
               /\ Go("answer") => LifeInv'
    <3>1. PICK version \in Nat : version = file[Slug]
      BY <1>0, <2>1
    <3>2. Make(version, running)
      BY <2>4, <3>1
    <3>3. /\ DataTypes /\ FileInv' /\ container'[Slug] # None
          /\ container'[Slug].version = version
      BY <1>0, <2>1, <3>1, <3>2, MakeKeeps
    <3>4. ASSUME Go("answer")
          PROVE  LifeInv'
      <4>1. Holder' = Holder
        BY <3>4 DEF Go, Holder
      <4>2. Kept'
        BY <2>1, <3>1, <3>3, <4>1 DEF Kept, Present, Slug, Starting
      <4> QED BY <1>0, <1>2, <3>3, <3>4, <4>2, NextKeeps DEF Steps
    <3> QED BY <3>3, <3>4
  <2>5. ASSUME NEW running \in BOOLEAN, Make(file[Slug], running) /\ Fail
        PROVE  LifeInv'
    BY <1>0, <2>4, <2>5, EndKeeps DEF Fail
  <2> QED BY <1>3, <2>2, <2>3, <2>4, <2>5 DEF Up, Command
<1>4. CASE StartExisting
  <2> DEFINE c == [container[Slug] EXCEPT !.running = TRUE]
  <2>1. /\ UNCHANGED <<file, registry>> /\ Holder.op = "start" /\ Using("docker-cli") /\ Present
        /\ Command(Put(c), UNCHANGED docker, "answer")
    BY <1>0, <1>4 DEF StartExisting, At, Ready
  <2>2. c \in Container /\ c # None /\ (c.owner = "compose" => file[Slug] # 0)
    BY <1>0, <2>1, SwitchTypes DEF FileInv, Present
  <2> HIDE DEF c
  <2>3. CASE Fail /\ UNCHANGED docker
    BY <1>0, <2>1, <2>3, IdleKeeps, EndKeeps DEF Fail
  <2>4. ASSUME Put(c)
        PROVE  /\ DataTypes /\ FileInv' /\ container'[Slug] # None
    BY <1>0, <2>1, <2>2, <2>4, PutKeeps
  <2>5. CASE Put(c) /\ Fail
    BY <1>0, <2>4, <2>5, EndKeeps DEF Fail
  <2>6. CASE Put(c) /\ Go("answer")
    <3>1. Holder' = Holder /\ runtime' = runtime
      BY <1>0, <2>6 DEF Calm, Go, Holder
    <3>2. Kept'
      BY <2>1, <2>4, <2>6, <3>1 DEF Kept, Present, Slug, Using
    <3> QED BY <1>0, <1>2, <2>4, <2>6, <3>2, NextKeeps DEF Steps
  <2> QED BY <2>1, <2>3, <2>5, <2>6 DEF Command
<1>5. CASE Run
  <2>1. UNCHANGED <<file, registry>> /\ Starting /\ Using("docker-cli")
    BY <1>0, <1>5 DEF Run, At, Ready
  <2>2. CASE Fail /\ UNCHANGED docker
    BY <1>0, <2>1, <2>2, IdleKeeps, EndKeeps DEF Fail
  <2>3. PICK version \in Nat : version = Holder.version
    BY <1>0
  <2>4. ASSUME NEW running \in BOOLEAN, Make(version, running)
        PROVE  /\ DataTypes /\ FileInv' /\ container'[Slug] # None
               /\ container'[Slug].version = version
    BY <1>0, <2>1, <2>4, MakeKeeps DEF Using
  <2>5. ASSUME NEW running \in BOOLEAN, Make(version, running), Fail
        PROVE  LifeInv'
    BY <1>0, <2>4, <2>5, EndKeeps DEF Fail
  <2>6. CASE Make(version, TRUE) /\ Go("answer")
    <3>1. Holder' = Holder
      BY <2>6 DEF Go, Holder
    <3>2. Kept'
      BY <2>1, <2>3, <2>4, <2>6, <3>1 DEF Kept, Present, Slug, Starting
    <3> QED BY <1>0, <1>2, <2>4, <2>6, <3>2, NextKeeps DEF Steps
  <2> QED BY <1>5, <2>2, <2>3, <2>5, <2>6 DEF Run, Command
<1> QED BY <1>1, <1>3, <1>4, <1>5

\* What a step relies on stays so while other requests queue up.
LEMMA ReadyStays ==
    ASSUME LifeInv, UNCHANGED <<runtime, work, container, file>>,
           work.step # "begin" => Holder' = Holder
    PROVE  Ready(work.step)'
<1>1. CASE work.step = "begin"
  BY <1>1 DEF Ready
<1>2. CASE work.step # "begin"
  BY <1>2 DEF LifeInv, Ready, Starting, Using, Slug, Present, Ours, Foreign, Kept
<1> QED BY <1>1, <1>2

\* A request that is asked for is a well-formed one.
LEMMA AskedFor ==
    ASSUME LifeInv, up, UNCHANGED up, NEW r \in Request, Enqueue(r),
           r.op # "reload" => r.version # 0,
           UNCHANGED <<disk, registry, runtime, work, docker, file, edits, crashes>>,
           due' \in BOOLEAN, toStart' \in SUBSET Slugs
    PROVE  LifeInv'
<1>1. /\ queue' \in Seq(Request) /\ QueueInv'
      /\ queue # <<>> => Holder' = Holder
  BY EnqueueKeeps DEF LifeInv
<1>2. TypeOK'
  BY <1>1 DEF LifeInv, TypeOK, docker
<1>3. Ready(work.step)'
  BY <1>1, ReadyStays DEF docker, LifeInv, QueueInv
<1>4. FileInv'
  BY DEF LifeInv, FileInv, docker
<1> QED BY <1>1, <1>2, <1>3, <1>4 DEF LifeInv

\* An agent's request of a manifest number.
LEMMA AgentRequest ==
    ASSUME TypeOK, NEW op \in Operations, NEW s \in Slugs, NEW auto \in BOOLEAN
    PROVE  [op |-> op, slug |-> s, version |-> registry[s], auto |-> auto] \in Request
<1>1. registry[s] \in Nat
  BY DEF TypeOK
<1> QED BY <1>1 DEF Request

\* The rest of the service and what surrounds it.
LEMMA OtherSteps ==
    ASSUME LifeInv,
           \/ \E chosen \in Runtimes : Boot(chosen)
           \/ Crash \/ Pass \/ PassNext \/ AskReload
           \/ \E s \in Slugs : Exit(s)
           \/ \E s \in Asked : \/ \E valid \in BOOLEAN : Edit(s, valid)
                               \/ \E op \in Operations : Ask(op, s)
    PROVE  LifeInv'
<1>0. TypeOK /\ QueueInv /\ Ready(work.step) /\ FileInv
  BY DEF LifeInv
<1>1. ASSUME NEW chosen \in Runtimes, Boot(chosen)
      PROVE  LifeInv'
  <2>1. queue = <<>> /\ work.step = "begin"
    BY <1>0, <1>1 DEF Boot, QueueInv
  <2>2. TypeOK' /\ QueueInv' /\ FileInv'
    BY <1>0, <1>1, <2>1 DEF Boot, docker, TypeOK, QueueInv, FileInv
  <2>3. Ready(work.step)'
    BY <1>1, <2>1 DEF Boot, Ready
  <2> QED BY <2>2, <2>3 DEF LifeInv
<1>2. CASE Crash
  <2>1. work' \in Work /\ work'.step = "begin" /\ queue' \in Seq(Request) /\ Len(queue') = 0
    BY <1>2 DEF Crash, NoWork, Work, Steps
  <2>2. TypeOK'
    <3>1. toStart' = {} /\ due' = FALSE /\ up' = FALSE
      BY <1>2 DEF Crash
    <3>2. UNCHANGED <<disk, registry, runtime, docker, file, edits>>
      BY <1>2 DEF Crash
    <3>3. crashes' \in Nat
      BY <1>0, <1>2 DEF Crash, TypeOK
    <3> QED BY <1>0, <2>1, <3>1, <3>2, <3>3 DEF docker, TypeOK
  <2>3. FileInv'
    BY <1>0, <1>2 DEF Crash, docker, FileInv
  <2>4. QueueInv' /\ Ready(work.step)'
    BY <1>2, <2>1 DEF Crash, QueueInv, Ready
  <2> QED BY <2>2, <2>3, <2>4 DEF LifeInv
<1>3. CASE Pass
  <2>1. {s \in AutoStart : registry[s] # 0} \subseteq Slugs
    BY LifecycleAssumption
  <2>2. TypeOK' /\ FileInv' /\ QueueInv'
    BY <1>0, <1>3, <2>1 DEF Pass, docker, TypeOK, FileInv, QueueInv, Holder
  <2>3. Ready(work.step)'
    BY <1>3, ReadyStays DEF Pass, docker, Holder
  <2> QED BY <2>2, <2>3 DEF LifeInv
<1>4. CASE PassNext
  <2>1. PICK s \in toStart :
           IF registry[s] = 0
             THEN toStart' = toStart \ {s} /\ UNCHANGED queue
             ELSE /\ Enqueue([op |-> "start", slug |-> s, version |-> registry[s], auto |-> TRUE])
                  /\ UNCHANGED toStart
    BY <1>4 DEF PassNext
  <2>2. s \in Slugs /\ toStart' \in SUBSET Slugs
    BY <1>0, <2>1 DEF TypeOK
  <2>3. CASE registry[s] = 0
    <3>1. TypeOK' /\ FileInv' /\ QueueInv'
      BY <1>0, <1>4, <2>1, <2>2, <2>3 DEF PassNext, docker, TypeOK, FileInv, QueueInv, Holder
    <3>2. Ready(work.step)'
      BY <1>4, <2>1, <2>3, ReadyStays DEF PassNext, docker, Holder
    <3> QED BY <3>1, <3>2 DEF LifeInv
  <2>4. CASE registry[s] # 0
    <3> DEFINE r == [op |-> "start", slug |-> s, version |-> registry[s], auto |-> TRUE]
    <3>1. r \in Request /\ r.version # 0
      BY <1>0, <2>2, <2>4, AgentRequest DEF Operations
    <3>2. Enqueue(r)
      BY <2>1, <2>4
    <3>3. PICK request \in Request : request = r
      BY <3>1
    <3> HIDE DEF r
    <3> QED BY <1>0, <1>4, <2>2, <3>1, <3>2, <3>3, AskedFor DEF PassNext, docker, TypeOK
  <2> QED BY <2>3, <2>4
<1>5. CASE AskReload
  <2>1. [op |-> "reload", auto |-> FALSE] \in Request
    BY DEF Request
  <2> QED BY <1>0, <1>5, <2>1, AskedFor DEF AskReload, docker, TypeOK
<1>6. ASSUME NEW s \in Slugs, Exit(s)
      PROVE  LifeInv'
  <2>1. container[s] \in Container /\ container[s] # None
    BY <1>0, <1>6 DEF Exit, TypeOK
  <2> DEFINE c == [container[s] EXCEPT !.running = FALSE]
  <2>2. /\ c \in Container /\ c.running = FALSE /\ c.owner = container[s].owner
        /\ c.version = container[s].version
    BY <2>1 DEF Container
  <2>3. c # None
    BY <2>2, LifecycleAssumption
  <2>4. container' = [container EXCEPT ![s] = c]
    BY <1>6 DEF Exit
  <2> HIDE DEF c
  <2>5. container'[s] = c /\ \A r \in Slugs \ {s} : container'[r] = container[r]
    BY <1>0, <2>4 DEF TypeOK
  <2>6. TypeOK' /\ FileInv' /\ QueueInv'
    BY ZenonT(60), <1>0, <1>6, <2>1, <2>2, <2>4, <2>5 DEF Exit, docker, TypeOK, FileInv, QueueInv, Holder
  <2>7. Ready(work.step)'
    <3>1. CASE work.step = "begin"
      BY <1>6, <3>1 DEF Exit, Ready
    <3>2. CASE work.step # "begin"
      <4>1. Slug \in Slugs /\ Holder' = Holder /\ Slug' = Slug /\ Holder.op \in Operations
        BY <1>0, <1>6, <3>2, HolderTypes DEF Exit, QueueInv, Holder, Slug
      <4>2. /\ Present' <=> Present
            /\ Ours' <=> Ours
            /\ Present => /\ container'[Slug].version = container[Slug].version
                          /\ ~container[Slug].running => ~container'[Slug].running
        BY <1>6, <2>1, <2>2, <2>3, <2>5, <4>1 DEF Exit, Present, Ours
      <4>3. (Foreign => Foreign') /\ (Kept => Kept')
        BY <1>6, <4>1, <4>2 DEF Exit, Foreign, Kept, Using, Operations
      <4>4. work.step = "answer" => work.blind \/ Foreign' \/ Kept'
        BY <1>0, <4>3 DEF Ready
      <4> QED BY <1>0, <1>6, <4>1, <4>2, <4>4 DEF Exit, Ready, Starting, Using
    <3> QED BY <3>1, <3>2
  <2> QED BY <2>6, <2>7 DEF LifeInv
<1>7. ASSUME NEW s \in Asked, NEW valid \in BOOLEAN, Edit(s, valid)
      PROVE  LifeInv'
  <2>1. s \in Slugs
    BY LifecycleAssumption
  <2>2. TypeOK' /\ FileInv' /\ QueueInv'
    BY SMTT(30), <1>0, <1>7, <2>1 DEF Edit, docker, TypeOK, FileInv, QueueInv, Holder
  <2>3. Ready(work.step)'
    BY <1>7, ReadyStays DEF Edit, docker, Holder
  <2> QED BY <2>2, <2>3 DEF LifeInv
<1>8. ASSUME NEW s \in Asked, NEW op \in Operations, Ask(op, s)
      PROVE  LifeInv'
  <2> DEFINE r == [op |-> op, slug |-> s, version |-> registry[s], auto |-> FALSE]
  <2>1. r \in Request /\ r.version # 0
    BY <1>0, <1>8, AgentRequest, LifecycleAssumption DEF Ask
  <2>2. Enqueue(r)
    BY <1>8 DEF Ask
  <2> HIDE DEF r
  <2>3. PICK request \in Request : request = r
    BY <2>1
  <2> QED BY <1>0, <1>8, <2>1, <2>2, <2>3, AskedFor DEF Ask, docker, TypeOK
<1> QED BY <1>1, <1>2, <1>3, <1>4, <1>5, <1>6, <1>7, <1>8

\* Every step keeps what the steps rely on.
LEMMA LifeStep == LifeInv /\ [Next]_vars => LifeInv'
<1> SUFFICES ASSUME LifeInv, [Next]_vars
             PROVE  LifeInv'
  OBVIOUS
<1>1. CASE UNCHANGED vars
  <2>1. TypeOK' /\ FileInv' /\ QueueInv'
    BY <1>1 DEF vars, docker, LifeInv, TypeOK, FileInv, QueueInv, Holder
  <2>2. Ready(work.step)'
    BY <1>1, ReadyStays DEF vars, docker, Holder
  <2> QED BY <2>1, <2>2 DEF LifeInv
<1> QED BY <1>1, AskingSteps, StoppingSteps, StartingSteps, OtherSteps DEF Next, Serve

\* Every variable has its type.
THEOREM LifecycleTypeCorrect == Spec => []TypeOK
<1>1. LifeInv => TypeOK
  BY DEF LifeInv
<1> QED BY <1>1, LifeInit, LifeStep, PTL DEF Spec

\* A container that compose made has its compose file, whatever fails.
THEOREM ContainersStayStoppable == Spec => []StaysStoppable
<1>1. LifeInv => StaysStoppable
  BY DEF LifeInv, FileInv, StaysStoppable
<1> QED BY <1>1, LifeInit, LifeStep, PTL DEF Spec

\* What a request answers is so, but for docker's failing ps and containers
\* that compose did not make.
THEOREM RequestsAnswerTheTruth == Spec => []AnswersAreTrue
<1>1. LifeInv => AnswersAreTrue
  BY DEF LifeInv, Ready, AnswersAreTrue, At
<1> QED BY <1>1, LifeInit, LifeStep, PTL DEF Spec
-----------------------------------------------------------------------------
(***************************************************************************)
(* No rollback.  The manifest of a request may be older than the service's *)
(* by the time it is served; but requests are served in the order they     *)
(* were asked, and the service's manifests only grow, or go and come back  *)
(* larger, so that the versions in the queue ascend from the newest that a *)
(* container was made from to those of the service and of the files.       *)
(***************************************************************************)
Fits(s, version) ==
    /\ version <= edits + 1
    /\ registry[s] # 0 => version <= registry[s]
    /\ disk[s] # 0 => version <= disk[s]

Ordered ==
    \A i, j \in 1..Len(queue) :
        (i < j /\ queue[i].op # "reload" /\ queue[j].op # "reload"
            /\ queue[i].slug = queue[j].slug) => queue[i].version <= queue[j].version

VersionInv ==
    /\ \A s \in Slugs :
          /\ disk[s] <= edits + 1 /\ Fits(s, newest[s]) /\ Fits(s, registry[s])
          /\ container[s] # None => container[s].version <= newest[s]
    /\ \A i \in 1..Len(queue) : queue[i].op # "reload" =>
          /\ Fits(queue[i].slug, queue[i].version)
          /\ newest[queue[i].slug] <= queue[i].version
    /\ Ordered

\* There are no requests and no containers at first.
LEMMA VersionInit == Init => VersionInv
BY LifecycleAssumption DEF Init, VersionInv, Fits, Ordered

\* The types of the versions.
LEMMA VersionTypes ==
    ASSUME TypeOK
    PROVE  /\ edits \in Nat /\ Len(queue) \in Nat
           /\ \A s \in Slugs : /\ disk[s] \in Nat /\ registry[s] \in Nat /\ newest[s] \in Nat
                               /\ container[s] # None => container[s].version \in Nat
           /\ \A i \in 1..Len(queue) : queue[i].op # "reload" =>
                 queue[i].slug \in Slugs /\ queue[i].version \in Nat
<1>1. \A i \in 1..Len(queue) : queue[i] \in Request
  BY DEF TypeOK
<1>2. \A s \in Slugs : container[s] # None => container[s].version \in Nat
  BY DEF TypeOK, Container
<1> QED BY <1>1, <1>2, RequestTypes DEF TypeOK

\* What serving a request may do to the containers: at most that of its own
\* agent is made, of the request's version.
Effect ==
    \A s \in Slugs :
        /\ newest'[s] = newest[s] \/ (s = Slug /\ newest'[s] = Holder.version)
        /\ container'[s] # None =>
              /\ container'[s].version <= newest'[s]
              /\ \/ container[s] # None /\ container'[s].version = container[s].version
                 \/ container'[s].version >= newest[s]

\* A container taken away, switched or made.
LEMMA IdleEffect ==
    ASSUME LifeInv, VersionInv, UNCHANGED docker
    PROVE  Effect
<1>1. container' = container /\ newest' = newest
  BY DEF docker
<1>2. \A s \in Slugs : container[s] # None => container[s].version <= newest[s]
  BY DEF VersionInv
<1> QED BY <1>1, <1>2 DEF Effect

LEMMA GoneEffect ==
    ASSUME LifeInv, VersionInv, Slug \in Slugs, Put(None)
    PROVE  Effect
<1>1. /\ container'[Slug] = None /\ newest'[Slug] = newest[Slug]
      /\ \A s \in Slugs \ {Slug} : container'[s] = container[s] /\ newest'[s] = newest[s]
  BY PutTypes DEF LifeInv
<1>2. \A s \in Slugs : container[s] # None => container[s].version <= newest[s]
  BY DEF VersionInv
<1> QED BY <1>1, <1>2 DEF Effect

LEMMA SwitchEffect ==
    ASSUME LifeInv, VersionInv, Slug \in Slugs, Present, NEW b \in BOOLEAN,
           Put([container[Slug] EXCEPT !.running = b])
    PROVE  Effect
<1> DEFINE c == [container[Slug] EXCEPT !.running = b]
<1>1. c \in Container /\ c # None /\ c.version = container[Slug].version
  BY SwitchTypes DEF LifeInv
<1>2. c.version <= newest[Slug] /\ c.version \in Nat /\ newest[Slug] \in Nat
  BY <1>1, VersionTypes DEF LifeInv, VersionInv, Present
<1>3. Put(c)
  OBVIOUS
<1> HIDE DEF c
<1>4. /\ container'[Slug] = c /\ newest'[Slug] = newest[Slug]
      /\ \A s \in Slugs \ {Slug} : container'[s] = container[s] /\ newest'[s] = newest[s]
  BY <1>1, <1>2, <1>3, PutTypes DEF LifeInv
<1> QED BY <1>1, <1>2, <1>4 DEF VersionInv, Effect, Present

LEMMA MakeEffect ==
    ASSUME LifeInv, VersionInv, queue # <<>>, Holder.op # "reload",
           NEW running \in BOOLEAN, Make(Holder.version, running)
    PROVE  Effect
<1>1. Slug \in Slugs /\ Holder.version \in Nat /\ Holder = queue[1] /\ 1 \in 1..Len(queue)
  BY HolderTypes DEF LifeInv
<1>2. PICK version \in Nat : version = Holder.version
  BY <1>1
<1>3. newest[Slug] <= version /\ newest[Slug] \in Nat
  BY <1>1, <1>2, VersionTypes DEF LifeInv, VersionInv, Slug
<1>4. /\ container'[Slug] # None /\ container'[Slug].version = version
      /\ \A s \in Slugs \ {Slug} : container'[s] = container[s] /\ newest'[s] = newest[s]
      /\ newest'[Slug] = IF version > newest[Slug] THEN version ELSE newest[Slug]
  BY <1>1, <1>2, MakeTypes DEF LifeInv
<1>5. newest'[Slug] = version
  BY <1>3, <1>4
<1> QED BY <1>2, <1>3, <1>4, <1>5 DEF VersionInv, Effect

\* A compose file that a container is about to be made from is the request's.
LEMMA ServeEffect ==
    ASSUME LifeInv, VersionInv, Serve
    PROVE  /\ up /\ queue # <<>> /\ UNCHANGED <<disk, edits>> /\ queue' \in {queue, Tail(queue)}
           /\ IF Holder.op = "reload" THEN registry' = disk /\ UNCHANGED docker
              ELSE registry' = registry /\ Effect
<1> USE DEF Fail, Release, Go
<1>1. /\ up /\ queue # <<>> /\ Ready(work.step)
  BY DEF LifeInv, Serve, Reload, Begin, Image, Look, Halt, Discard, Answer, WriteFile, Label,
         Replace, Up, Unlink, Check, StartExisting, Run, At
<1>2. ASSUME Holder.op # "reload", UNCHANGED <<disk, registry, docker, edits>>,
             queue' \in {queue, Tail(queue)}
      PROVE  UNCHANGED <<disk, edits, registry>> /\ Effect
  BY <1>2, IdleEffect
<1>3. work.step # "begin" => Holder.op # "reload" /\ Slug \in Slugs
  BY <1>1, HolderTypes DEF LifeInv, QueueInv
<1>4. CASE Reload
  BY <1>1, <1>4 DEF Reload
<1>5. CASE Begin
  BY <1>1, <1>2, <1>5 DEF Begin
<1>6. CASE Image \/ Look \/ Label \/ Check \/ Answer \/ WriteFile \/ Unlink
  <2>1. Holder.op # "reload"
    BY <1>3, <1>6 DEF Image, Look, Label, Check, Answer, WriteFile, Unlink, At
  <2>2. UNCHANGED <<disk, registry, docker, edits>> /\ queue' \in {queue, Tail(queue)}
    BY <1>6 DEF Image, Look, Label, Check, Answer, WriteFile, Unlink
  <2> QED BY <1>1, <1>2, <2>1, <2>2
<1>7. CASE Halt
  <2>1. /\ Holder.op # "reload" /\ Slug \in Slugs /\ UNCHANGED <<disk, registry, edits>>
        /\ queue' \in {queue, Tail(queue)} /\ (Using("docker-cli") => Present)
    BY <1>1, <1>3, <1>7 DEF Halt, At, Ready, Command
  <2>2. Using("compose") \/ Using("docker-cli")
    BY DEF LifeInv, TypeOK, Using, Runtimes
  <2>3. \/ UNCHANGED docker
        \/ Put(None)
        \/ Present /\ Put([container[Slug] EXCEPT !.running = FALSE])
    BY <1>7, <2>1, <2>2 DEF Halt, Command, Ours
  <2> QED BY <1>1, <2>1, <2>3, IdleEffect, GoneEffect, SwitchEffect
<1>8. CASE Discard \/ Replace
  <2>1. /\ Holder.op # "reload" /\ Slug \in Slugs /\ UNCHANGED <<disk, registry, edits>>
        /\ queue' \in {queue, Tail(queue)} /\ (UNCHANGED docker \/ Put(None))
    BY <1>3, <1>8 DEF Discard, Replace, At, Command
  <2> QED BY <1>1, <2>1, IdleEffect, GoneEffect
<1>9. CASE Up
  <2>1. /\ Holder.op # "reload" /\ Slug \in Slugs /\ UNCHANGED <<disk, registry, edits>>
        /\ queue' \in {queue, Tail(queue)} /\ file[Slug] = Holder.version
    BY <1>1, <1>3, <1>9 DEF Up, At, Ready, Command
  <2>2. \/ UNCHANGED docker
        \/ Put(None)
        \/ \E running \in BOOLEAN : Make(Holder.version, running)
    BY <1>9, <2>1 DEF Up, Command
  <2> QED BY <1>1, <2>1, <2>2, IdleEffect, GoneEffect, MakeEffect
<1>10. CASE StartExisting
  <2>1. /\ Holder.op # "reload" /\ Slug \in Slugs /\ UNCHANGED <<disk, registry, edits>>
        /\ queue' \in {queue, Tail(queue)} /\ Present
        /\ UNCHANGED docker \/ Put([container[Slug] EXCEPT !.running = TRUE])
    BY <1>1, <1>3, <1>10 DEF StartExisting, At, Ready, Command
  <2> QED BY <1>1, <2>1, IdleEffect, SwitchEffect
<1>11. CASE Run
  <2>1. /\ Holder.op # "reload" /\ Slug \in Slugs /\ UNCHANGED <<disk, registry, edits>>
        /\ queue' \in {queue, Tail(queue)}
        /\ UNCHANGED docker \/ \E running \in BOOLEAN : Make(Holder.version, running)
    BY <1>1, <1>3, <1>11 DEF Run, At, Command
  <2> QED BY <1>1, <2>1, IdleEffect, MakeEffect
<1> QED BY <1>4, <1>5, <1>6, <1>7, <1>8, <1>9, <1>10, <1>11 DEF Serve

\* Fits of the next state.
FitsNext(s, version) ==
    /\ version <= edits' + 1
    /\ registry'[s] # 0 => version <= registry'[s]
    /\ disk'[s] # 0 => version <= disk'[s]

\* Serving keeps the order: what a container is made from is the oldest
\* version in the queue.
LEMMA ServeVersions ==
    ASSUME LifeInv, VersionInv, Serve, TypeOK'
    PROVE  VersionInv'
<1> USE DEF LifeInv
<1>1. /\ up /\ queue # <<>> /\ UNCHANGED <<disk, edits>> /\ queue' \in {queue, Tail(queue)}
      /\ IF Holder.op = "reload" THEN registry' = disk /\ UNCHANGED docker
         ELSE registry' = registry /\ Effect
  BY ServeEffect
<1>2. /\ Holder = queue[1] /\ 1 \in 1..Len(queue)
      /\ Holder.op # "reload" => Slug \in Slugs /\ Holder.version \in Nat
  BY <1>1, HolderTypes
<1>3. /\ edits \in Nat /\ Len(queue) \in Nat
      /\ \A s \in Slugs : disk[s] \in Nat /\ registry[s] \in Nat /\ newest[s] \in Nat
      /\ \A i \in 1..Len(queue) : queue[i].op # "reload" =>
            queue[i].slug \in Slugs /\ queue[i].version \in Nat
  BY VersionTypes
<1>4. \A s \in Slugs, version \in Nat : Fits(s, version) => FitsNext(s, version)
  <2> SUFFICES ASSUME NEW s \in Slugs, NEW version \in Nat, Fits(s, version)
               PROVE  FitsNext(s, version)
    OBVIOUS
  <2>1. registry'[s] \in {registry[s], disk[s]}
    BY <1>1
  <2> QED BY <1>1, <2>1 DEF Fits, FitsNext
<1>5. PICK m \in {0, 1} : /\ Len(queue') = Len(queue) - m
                          /\ \A i \in 1..Len(queue') : queue'[i] = queue[i + m]
  <2>1. CASE queue' = queue
    BY <1>3, <2>1
  <2>2. CASE queue' = Tail(queue)
    BY <1>1, <2>2 DEF TypeOK
  <2> QED BY <1>1, <2>1, <2>2
<1>6. \A i \in 1..Len(queue') : i + m \in 1..Len(queue) /\ queue'[i] = queue[i + m]
  BY <1>3, <1>5
<1>7. \A s \in Slugs : newest'[s] = newest[s]
                       \/ (Holder.op # "reload" /\ s = Slug /\ newest'[s] = Holder.version)
  BY <1>1 DEF docker, Effect
<1>8. \A s \in Slugs : /\ newest'[s] \in Nat /\ FitsNext(s, newest'[s])
  <2> TAKE s \in Slugs
  <2>1. CASE newest'[s] = newest[s]
    BY <1>3, <1>4, <2>1 DEF VersionInv
  <2>2. CASE Holder.op # "reload" /\ s = Slug /\ newest'[s] = Holder.version
    BY <1>2, <1>4, <2>2 DEF VersionInv, Slug
  <2> QED BY <1>7, <2>1, <2>2
<1>9. \A s \in Slugs : /\ disk'[s] <= edits' + 1 /\ FitsNext(s, registry'[s])
                       /\ container'[s] # None => container'[s].version <= newest'[s]
  <2> TAKE s \in Slugs
  <2>1. disk'[s] <= edits' + 1
    BY <1>1 DEF VersionInv
  <2>2. container'[s] # None => container'[s].version <= newest'[s]
    BY <1>1 DEF VersionInv, Effect, docker
  <2>3. FitsNext(s, registry'[s])
    <3>1. CASE registry'[s] = registry[s]
      BY <1>3, <1>4, <3>1 DEF VersionInv
    <3>2. CASE registry'[s] = disk[s]
      BY <1>1, <1>3, <3>2 DEF VersionInv, FitsNext
    <3> QED BY <1>1, <3>1, <3>2
  <2> QED BY <2>1, <2>2, <2>3
<1>10. Ordered'
  <2> SUFFICES ASSUME NEW i \in 1..Len(queue'), NEW j \in 1..Len(queue'),
                      i < j, queue'[i].op # "reload", queue'[j].op # "reload",
                      queue'[i].slug = queue'[j].slug
               PROVE  queue'[i].version <= queue'[j].version
    BY Zenon DEF Ordered
  <2>1. Ordered
    BY <1>3 DEF VersionInv
  <2>2. /\ i + m \in 1..Len(queue) /\ queue'[i] = queue[i + m]
        /\ j + m \in 1..Len(queue) /\ queue'[j] = queue[j + m]
    BY <1>6
  <2>3. i + m < j + m
    BY <1>3, <1>5
  <2> QED BY <2>1, <2>2, <2>3 DEF Ordered
<1>11. \A i \in 1..Len(queue) : queue[i].op # "reload" => newest'[queue[i].slug] <= queue[i].version
  <2> SUFFICES ASSUME NEW i \in 1..Len(queue), queue[i].op # "reload"
               PROVE  newest'[queue[i].slug] <= queue[i].version
    OBVIOUS
  <2>1. queue[i].slug \in Slugs /\ newest[queue[i].slug] <= queue[i].version
    BY <1>3 DEF VersionInv
  <2>2. CASE Holder.op # "reload" /\ queue[i].slug = Slug /\ newest'[queue[i].slug] = Holder.version
    <3>1. CASE i = 1
      BY <1>2, <1>3, <2>2, <3>1
    <3>2. CASE i > 1
      BY <1>2, <2>2, <3>2 DEF VersionInv, Ordered, Slug
    <3> QED BY <1>3, <3>1, <3>2
  <2> QED BY <1>7, <2>1, <2>2
<1>12. \A i \in 1..Len(queue') : queue'[i].op # "reload" =>
          /\ FitsNext(queue'[i].slug, queue'[i].version)
          /\ newest'[queue'[i].slug] <= queue'[i].version
  BY <1>3, <1>4, <1>6, <1>11 DEF VersionInv
<1> QED BY <1>8, <1>9, <1>10, <1>12 DEF VersionInv, Fits, FitsNext

\* A request that is asked carries the service's manifest, the newest of all.
LEMMA AskVersions ==
    ASSUME LifeInv, VersionInv, up, UNCHANGED <<up, work, disk, registry, docker, edits>>,
           NEW r \in Request, Enqueue(r),
           r.op # "reload" => r.slug \in Slugs /\ r.version = registry[r.slug] /\ r.version # 0
    PROVE  VersionInv'
<1>1. /\ Len(queue') = Len(queue) + 1 /\ queue'[Len(queue) + 1] = r
      /\ \A i \in 1..Len(queue) : queue'[i] = queue[i]
  BY EnqueueKeeps DEF LifeInv
<1>2. /\ edits \in Nat /\ Len(queue) \in Nat
      /\ \A s \in Slugs : disk[s] \in Nat /\ registry[s] \in Nat /\ newest[s] \in Nat
      /\ \A i \in 1..Len(queue) : queue[i].op # "reload" =>
            queue[i].slug \in Slugs /\ queue[i].version \in Nat
  BY VersionTypes DEF LifeInv
<1>3. r.op # "reload" => Fits(r.slug, r.version) /\ newest[r.slug] <= r.version
  BY DEF VersionInv, Fits
<1>4. UNCHANGED <<disk, registry, container, newest, edits>>
  BY DEF docker
<1>5. \A i \in 1..Len(queue') : queue'[i].op # "reload" =>
          Fits(queue'[i].slug, queue'[i].version) /\ newest[queue'[i].slug] <= queue'[i].version
  <2> TAKE i \in 1..Len(queue')
  <2>1. CASE i = Len(queue) + 1
    BY <1>1, <1>3, <2>1
  <2>2. CASE i # Len(queue) + 1
    <3>1. i \in 1..Len(queue)
      BY <1>1, <1>2, <2>2
    <3> QED BY <1>1, <3>1 DEF VersionInv
  <2> QED BY <2>1, <2>2
<1>6. Ordered'
  <2> SUFFICES ASSUME NEW i \in 1..Len(queue'), NEW j \in 1..Len(queue'), i < j,
                      queue'[i].op # "reload", queue'[j].op # "reload",
                      queue'[i].slug = queue'[j].slug
               PROVE  queue'[i].version <= queue'[j].version
    BY DEF Ordered
  <2>1. i \in 1..Len(queue)
    BY <1>1, <1>2
  <2>2. CASE j = Len(queue) + 1
    BY <1>1, <1>2, <2>1, <2>2 DEF VersionInv, Fits
  <2>3. CASE j # Len(queue) + 1
    <3>1. j \in 1..Len(queue)
      BY <1>1, <1>2, <2>3
    <3> QED BY <1>1, <2>1, <3>1 DEF VersionInv, Ordered
  <2> QED BY <2>2, <2>3
<1> QED BY <1>4, <1>5, <1>6 DEF VersionInv, Fits

\* Every step keeps the versions in order.
LEMMA VersionStep == LifeInv /\ VersionInv /\ [Next]_vars => VersionInv'
<1> SUFFICES ASSUME LifeInv, VersionInv, [Next]_vars
             PROVE  VersionInv'
  OBVIOUS
<1>1. /\ edits \in Nat /\ Len(queue) \in Nat
      /\ \A s \in Slugs : disk[s] \in Nat /\ registry[s] \in Nat /\ newest[s] \in Nat
  BY VersionTypes DEF LifeInv
<1>2. ASSUME UNCHANGED <<disk, registry, queue, edits, newest, container>>
      PROVE  VersionInv'
  BY <1>2 DEF VersionInv, Fits, Ordered
<1>3. CASE Serve
  BY <1>3, LifeStep, ServeVersions DEF LifeInv
<1>4. ASSUME NEW chosen \in Runtimes, Boot(chosen)
      PROVE  VersionInv'
  <2>1. queue' = <<>> /\ registry' = disk /\ UNCHANGED <<disk, edits, newest, container>>
    BY <1>4 DEF Boot, docker, LifeInv, QueueInv
  <2> QED BY <1>1, <2>1 DEF VersionInv, Fits, Ordered
<1>5. CASE Crash
  <2>1. queue' = <<>> /\ UNCHANGED <<disk, registry, edits, newest, container>>
    BY <1>5 DEF Crash, docker
  <2> QED BY <1>1, <2>1 DEF VersionInv, Fits, Ordered
<1>6. CASE Pass
  BY <1>2, <1>6 DEF Pass, docker
<1>7. CASE PassNext
  <2>1. PICK s \in toStart :
           IF registry[s] = 0
             THEN UNCHANGED queue
             ELSE Enqueue([op |-> "start", slug |-> s, version |-> registry[s], auto |-> TRUE])
    BY <1>7 DEF PassNext
  <2>2. s \in Slugs
    BY DEF LifeInv, TypeOK
  <2>3. CASE registry[s] = 0
    BY <1>2, <1>7, <2>1, <2>3 DEF PassNext, docker
  <2>4. CASE registry[s] # 0
    <3>1. PICK r : r = [op |-> "start", slug |-> s, version |-> registry[s], auto |-> TRUE]
      OBVIOUS
    <3>2. r \in Request /\ r.slug = s /\ r.version = registry[s]
      BY <1>1, <2>2, <3>1 DEF Request, Operations
    <3>3. Enqueue(r)
      BY <2>1, <2>4, <3>1
    <3> QED BY <1>7, <2>2, <2>4, <3>2, <3>3, AskVersions DEF PassNext, docker
  <2> QED BY <2>3, <2>4
<1>8. CASE AskReload
  <2>1. PICK r : r = [op |-> "reload", auto |-> FALSE]
    OBVIOUS
  <2>2. r \in Request /\ r.op = "reload" /\ Enqueue(r)
    BY <1>8, <2>1 DEF AskReload, Request
  <2> QED BY <1>8, <2>2, AskVersions DEF AskReload, docker
<1>9. ASSUME NEW s \in Slugs, Exit(s)
      PROVE  VersionInv'
  <2>1. UNCHANGED <<disk, registry, queue, edits, newest>>
    BY <1>9 DEF Exit
  <2>2. container[s] \in Container
    BY <1>9 DEF Exit, LifeInv, TypeOK
  <2>3. \A t \in Slugs : container'[t] # None =>
           container[t] # None /\ container'[t].version = container[t].version
    BY <1>9, <2>2 DEF Exit, Container, LifeInv, TypeOK
  <2> QED BY <2>1, <2>3 DEF VersionInv, Fits, Ordered
<1>10. ASSUME NEW s \in Asked, NEW valid \in BOOLEAN, Edit(s, valid)
       PROVE  VersionInv'
  <2>1. s \in Slugs /\ UNCHANGED <<registry, queue, newest, container>> /\ edits' = edits + 1
    BY <1>10, LifecycleAssumption DEF Edit, docker
  <2>2. \A t \in Slugs : disk'[t] \in {disk[t], 0, edits + 2}
    BY <1>10, <2>1 DEF Edit, LifeInv, TypeOK
  <2>3. \A t \in Slugs, version \in Nat : Fits(t, version) => FitsNext(t, version)
    BY <1>1, <2>1, <2>2 DEF Fits, FitsNext
  <2>4. \A t \in Slugs : disk'[t] <= edits' + 1
    BY SMTT(30), <1>1, <2>1, <2>2 DEF VersionInv
  <2>5. \A i \in 1..Len(queue) : queue[i].op # "reload" =>
           queue[i].slug \in Slugs /\ queue[i].version \in Nat
    BY VersionTypes DEF LifeInv
  <2>6. \A t \in Slugs : FitsNext(t, newest[t]) /\ FitsNext(t, registry[t])
    BY <1>1, <2>3 DEF VersionInv
  <2>7. \A i \in 1..Len(queue) : queue[i].op # "reload" =>
           FitsNext(queue[i].slug, queue[i].version)
    BY <2>3, <2>5 DEF VersionInv
  <2> QED BY <2>1, <2>4, <2>6, <2>7 DEF VersionInv, Fits, FitsNext, Ordered
<1>11. ASSUME NEW s \in Asked, NEW op \in Operations, Ask(op, s)
       PROVE  VersionInv'
  <2>1. s \in Slugs
    BY LifecycleAssumption
  <2>2. PICK r : r = [op |-> op, slug |-> s, version |-> registry[s], auto |-> FALSE]
    OBVIOUS
  <2>3. r \in Request /\ r.slug = s /\ r.version = registry[s] /\ registry[s] # 0 /\ Enqueue(r)
    BY <1>1, <1>11, <2>1, <2>2 DEF Ask, Request
  <2> QED BY <1>11, <2>1, <2>3, AskVersions DEF Ask, docker
<1>12. CASE UNCHANGED vars
  BY <1>2, <1>12 DEF vars, docker
<1> QED BY <1>3, <1>4, <1>5, <1>6, <1>7, <1>8, <1>9, <1>10, <1>11, <1>12 DEF Next

\* One agent's containers in a step.
NoRollbackAt(s) ==
    (container[s] = None \/ container'[s] = None \/ container'[s].version # container[s].version)
       => container'[s] = None \/ container'[s].version >= newest[s]

\* A container that a step makes is as new as any before.
LEMMA NoRollbackStep ==
    LifeInv /\ VersionInv /\ [Next]_vars => \A s \in Slugs : NoRollbackAt(s)
<1> SUFFICES ASSUME LifeInv, VersionInv, [Next]_vars
             PROVE  \A s \in Slugs : NoRollbackAt(s)
  OBVIOUS
<1>1. ASSUME UNCHANGED container
      PROVE  \A s \in Slugs : NoRollbackAt(s)
  BY <1>1 DEF NoRollbackAt
<1>2. CASE Serve
  BY <1>1, <1>2, ServeEffect DEF docker, Effect, NoRollbackAt
<1>3. ASSUME NEW s \in Slugs, Exit(s)
      PROVE  \A t \in Slugs : NoRollbackAt(t)
  <2>1. container[s] \in Container
    BY <1>3 DEF Exit, LifeInv, TypeOK
  <2>2. \A t \in Slugs : container'[t] # None =>
           container[t] # None /\ container'[t].version = container[t].version
    BY <1>3, <2>1 DEF Exit, Container, LifeInv, TypeOK
  <2> QED BY <2>2 DEF NoRollbackAt
<1>4. ASSUME ~Serve, \A s \in Slugs : ~Exit(s)
      PROVE  UNCHANGED container
  BY <1>4 DEF Next, vars, docker, Boot, Crash, Pass, PassNext, AskReload, Edit, Ask
<1> QED BY <1>1, <1>2, <1>3, <1>4

\* No container is made from an older manifest than one before it.
THEOREM ManifestsNeverRollBack == Spec => NoRollback
<1>1. Init => LifeInv /\ VersionInv
  BY LifeInit, VersionInit
<1>2. LifeInv /\ VersionInv /\ [Next]_vars => (LifeInv /\ VersionInv)'
  BY LifeStep, VersionStep
<1>3. LifeInv /\ VersionInv /\ [Next]_vars =>
        [\A s \in Slugs :
          (container[s] = None \/ container'[s] = None
              \/ container'[s].version # container[s].version)
            => container'[s] = None \/ container'[s].version >= newest[s]]_vars
  BY NoRollbackStep DEF NoRollbackAt
<1> QED BY <1>1, <1>2, <1>3, PTL DEF Spec, NoRollback
=============================================================================
