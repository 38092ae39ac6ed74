----------------------------- MODULE AgentLifecycle -----------------------------
(***************************************************************************)
(* The lifecycle service of OrchestraAgents: it loads the agents'          *)
(* manifests and starts, stops and restarts their containers, one request  *)
(* at a time, through the docker compose or the docker command line        *)
(* interface, whichever the process was started with.                      *)
(*                                                                         *)
(* A request looks its manifest up before it queues for the service's      *)
(* lock, and then runs docker commands in a thread; each is a step here.   *)
(* Docker is external.  A manifest is a number that grows with each edit   *)
(* of its file; each slug has one file.  The read-only routes are left     *)
(* out.                                                                    *)
(***************************************************************************)
EXTENDS Integers, Sequences

CONSTANTS
    Slugs,         \* agents, numbered in the order of their manifests' paths
    AutoStart,     \* those whose manifests are active and have auto_start
    Asked,         \* those whose manifests users edit and whose containers they ask for
    None,          \* Python's None
    MaxQueue,      \* bound on the users' requests under way
    MaxEdits,      \* bound on the edits of manifests
    MaxCrashes     \* bound on the times the service ends

Runtimes == {"compose", "docker-cli"}
Operations == {"start", "stop", "remove", "restart"}

Container == [version : Nat, running : BOOLEAN, owner : Runtimes]
Request == [op : Operations, slug : Slugs, version : Nat, auto : BOOLEAN]
              \cup [op : {"reload"}, auto : BOOLEAN]

ASSUME LifecycleAssumption ==
    /\ Slugs \subseteq Nat /\ AutoStart \subseteq Slugs /\ Asked \subseteq Slugs
    /\ None \notin Container
    /\ MaxQueue \in Nat /\ MaxEdits \in Nat /\ MaxCrashes \in Nat

VARIABLES
    disk,          \* manifest file of each slug, 0 when there is no valid one
    registry,      \* manifest the service has loaded of each slug, 0 for none
    runtime,       \* ORCHESTRA_AGENTS_RUNTIME of the process
    up,            \* the process runs
    queue,         \* requests in the order of the lock; the first one holds it
    work,          \* of the first request
    container,     \* docker's container of each slug, or None
    file,          \* manifest each slug's compose file was written from, 0 without file
    due,           \* the auto-start pass has not begun
    toStart,       \* slugs the auto-start pass has left
    newest,        \* newest manifest a container was made from, of each slug
    edits, crashes

docker == <<container, newest>>
vars == <<disk, registry, runtime, up, queue, work, docker, file, due, toStart, edits, crashes>>

\* "blind": docker ps failed, which the code takes for a missing container.
Steps == {"begin", "image", "write", "look", "label", "replace", "up",
          "check", "start", "halt", "discard", "run", "unlink", "answer"}
Work == [step : Steps, blind : BOOLEAN]
NoWork == [step |-> "begin", blind |-> FALSE]

Init ==
    /\ disk = [s \in Slugs |-> 1]
    /\ registry = [s \in Slugs |-> 0]
    /\ runtime \in Runtimes
    /\ up = FALSE
    /\ queue = <<>> /\ work = NoWork
    /\ container = [s \in Slugs |-> None]
    /\ file = [s \in Slugs |-> 0]
    /\ due = FALSE /\ toStart = {}
    /\ newest = [s \in Slugs |-> 0]
    /\ edits = 0 /\ crashes = 0

---------------------------------------------------------------------------
(* The process and what surrounds it.                                      *)

\* Mutant: the manifests the image was built with.
BootFromImage(chosen) ==
    /\ ~up
    /\ up' = TRUE
    /\ runtime' = chosen
    /\ registry' = [s \in Slugs |-> 1]
    /\ due' = TRUE
    /\ UNCHANGED <<disk, queue, work, docker, file, toStart, edits, crashes>>

\* The registry is loaded; the environment may name another runtime.
Boot(chosen) ==
    /\ ~up
    /\ up' = TRUE
    /\ runtime' = chosen
    /\ registry' = disk
    /\ due' = TRUE
    /\ UNCHANGED <<disk, queue, work, docker, file, toStart, edits, crashes>>

\* The process ends between two commands; containers live on.
Crash ==
    /\ up
    /\ crashes < MaxCrashes /\ crashes' = crashes + 1
    /\ up' = FALSE
    /\ queue' = <<>> /\ work' = NoWork
    /\ due' = FALSE /\ toStart' = {}
    /\ UNCHANGED <<disk, registry, runtime, docker, file, edits>>

\* A manifest is rewritten, or becomes invalid or goes.
Edit(s, valid) ==
    /\ edits < MaxEdits /\ edits' = edits + 1
    /\ disk' = [disk EXCEPT ![s] = IF valid THEN edits + 2 ELSE 0]
    /\ UNCHANGED <<registry, runtime, up, queue, work, docker, file, due, toStart, crashes>>

\* An agent ends by itself; no container is restarted by docker.
Exit(s) ==
    /\ container[s] # None
    /\ container[s].running
    /\ container' = [container EXCEPT ![s].running = FALSE]
    /\ UNCHANGED <<disk, registry, runtime, up, queue, work, newest, file, due, toStart, edits,
                   crashes>>

---------------------------------------------------------------------------
(* Requests and the lock.                                                  *)

Enqueue(request) == queue' = Append(queue, request)

Ask(op, s) ==
    /\ up /\ Len(queue) < MaxQueue
    /\ registry[s] # 0
    /\ Enqueue([op |-> op, slug |-> s, version |-> registry[s], auto |-> FALSE])
    /\ UNCHANGED <<disk, registry, runtime, up, work, docker, file, due, toStart, edits, crashes>>

AskReload ==
    /\ up /\ Len(queue) < MaxQueue
    /\ Enqueue([op |-> "reload", auto |-> FALSE])
    /\ UNCHANGED <<disk, registry, runtime, up, work, docker, file, due, toStart, edits, crashes>>

\* start_agents: the eligible manifests, started one after the other.
Pass ==
    /\ up /\ due
    /\ due' = FALSE
    /\ toStart' = {s \in AutoStart : registry[s] # 0}
    /\ UNCHANGED <<disk, registry, runtime, up, queue, work, docker, file, edits, crashes>>

\* A manifest that is gone by now fails, which is logged.
PassNext ==
    /\ up
    /\ \A i \in 1..Len(queue) : ~queue[i].auto
    /\ \E s \in toStart :
         /\ \A other \in toStart : s <= other
         /\ IF registry[s] = 0
              THEN toStart' = toStart \ {s} /\ UNCHANGED queue
              ELSE /\ Enqueue([op |-> "start", slug |-> s, version |-> registry[s], auto |-> TRUE])
                   /\ UNCHANGED toStart
    /\ UNCHANGED <<disk, registry, runtime, up, work, docker, file, due, edits, crashes>>

Holder == Head(queue)
Slug == Holder.slug

\* The first request is over, well or not, and lets go of the lock.
Release ==
    /\ queue' = Tail(queue)
    /\ work' = NoWork
    /\ toStart' = IF Holder.auto THEN toStart \ {Slug} ELSE toStart

At(step) == up /\ queue # <<>> /\ work.step = step
Using(chosen) == runtime = chosen
Go(step) == work' = [work EXCEPT !.step = step] /\ UNCHANGED <<queue, toStart>>

\* Mutant: an agent that fails to start is tried again before the others.
FailRetries ==
    /\ queue' = Tail(queue)
    /\ work' = NoWork
    /\ UNCHANGED toStart

Fail == Release

\* Mutant: the command's exit status is not looked at.
CommandUnchecked(effect, unchanged, next) == (effect \/ unchanged) /\ Go(next)

\* A command went well, or it raised, whether it had its effect or not.
Command(effect, unchanged, next) ==
    \/ effect /\ (Go(next) \/ Fail)
    \/ unchanged /\ Fail

Reload ==
    /\ At("begin") /\ Holder.op = "reload"
    /\ registry' = disk
    /\ Release
    /\ UNCHANGED <<disk, runtime, up, docker, file, due, edits, crashes>>

\* Under the lock, only stop looks the manifest up again.
Begin ==
    /\ At("begin") /\ Holder.op # "reload"
    /\ IF Holder.op \in {"stop", "remove"} /\ registry[Slug] = 0
         THEN Fail
         ELSE Go(IF Using("compose") /\ Holder.op \in {"start", "restart"}
                   THEN "image" ELSE "look")
    /\ UNCHANGED <<disk, registry, runtime, up, docker, file, due, edits, crashes>>

---------------------------------------------------------------------------
(* Steps of both runtimes.                                                 *)

Present == container[Slug] # None
Ours == Present /\ container[Slug].owner = runtime
Put(c) ==
    /\ container' = [container EXCEPT ![Slug] = c]
    /\ newest' = IF c # None /\ c.version > newest[Slug]
                   THEN [newest EXCEPT ![Slug] = c.version] ELSE newest
Make(version, running) == Put([version |-> version, running |-> running, owner |-> runtime])

\* ensure_image_available
Image ==
    /\ At("image")
    /\ Go(IF Using("compose") THEN "write" ELSE "run") \/ Fail
    /\ UNCHANGED <<disk, registry, runtime, up, docker, file, due, edits, crashes>>

\* Where container_exists leads, when it said what it did.
AfterLook(seen) ==
    CASE Using("compose") /\ Holder.op \in {"start", "restart"} ->
           IF seen THEN "label" ELSE "up"
      [] Using("compose") /\ Holder.op = "stop" -> IF seen THEN "halt" ELSE "answer"
      [] Using("compose") /\ Holder.op = "remove" -> "halt"
      [] Using("docker-cli") /\ Holder.op = "start" -> IF seen THEN "check" ELSE "image"
      [] Using("docker-cli") /\ Holder.op = "restart" -> IF seen THEN "halt" ELSE "image"
      [] OTHER -> IF seen THEN "halt" ELSE "answer"

\* ensure_compose_metadata
MetadataMissing(seen) ==
    /\ Using("compose") /\ Holder.op \in {"stop", "remove"}
    /\ file[Slug] = 0
    /\ Holder.op = "stop" \/ seen

Look ==
    /\ At("look")
    /\ \E seen \in {Present, FALSE} :
         IF MetadataMissing(seen)
           THEN Fail
           ELSE /\ work' = [step |-> AfterLook(seen), blind |-> seen # Present]
                /\ UNCHANGED <<queue, toStart>>
    /\ UNCHANGED <<disk, registry, runtime, up, docker, file, due, edits, crashes>>

\* Mutant: the compose file is cleaned up whatever compose was asked for.
AfterHaltCleansUp ==
    CASE Using("compose") -> "unlink"
      [] Holder.op = "stop" -> "answer"
      [] OTHER -> "discard"

AfterHalt ==
    CASE Holder.op = "stop" -> "answer"
      [] Holder.op = "remove" /\ Using("compose") -> "unlink"
      [] OTHER -> "discard"

\* compose stop, compose rm -sf and docker stop.  Compose only knows the
\* containers it made, and nothing at all without its file.
Halt ==
    /\ At("halt")
    /\ IF Using("compose") /\ file[Slug] = 0
         THEN Fail /\ UNCHANGED docker
         ELSE Command(IF Using("compose") /\ ~Ours THEN UNCHANGED docker
                      ELSE IF Using("compose") /\ Holder.op = "remove" THEN Put(None)
                      ELSE Put([container[Slug] EXCEPT !.running = FALSE]),
                      UNCHANGED docker, AfterHalt)
    /\ UNCHANGED <<disk, registry, runtime, up, file, due, edits, crashes>>

\* docker rm -f
Discard ==
    /\ At("discard")
    /\ Command(Put(None), UNCHANGED docker, IF Holder.op = "restart" THEN "image" ELSE "answer")
    /\ UNCHANGED <<disk, registry, runtime, up, file, due, edits, crashes>>

\* The answer tells the state of the container, which is asked once more.
Answer ==
    /\ At("answer")
    /\ Release
    /\ UNCHANGED <<disk, registry, runtime, up, docker, file, due, edits, crashes>>

---------------------------------------------------------------------------
(* Steps of the compose runtime.                                           *)

WriteFile ==
    /\ At("write")
    /\ file' = [file EXCEPT ![Slug] = Holder.version]
    /\ Go("look") \/ Fail
    /\ UNCHANGED <<disk, registry, runtime, up, docker, due, edits, crashes>>

\* container_matches_compose_service; labels that cannot be read match nothing.
Label ==
    /\ At("label")
    /\ \E matches \in {Ours, FALSE} : Go(IF matches THEN "up" ELSE "replace")
    /\ UNCHANGED <<disk, registry, runtime, up, docker, file, due, edits, crashes>>

\* remove_legacy_container_if_needed
Replace ==
    /\ At("replace")
    /\ Command(Put(None), UNCHANGED docker, "up")
    /\ UNCHANGED <<disk, registry, runtime, up, file, due, edits, crashes>>

\* compose up makes the container, and makes it anew for a restart or when its
\* file has changed, which may break off; another's container is in the way.
Creates ==
    IF Ours THEN Holder.op = "restart" \/ container[Slug].version # file[Slug] ELSE TRUE

Up ==
    /\ At("up")
    /\ IF Present /\ ~Ours
         THEN Fail /\ UNCHANGED docker
         ELSE \/ Command(Make(file[Slug], TRUE), UNCHANGED docker, "answer")
              \/ Creates /\ (Put(None) \/ Make(file[Slug], FALSE)) /\ Fail
    /\ UNCHANGED <<disk, registry, runtime, up, file, due, edits, crashes>>

\* cleanup_compose_file
Unlink ==
    /\ At("unlink")
    /\ file' = [file EXCEPT ![Slug] = 0]
    /\ Go("answer")
    /\ UNCHANGED <<disk, registry, runtime, up, docker, due, edits, crashes>>

---------------------------------------------------------------------------
(* Steps of the docker command line runtime.                               *)

\* start_existing; a failing docker ps says that the container does not run.
Check ==
    /\ At("check")
    /\ \E runs \in {container[Slug].running, FALSE} : Go(IF runs THEN "answer" ELSE "start")
    /\ UNCHANGED <<disk, registry, runtime, up, docker, file, due, edits, crashes>>

\* docker start, whatever manifest the container was made from.
StartExisting ==
    /\ At("start")
    /\ Command(Put([container[Slug] EXCEPT !.running = TRUE]), UNCHANGED docker, "answer")
    /\ UNCHANGED <<disk, registry, runtime, up, file, due, edits, crashes>>

\* docker run; it may create the container and not start it.
Run ==
    /\ At("run")
    /\ IF Present
         THEN Fail /\ UNCHANGED docker
         ELSE \/ Command(Make(Holder.version, TRUE), UNCHANGED docker, "answer")
              \/ Make(Holder.version, FALSE) /\ Fail
    /\ UNCHANGED <<disk, registry, runtime, up, file, due, edits, crashes>>

---------------------------------------------------------------------------

Serve ==
    \/ Reload \/ Begin \/ Image \/ Look \/ Halt \/ Discard \/ Answer
    \/ WriteFile \/ Label \/ Replace \/ Up \/ Unlink
    \/ Check \/ StartExisting \/ Run

Next ==
    \/ \E chosen \in Runtimes : Boot(chosen)
    \/ Crash \/ Pass \/ PassNext \/ AskReload \/ Serve
    \/ \E s \in Slugs : Exit(s)
    \/ \E s \in Asked :
         \/ \E valid \in BOOLEAN : Edit(s, valid)
         \/ \E op \in Operations : Ask(op, s)

Spec == Init /\ [][Next]_vars

\* The event loop runs the auto-start task and every docker command ends, if
\* only by its timeout.
FairSpec == Spec /\ WF_vars(Pass) /\ WF_vars(PassNext) /\ WF_vars(Serve)

---------------------------------------------------------------------------
(* Properties                                                              *)

\* Every variable has its type.
TypeOK ==
    /\ disk \in [Slugs -> Nat] /\ registry \in [Slugs -> Nat]
    /\ runtime \in Runtimes /\ up \in BOOLEAN
    /\ queue \in Seq(Request) /\ work \in Work
    /\ container \in [Slugs -> Container \cup {None}]
    /\ file \in [Slugs -> Nat] /\ newest \in [Slugs -> Nat]
    /\ due \in BOOLEAN /\ toStart \in SUBSET Slugs
    /\ edits \in Nat /\ crashes \in Nat

\* Whatever command fails or breaks off, and wherever the service ends, a
\* container that compose made has its compose file, without which the service
\* refuses to stop it and compose would not find it.
StaysStoppable ==
    \A s \in Slugs :
        (container[s] # None /\ container[s].owner = "compose") => file[s] # 0

\* A request looks its manifest up before it waits for the lock, and a reload
\* may come in between; still no container is ever made from an older manifest
\* than one made before it of the agent.
NoRollback ==
    [][\A s \in Slugs :
          (container[s] = None \/ container'[s] = None
              \/ container'[s].version # container[s].version)
            => container'[s] = None \/ container'[s].version >= newest[s]]_vars

\* What a request is about to answer is so: it was started from the manifest
\* it asked for (docker start may reuse an older container), is stopped or is
\* gone, although commands failed and others ran before.  Two exceptions: a
\* docker ps that failed, and compose asked to stop what it did not make.
Foreign == Using("compose") /\ Present /\ ~Ours
Kept ==
    CASE Holder.op = "restart" -> Present /\ container[Slug].version = Holder.version
      [] Holder.op = "start" ->
           Present /\ (Using("compose") => container[Slug].version = Holder.version)
      [] Holder.op = "stop" -> Present => ~container[Slug].running
      [] Holder.op = "remove" -> ~Present
AnswersAreTrue == At("answer") => work.blind \/ Foreign \/ Kept

\* Once the service is up, each eligible agent is attempted, although others
\* fail to start and users' requests keep the lock busy.
AutoStartCovers == \A s \in AutoStart : []<>(~up \/ (~due /\ s \notin toStart))
=============================================================================
