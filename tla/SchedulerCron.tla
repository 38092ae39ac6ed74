----------------------------- MODULE SchedulerCron -----------------------------
(***************************************************************************)
(* The scheduler service: jobs and their runs live in PostgreSQL, a copy   *)
(* of the enabled jobs in an APScheduler kept in memory.  The service      *)
(* fills the scheduler when it starts, once a minute, and from its         *)
(* built-in job definitions; the scheduler fires the jobs it holds; a run  *)
(* is recorded, executed (an event posted to the events engine, external)  *)
(* and counted, one statement of the database at a time.                   *)
(*                                                                         *)
(* What other programs do to the job table is the environment's.  A run's  *)
(* parameters, times, results and messages are left out, and so is when a  *)
(* trigger is due: any job the scheduler holds may be.                     *)
(***************************************************************************)
EXTENDS FiniteSets, Integers

CONSTANTS
    Jobs,          \* ids of scheduler_jobs rows, a new one for each insert
    Name,          \* name: no two rows have the same, but a deleted one's is free
    Builtin,       \* the jobs of job_definitions()
    Dates,         \* job_type = "date"; the others are "cron"
    AutoDelete,    \* auto_delete
    Coalesced,     \* misfire_policy is not "skip"
    Unparsable,    \* no trigger can be made of schedule, which nobody validates
    None,          \* Python's None
    ListLimit,     \* limit of list_jobs
    MaxFires,      \* bound on the runs started
    MaxEvents      \* bound on the changes others make to the job table, the stops
                   \* of the service and the statements that fail, together

Row == [enabled : BOOLEAN, run_count : Nat, failure_count : Nat, created : Nat]

ASSUME SchedulerCronAssumption ==
    /\ None \notin Row
    /\ IsFiniteSet(Jobs)
    /\ Builtin \subseteq Jobs \ (Dates \cup AutoDelete)
    /\ Dates \subseteq Jobs /\ AutoDelete \subseteq Jobs /\ Coalesced \subseteq Jobs
    /\ Unparsable \subseteq Jobs \ Builtin
    /\ DOMAIN Name = Jobs /\ \A j \in Builtin : \A i \in Jobs \ {j} : Name[i] # Name[j]
    /\ ListLimit \in Nat \ {0}
    /\ MaxFires \in Nat /\ MaxEvents \in Nat

VARIABLES
    rows,          \* table scheduler_jobs
    runs,          \* table scheduler_job_runs: how many of a job have each status
    unused,        \* ids no row has had yet
    phase,         \* of the service: "down", "starting", "bootstrapping", "up", "stopping"
    scheduled,     \* ids of the jobs APScheduler holds
    sync,          \* sync_jobs_from_db, at most one at a time
    boot,          \* _apply_job of each built-in job
    task,          \* run_job of each job, at most one (max_instances = 1)
    done,          \* how often a job's action was executed successfully
    cuts,          \* runs of a job that a shutdown or the database cut short
    seen,          \* jobs that have been enabled since the service last started
    heirs,         \* jobs created while a run of a deleted job of their name was
                   \* between the reading of its counter and the writing
    fires,         \* runs started so far
    changes,       \* changes of others so far
    faults         \* faults so far

tables == <<rows, runs, unused>>
memory == <<phase, scheduled, sync, boot, task>>
history == <<done, cuts, seen, heirs, fires, changes, faults>>
vars == <<tables, memory, history>>

Statuses == {"running", "success", "failed"}
NoRuns == [s \in Statuses |-> 0]

\* "listing" has the scheduler's ids but not the table's, "adding" has both.
Sync == [step : {"idle", "listing", "adding"}, existing : SUBSET Jobs, listed : SUBSET Jobs]
NoSync == [step |-> "idle", existing |-> {}, listed |-> {}]

TaskSteps == {"none", "creating", "executing", "completing", "reading", "counting",
              "removing", "deleting"}
Task == [step : TaskSteps, ok : BOOLEAN, count : Nat]
NoTask == [step |-> "none", ok |-> FALSE, count |-> 0]

Exists(j) == rows[j] # None
Namesakes(j) == {i \in Jobs : Exists(i) /\ Name[i] = Name[j]}
Enabled == {j \in Jobs : Exists(j) /\ rows[j].enabled}

\* Mutant: disabled jobs are listed too.
ListedAll == {j \in Jobs : Exists(j)}

\* list_jobs(enabled=True): the newest ListLimit.
Listed == {j \in Enabled :
             Cardinality({i \in Enabled : rows[i].created > rows[j].created}) < ListLimit}

Running == phase # "down"

Init ==
    /\ rows = [j \in Jobs |-> None]
    /\ runs = [j \in Jobs |-> NoRuns]
    /\ unused = Jobs
    /\ phase = "down"
    /\ scheduled = {}
    /\ sync = NoSync
    /\ boot = [j \in Builtin |-> "no"]
    /\ task = [j \in Jobs |-> NoTask]
    /\ done = [j \in Jobs |-> 0] /\ cuts = [j \in Jobs |-> 0]
    /\ seen = {} /\ heirs = {}
    /\ fires = 0 /\ changes = 0 /\ faults = 0

---------------------------------------------------------------------------
(* Statements on the tables.                                               *)

Insert(j) ==
    /\ rows' = [rows EXCEPT ![j] = [enabled |-> TRUE, run_count |-> 0, failure_count |-> 0,
                                    created |-> Cardinality(Jobs \ unused)]]
    /\ unused' = unused \ {j}

\* WHERE name = ...; the foreign key of scheduler_job_runs deletes the runs as well.
Delete(j) ==
    /\ rows' = [i \in Jobs |-> IF i \in Namesakes(j) THEN None ELSE rows[i]]
    /\ runs' = [i \in Jobs |-> IF i \in Namesakes(j) THEN NoRuns ELSE runs[i]]

Fault == changes + faults < MaxEvents /\ faults' = faults + 1

---------------------------------------------------------------------------
(* What other programs do to the job table.                                *)

Change == changes + faults < MaxEvents /\ changes' = changes + 1

CreateJob(j) ==
    /\ Change
    /\ j \in unused \ Builtin /\ Namesakes(j) = {}
    /\ Insert(j)
    /\ seen' = seen \cup {j}
    /\ heirs' = IF \E i \in Jobs : Name[i] = Name[j] /\ task[i].step = "counting"
                THEN heirs \cup {j} ELSE heirs
    /\ UNCHANGED <<runs, memory, done, cuts, fires, faults>>

SetEnabled(j, enabled) ==
    /\ Change
    /\ Exists(j) /\ rows[j].enabled # enabled
    /\ rows' = [rows EXCEPT ![j].enabled = enabled]
    /\ seen' = IF enabled THEN seen \cup {j} ELSE seen
    /\ UNCHANGED <<runs, unused, memory, done, cuts, heirs, fires, faults>>

DeleteJob(j) ==
    /\ Change
    /\ Exists(j) /\ j \notin Builtin
    /\ Delete(j)
    /\ UNCHANGED <<unused, memory, done, cuts, seen, heirs, fires, faults>>

---------------------------------------------------------------------------
(* The service's life.                                                     *)

\* start: an empty scheduler starts to run, and start awaits a first sync.
Start ==
    /\ phase = "down"
    /\ phase' = "starting"
    /\ scheduled' = {}
    /\ sync' = [NoSync EXCEPT !.step = "listing"]
    /\ seen' = Enabled
    /\ UNCHANGED <<tables, boot, task, done, cuts, heirs, fires, changes, faults>>

\* stop cancels the sync task and waits for the running jobs, but not for long.
Stop ==
    /\ phase = "up"
    /\ phase' = "stopping"
    /\ sync' = NoSync
    /\ UNCHANGED <<tables, scheduled, boot, task, history>>

\* The memory goes; whatever was running is cut short.
GoDown ==
    /\ phase' = "down"
    /\ scheduled' = {}
    /\ sync' = NoSync
    /\ boot' = [j \in Builtin |-> "no"]
    /\ task' = [j \in Jobs |-> NoTask]
    /\ cuts' = [j \in Jobs |-> IF task[j].step = "none" THEN cuts[j] ELSE cuts[j] + 1]

\* The end of stop, when the jobs are done or five seconds have passed, or a
\* crash of the process.
ShutDown ==
    /\ Running
    /\ Fault
    /\ GoDown
    /\ UNCHANGED <<tables, done, seen, heirs, fires, changes>>

---------------------------------------------------------------------------
(* sync_jobs_from_db: the scheduler's ids first, the table's next, and     *)
(* then the jobs the scheduler lacks, never those it has too many.         *)

\* Mutant: the loop ends when the service is up.
SyncStartEarly ==
    /\ phase = "bootstrapping"
    /\ sync.step = "idle"
    /\ sync' = [step |-> "listing", existing |-> scheduled, listed |-> {}]
    /\ UNCHANGED <<tables, phase, scheduled, boot, task, history>>

SyncStart ==
    /\ phase \in {"bootstrapping", "up"}
    /\ sync.step = "idle"
    /\ sync' = [step |-> "listing", existing |-> scheduled, listed |-> {}]
    /\ UNCHANGED <<tables, phase, scheduled, boot, task, history>>

SyncList ==
    /\ sync.step = "listing"
    /\ sync' = [sync EXCEPT !.step = "adding", !.listed = Listed]
    /\ UNCHANGED <<tables, phase, scheduled, boot, task, history>>

Missing == sync.listed \ sync.existing

\* The first sync over, the service goes on to the built-in jobs.  A job without
\* a trigger raises, which the loop logs when the others have been added.
SyncAdd ==
    /\ sync.step = "adding"
    /\ phase = "starting" => Missing \cap Unparsable = {}
    /\ scheduled' = scheduled \cup (Missing \ Unparsable)
    /\ sync' = NoSync
    /\ IF phase = "starting"
         THEN /\ phase' = "bootstrapping"
              /\ boot' = [j \in Builtin |-> "looking"]
         ELSE UNCHANGED <<phase, boot>>
    /\ UNCHANGED <<tables, task, history>>

\* In start the exception ends the process.
SyncRaises ==
    /\ sync.step = "adding"
    /\ phase = "starting" /\ Missing \cap Unparsable # {}
    /\ GoDown
    /\ UNCHANGED <<tables, done, seen, heirs, fires, changes, faults>>

\* The loop logs an error and tries again later; an error in start ends the process.
SyncFail ==
    /\ sync.step = "listing"
    /\ Fault
    /\ IF phase = "starting"
         THEN GoDown
         ELSE sync' = NoSync /\ UNCHANGED <<phase, scheduled, boot, task, cuts>>
    /\ UNCHANGED <<tables, done, seen, heirs, fires, changes>>

---------------------------------------------------------------------------
(* bootstrap_jobs: each built-in job is created or brought back to its     *)
(* definition, which enables it, and replaces its entry in the scheduler.  *)

BootLook(j) ==
    /\ boot[j] = "looking"
    /\ boot' = [boot EXCEPT ![j] = IF Exists(j) THEN "updating" ELSE "creating"]
    /\ UNCHANGED <<tables, phase, scheduled, sync, task, history>>

BootWrite(j) ==
    /\ boot[j] \in {"updating", "creating"}
    /\ IF boot[j] = "creating"
         THEN Insert(j)
         ELSE rows' = [rows EXCEPT ![j].enabled = TRUE] /\ UNCHANGED unused
    /\ boot' = [boot EXCEPT ![j] = "adding"]
    /\ seen' = seen \cup {j}
    /\ UNCHANGED <<runs, phase, scheduled, sync, task, done, cuts, heirs, fires, changes, faults>>

BootAdd(j) ==
    /\ boot[j] = "adding"
    /\ scheduled' = IF rows[j].enabled THEN scheduled \cup {j} ELSE scheduled
    /\ boot' = [boot EXCEPT ![j] = "done"]
    /\ phase' = IF \A i \in Builtin \ {j} : boot[i] = "done" THEN "up" ELSE phase
    /\ UNCHANGED <<tables, sync, task, history>>

\* The exception leaves start: the process ends.
BootFail(j) ==
    /\ boot[j] \in {"looking", "updating", "creating", "adding"}
    /\ Fault
    /\ GoDown
    /\ UNCHANGED <<tables, done, seen, heirs, fires, changes>>

---------------------------------------------------------------------------
(* APScheduler, external: a date job leaves the scheduler when it fires,   *)
(* a job that is still running is not started again, and one that is late  *)
(* by more than its misfire_grace_time is not started either.              *)

Leave(j) == IF j \in Dates THEN scheduled \ {j} ELSE scheduled

Fire(j) ==
    /\ Running /\ j \in scheduled
    /\ task[j].step = "none"
    /\ fires < MaxFires /\ fires' = fires + 1
    /\ scheduled' = Leave(j)
    /\ task' = [task EXCEPT ![j] = [NoTask EXCEPT !.step = "creating"]]
    /\ UNCHANGED <<tables, phase, sync, boot, done, cuts, seen, heirs, changes, faults>>

Skip(j) ==
    /\ Running /\ j \in scheduled \cap Dates
    /\ task[j].step # "none" \/ j \in Coalesced
    /\ scheduled' = Leave(j)
    /\ UNCHANGED <<tables, phase, sync, boot, task, history>>

---------------------------------------------------------------------------
(* run_job.                                                                *)

At(j, step) == task[j].step = step
Go(j, step) == task' = [task EXCEPT ![j].step = step]
End(j) == task' = [task EXCEPT ![j] = NoTask]

\* create_run violates the foreign key when the job is gone.
CreateRun(j) ==
    /\ At(j, "creating")
    /\ IF Exists(j)
         THEN runs' = [runs EXCEPT ![j]["running"] = @ + 1] /\ Go(j, "executing")
         ELSE UNCHANGED runs /\ End(j)
    /\ UNCHANGED <<rows, unused, phase, scheduled, sync, boot, history>>

Execute(j, ok) ==
    /\ At(j, "executing")
    /\ done' = IF ok THEN [done EXCEPT ![j] = @ + 1] ELSE done
    /\ task' = [task EXCEPT ![j].step = "completing", ![j].ok = ok]
    /\ UNCHANGED <<tables, phase, scheduled, sync, boot, cuts, seen, heirs, fires, changes, faults>>

\* complete_run; the run may have been deleted with its job.
CompleteRun(j) ==
    /\ At(j, "completing")
    /\ LET status == IF task[j].ok THEN "success" ELSE "failed"
       IN runs' = IF runs[j]["running"] = 0 THEN runs
                  ELSE [runs EXCEPT ![j]["running"] = @ - 1, ![j][status] = @ + 1]
    /\ Go(j, "reading")
    /\ UNCHANGED <<rows, unused, phase, scheduled, sync, boot, history>>

\* Mutant: a failed run is not counted.
ReadJobIfOk(j) ==
    /\ At(j, "reading")
    /\ IF ~Exists(j) \/ ~task[j].ok THEN End(j)
       ELSE task' = [task EXCEPT ![j].step = "counting", ![j].count = rows[j].run_count]
    /\ UNCHANGED <<tables, phase, scheduled, sync, boot, history>>

ReadJob(j) ==
    /\ At(j, "reading")
    /\ IF ~Exists(j) THEN End(j)
       ELSE task' = [task EXCEPT ![j].step = "counting",
                                 ![j].count = IF task[j].ok THEN rows[j].run_count
                                              ELSE rows[j].failure_count]
    /\ UNCHANGED <<tables, phase, scheduled, sync, boot, history>>

\* The counter goes back as it was read plus one, to the row that has the name now.
WriteCount(j) ==
    rows' = [i \in Jobs |->
                IF i \notin Namesakes(j) THEN rows[i]
                ELSE IF task[j].ok THEN [rows[i] EXCEPT !.run_count = task[j].count + 1]
                ELSE [rows[i] EXCEPT !.failure_count = task[j].count + 1]]

\* Mutant: auto_delete is not looked at.
CountRunKeeps(j) ==
    /\ At(j, "counting")
    /\ WriteCount(j)
    /\ End(j)
    /\ UNCHANGED <<runs, unused, phase, scheduled, sync, boot, history>>

\* update_job; a job with auto_delete has one statement and one call to come.
CountRun(j) ==
    /\ At(j, "counting")
    /\ WriteCount(j)
    /\ IF task[j].ok /\ j \in AutoDelete THEN Go(j, "removing") ELSE End(j)
    /\ UNCHANGED <<runs, unused, phase, scheduled, sync, boot, history>>

RemoveEntry(j) ==
    /\ At(j, "removing")
    /\ scheduled' = scheduled \ {j}
    /\ Go(j, "deleting")
    /\ UNCHANGED <<tables, phase, sync, boot, history>>

DeleteDone(j) ==
    /\ At(j, "deleting")
    /\ Delete(j)
    /\ End(j)
    /\ UNCHANGED <<unused, phase, scheduled, sync, boot, history>>

\* A statement raises: inside the except or else of run_job nothing catches it.
RunFail(j) ==
    /\ task[j].step \in {"creating", "completing", "reading", "counting", "deleting"}
    /\ Fault
    /\ End(j)
    /\ cuts' = [cuts EXCEPT ![j] = @ + 1]
    /\ UNCHANGED <<tables, phase, scheduled, sync, boot, done, seen, heirs, fires, changes>>

RunStep(j) ==
    \/ CreateRun(j) \/ (\E ok \in BOOLEAN : Execute(j, ok)) \/ CompleteRun(j)
    \/ ReadJob(j) \/ CountRun(j) \/ RemoveEntry(j) \/ DeleteDone(j)

Next ==
    \/ Start \/ Stop \/ ShutDown
    \/ SyncStart \/ SyncList \/ SyncAdd \/ SyncRaises \/ SyncFail
    \/ \E j \in Builtin : BootLook(j) \/ BootWrite(j) \/ BootAdd(j) \/ BootFail(j)
    \/ \E j \in Jobs :
         \/ CreateJob(j) \/ DeleteJob(j) \/ \E enabled \in BOOLEAN : SetEnabled(j, enabled)
         \/ Fire(j) \/ Skip(j) \/ RunStep(j) \/ RunFail(j)

Spec == Init /\ [][Next]_vars

\* The event loop runs the sync, the bootstrap and the runs; the container is
\* started again after it went down.  Nothing obliges the scheduler to fire.
FairSpec ==
    /\ Spec
    /\ WF_vars(Start) /\ WF_vars(SyncStart) /\ WF_vars(SyncList) /\ WF_vars(SyncAdd)
    /\ WF_vars(SyncRaises)
    /\ \A j \in Builtin : WF_vars(BootLook(j)) /\ WF_vars(BootWrite(j)) /\ WF_vars(BootAdd(j))
    /\ \A j \in Jobs : WF_vars(RunStep(j))

---------------------------------------------------------------------------
(* Properties                                                              *)

\* Every variable has its type.
TypeOK ==
    /\ rows \in [Jobs -> Row \cup {None}]
    /\ runs \in [Jobs -> [Statuses -> Nat]]
    /\ unused \in SUBSET Jobs
    /\ phase \in {"down", "starting", "bootstrapping", "up", "stopping"}
    /\ scheduled \in SUBSET Jobs
    /\ sync \in Sync
    /\ boot \in [Builtin -> {"no", "looking", "updating", "creating", "adding", "done"}]
    /\ task \in [Jobs -> Task]
    /\ done \in [Jobs -> Nat] /\ cuts \in [Jobs -> Nat]
    /\ seen \in SUBSET Jobs /\ heirs \in SUBSET Jobs
    /\ fires \in Nat /\ changes \in Nat /\ faults \in Nat

\* A job that deletes itself is executed successfully once: the minute's sync
\* that finds it in the table but no longer in the scheduler, at any point of
\* its run, does not bring about a second execution.  A run that was cut short
\* after it executed may be repeated, once for each such cut.
OnceIsOnce == \A j \in AutoDelete : done[j] <= 1 + cuts[j]

\* run_count and failure_count are read by id, increased and written back by name
\* by separate statements, beside everything else that writes the rows; still no
\* finished run goes uncounted unless it was cut short, and none is counted twice
\* or in another job's row: except in the row of a job that was created under a
\* deleted one's name just when a run of that one was about to write.
RunsAreCounted ==
    \A j \in Jobs : Exists(j) /\ j \notin heirs =>
        LET uncounted == runs[j]["success"] + runs[j]["failed"]
                             - rows[j].run_count - rows[j].failure_count
            counting  == IF task[j].step \in {"reading", "counting"} THEN 1 ELSE 0
        IN counting <= uncounted /\ uncounted <= counting + cuts[j]

\* The service only runs jobs that were enabled at some time since it started:
\* a restart forgets what was disabled, an older copy of the scheduler never
\* comes back.
RunsWereEnabled ==
    scheduled \cup {j \in Jobs : task[j].step # "none"} \subseteq seen

\* While the service stays up, an enabled job among the listed ones comes to
\* the scheduler again and again, whoever created or enabled it and however
\* many syncs failed or raced with the runs, or raised for jobs whose schedule
\* gives no trigger: those alone never come.
EnabledIsScheduled ==
    \A j \in Jobs \ Unparsable : []<>(phase # "up" \/ j \notin Listed \/ j \in scheduled)
=============================================================================
