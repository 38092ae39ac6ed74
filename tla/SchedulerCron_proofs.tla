------------------------- MODULE SchedulerCron_proofs -------------------------
(***************************************************************************)
(* Theorems about SchedulerCron, for all jobs, however many of them are    *)
(* built in, date jobs or delete themselves, every limit of the listing    *)
(* and every bound.                                                        *)
(***************************************************************************)
EXTENDS SchedulerCron, FiniteSetTheorems, TLAPS

(***************************************************************************)
(* Types.  TypeOK is not inductive: to update the row of a built-in job is *)
(* only well-typed because nobody deletes it after it was looked up.       *)
(***************************************************************************)
Deleting(j) == task[j].step \in {"removing", "deleting"}

TypeInv ==
    /\ TypeOK
    /\ \A j \in Jobs : Deleting(j) => j \in AutoDelete
    /\ \A j \in Builtin : boot[j] = "updating" => Exists(j)

\* The fields of a well-typed run.
LEMMA TaskFields ==
    ASSUME TypeOK, NEW j \in Jobs
    PROVE  /\ task[j].step \in TaskSteps /\ task[j].ok \in BOOLEAN /\ task[j].count \in Nat
           /\ NoTask \in Task
           /\ \A step \in TaskSteps : [task[j] EXCEPT !.step = step] \in Task
BY DEF TypeOK, Task, NoTask, TaskSteps

\* The rows that statements write are rows.
LEMMA RowFields ==
    ASSUME TypeOK, NEW j \in Jobs, Exists(j)
    PROVE  /\ rows[j] \in Row
           /\ \A enabled \in BOOLEAN : [rows[j] EXCEPT !.enabled = enabled] \in Row
           /\ \A n \in Nat : /\ [rows[j] EXCEPT !.run_count = n] \in Row
                             /\ [rows[j] EXCEPT !.failure_count = n] \in Row
BY DEF TypeOK, Exists, Row

\* An insert leaves a table of rows.
LEMMA InsertTypes ==
    ASSUME TypeOK, NEW j \in Jobs, Insert(j)
    PROVE  rows' \in [Jobs -> Row \cup {None}] /\ unused' \in SUBSET Jobs /\ Exists(j)'
<1> DEFINE row == [enabled |-> TRUE, run_count |-> 0, failure_count |-> 0,
                   created |-> Cardinality(Jobs \ unused)]
<1>1. Cardinality(Jobs \ unused) \in Nat
  BY SchedulerCronAssumption, FS_Difference, FS_CardinalityType
<1>2. row \in Row
  BY <1>1 DEF Row
<1>3. rows' = [rows EXCEPT ![j] = row]
  BY DEF Insert
<1> HIDE DEF row
<1>4. rows' \in [Jobs -> Row \cup {None}]
  BY <1>2, <1>3 DEF TypeOK
<1>5. rows'[j] = row /\ row # None
  BY <1>2, <1>3, SchedulerCronAssumption DEF TypeOK
<1> QED BY <1>4, <1>5 DEF Insert, Exists, TypeOK

\* A delete by name takes the rows of the name and their runs, no built-in job's.
LEMMA DeleteEffect ==
    ASSUME TypeOK, NEW j \in Jobs, Delete(j)
    PROVE  /\ rows' \in [Jobs -> Row \cup {None}] /\ runs' \in [Jobs -> [Statuses -> Nat]]
           /\ \A i \in Jobs : IF i \in Namesakes(j)
                               THEN rows'[i] = None /\ runs'[i] = NoRuns
                               ELSE rows'[i] = rows[i] /\ runs'[i] = runs[i]
           /\ j \notin Builtin => \A i \in Builtin : rows'[i] = rows[i]
<1>1. NoRuns \in [Statuses -> Nat]
  BY DEF NoRuns
<1>2. /\ rows' = [i \in Jobs |-> IF i \in Namesakes(j) THEN None ELSE rows[i]]
      /\ runs' = [i \in Jobs |-> IF i \in Namesakes(j) THEN NoRuns ELSE runs[i]]
  BY DEF Delete
<1>3. rows' \in [Jobs -> Row \cup {None}] /\ runs' \in [Jobs -> [Statuses -> Nat]]
  BY <1>1, <1>2 DEF TypeOK
<1>4. \A i \in Jobs : IF i \in Namesakes(j)
                       THEN rows'[i] = None /\ runs'[i] = NoRuns
                       ELSE rows'[i] = rows[i] /\ runs'[i] = runs[i]
  BY <1>2
<1>5. j \notin Builtin => \A i \in Builtin : i \in Jobs /\ i \notin Namesakes(j)
  BY SchedulerCronAssumption DEF Namesakes
<1> QED BY <1>3, <1>4, <1>5

\* A counter is written to the rows of the name, and nothing else of them.
LEMMA WriteEffect ==
    ASSUME TypeOK, NEW j \in Jobs, WriteCount(j)
    PROVE  /\ rows' \in [Jobs -> Row \cup {None}]
           /\ \A i \in Jobs : /\ Exists(i)' <=> Exists(i)
                              /\ i \notin Namesakes(j) => rows'[i] = rows[i]
                              /\ Exists(i) => rows'[i].enabled = rows[i].enabled
           /\ \A i \in Namesakes(j) :
                 IF task[j].ok
                   THEN /\ rows'[i].run_count = task[j].count + 1
                        /\ rows'[i].failure_count = rows[i].failure_count
                   ELSE /\ rows'[i].failure_count = task[j].count + 1
                        /\ rows'[i].run_count = rows[i].run_count
<1> DEFINE n == task[j].count + 1
           written(row) == IF task[j].ok THEN [row EXCEPT !.run_count = n]
                           ELSE [row EXCEPT !.failure_count = n]
<1>1. n \in Nat
  BY TaskFields
<1>2. rows' = [i \in Jobs |-> IF i \in Namesakes(j) THEN written(rows[i]) ELSE rows[i]]
  BY DEF WriteCount
<1> HIDE DEF n
<1>3. \A row \in Row : /\ written(row) \in Row /\ written(row).enabled = row.enabled
                       /\ IF task[j].ok
                            THEN /\ written(row).run_count = n
                                 /\ written(row).failure_count = row.failure_count
                            ELSE /\ written(row).failure_count = n
                                 /\ written(row).run_count = row.run_count
  BY <1>1 DEF Row
<1> HIDE DEF written
<1>4. \A i \in Jobs : Exists(i) => rows[i] \in Row
  BY DEF TypeOK, Exists
<1>5. \A i \in Namesakes(j) : i \in Jobs /\ Exists(i) /\ rows[i] \in Row
  BY <1>4 DEF Namesakes
<1>6. \A i \in Jobs : rows'[i] = IF i \in Namesakes(j) THEN written(rows[i]) ELSE rows[i]
  BY <1>2
<1>7. \A i \in Jobs : /\ rows'[i] \in Row \cup {None}
                      /\ Exists(i)' <=> Exists(i)
    <2> SUFFICES ASSUME NEW i \in Jobs
                 PROVE  rows'[i] \in Row \cup {None} /\ (Exists(i)' <=> Exists(i))
      OBVIOUS
    <2>1. CASE i \in Namesakes(j)
      BY <1>3, <1>5, <1>6, <2>1, SchedulerCronAssumption DEF Exists
    <2>2. CASE i \notin Namesakes(j)
      BY <1>6, <2>2 DEF TypeOK, Exists
    <2> QED BY <2>1, <2>2
<1>8. rows' \in [Jobs -> Row \cup {None}]
  BY <1>2, <1>7
<1>9. \A i \in Namesakes(j) :
         IF task[j].ok
           THEN rows'[i].run_count = n /\ rows'[i].failure_count = rows[i].failure_count
           ELSE rows'[i].failure_count = n /\ rows'[i].run_count = rows[i].run_count
  BY <1>3, <1>5, <1>6
<1>10. \A i \in Jobs : Exists(i) => rows'[i].enabled = rows[i].enabled
  BY <1>3, <1>4, <1>6
<1> QED BY <1>6, <1>7, <1>8, <1>9, <1>10 DEF n

\* Going down forgets what is in memory, all of it well-typed.
LEMMA GoDownTypes ==
    ASSUME TypeInv, GoDown, UNCHANGED <<rows, runs, unused, done, seen, heirs, fires, changes>>,
           faults' \in Nat
    PROVE  TypeInv'
<1>1. NoTask \in Task /\ NoSync \in Sync /\ ~(NoTask.step \in {"removing", "deleting"})
  BY DEF NoTask, Task, TaskSteps, NoSync, Sync
<1>2. cuts' \in [Jobs -> Nat]
  BY DEF GoDown, TypeInv, TypeOK
<1>3. \A j \in Jobs : task'[j] = NoTask
  BY DEF GoDown
<1>4. task' \in [Jobs -> Task] /\ boot' \in [Builtin -> {"no"}]
  BY <1>1 DEF GoDown
<1>5. TypeOK'
  BY <1>1, <1>2, <1>4 DEF GoDown, TypeInv, TypeOK
<1>6. \A j \in Jobs : ~Deleting(j)'
  BY <1>1, <1>3 DEF Deleting
<1> QED BY <1>4, <1>5, <1>6 DEF TypeInv

\* At first there are no rows and the service is down.
LEMMA TypeInit == Init => TypeInv
BY SchedulerCronAssumption
   DEF Init, TypeInv, TypeOK, NoRuns, Statuses, NoSync, Sync, NoTask, Task, TaskSteps, Deleting

\* What others do to the table.
LEMMA TypeChange ==
    ASSUME TypeInv, NEW j \in Jobs,
           CreateJob(j) \/ DeleteJob(j) \/ \E enabled \in BOOLEAN : SetEnabled(j, enabled)
    PROVE  TypeInv'
<1>1. CASE CreateJob(j)
  <2>1. rows' \in [Jobs -> Row \cup {None}] /\ unused' \in SUBSET Jobs
    BY <1>1, InsertTypes DEF CreateJob, TypeInv
  <2>2. TypeOK'
    <3>1. heirs' \in SUBSET Jobs /\ seen' \in SUBSET Jobs /\ changes' \in Nat
      BY <1>1 DEF CreateJob, Change, TypeInv, TypeOK
    <3> QED BY <1>1, <2>1, <3>1 DEF CreateJob, memory, TypeInv, TypeOK
  <2>3. \A i \in Jobs \ {j} : Exists(i)' <=> Exists(i)
    BY <1>1 DEF CreateJob, Insert, TypeInv, TypeOK, Exists
  <2> QED BY <1>1, <2>2, <2>3, SchedulerCronAssumption DEF CreateJob, memory, TypeInv, Deleting
<1>2. CASE DeleteJob(j)
  <2>1. /\ rows' \in [Jobs -> Row \cup {None}] /\ runs' \in [Jobs -> [Statuses -> Nat]]
        /\ \A i \in Builtin : rows'[i] = rows[i]
    BY <1>2, DeleteEffect DEF DeleteJob, TypeInv
  <2>2. TypeOK'
    BY <1>2, <2>1 DEF DeleteJob, Change, memory, TypeInv, TypeOK
  <2> QED BY <1>2, <2>1, <2>2, SchedulerCronAssumption DEF DeleteJob, memory, TypeInv, Deleting, Exists
<1>3. ASSUME NEW enabled \in BOOLEAN, SetEnabled(j, enabled)
      PROVE  TypeInv'
  <2>1. /\ [rows[j] EXCEPT !.enabled = enabled] \in Row
        /\ rows' = [rows EXCEPT ![j] = [rows[j] EXCEPT !.enabled = enabled]]
    BY <1>3, RowFields DEF SetEnabled, TypeInv
  <2>2. TypeOK'
    BY <1>3, <2>1 DEF SetEnabled, Change, memory, TypeInv, TypeOK
  <2>3. \A i \in Jobs : Exists(i) => Exists(i)'
    BY <2>1, SchedulerCronAssumption DEF TypeInv, TypeOK, Exists
  <2> QED BY <1>3, <2>2, <2>3, SchedulerCronAssumption DEF SetEnabled, memory, TypeInv, Deleting
<1> QED BY <1>1, <1>2, <1>3

\* The service's life, its sync and its bootstrap.
LEMMA TypeService ==
    ASSUME TypeInv,
           \/ Start \/ Stop \/ ShutDown
           \/ SyncStart \/ SyncList \/ SyncAdd \/ SyncRaises \/ SyncFail
    PROVE  TypeInv'
<1>1. CASE Start
  BY <1>1 DEF Start, tables, NoSync, Sync, Enabled, TypeInv, TypeOK, Deleting, Exists
<1>2. CASE Stop
  BY <1>2 DEF Stop, tables, history, NoSync, Sync, TypeInv, TypeOK, Deleting, Exists
<1>3. CASE ShutDown
  BY <1>3, GoDownTypes DEF ShutDown, tables, Fault, TypeInv, TypeOK
<1>4. CASE SyncStart
  BY <1>4 DEF SyncStart, tables, history, Sync, TypeInv, TypeOK, Deleting, Exists
<1>5. CASE SyncList
  <2>1. Listed \subseteq Jobs
    BY DEF Listed, Enabled
  <2> QED BY <1>5, <2>1 DEF SyncList, tables, history, Sync, TypeInv, TypeOK, Deleting, Exists
<1>6. CASE SyncAdd
  <2>1. scheduled' \in SUBSET Jobs /\ sync' \in Sync
    BY <1>6 DEF SyncAdd, Missing, NoSync, Sync, TypeInv, TypeOK
  <2>2. /\ phase' \in {phase, "bootstrapping"}
        /\ boot' = boot \/ boot' = [j \in Builtin |-> "looking"]
    BY <1>6 DEF SyncAdd
  <2>3. TypeOK'
    BY <1>6, <2>1, <2>2 DEF SyncAdd, tables, history, TypeInv, TypeOK
  <2> QED BY <1>6, <2>2, <2>3 DEF SyncAdd, tables, TypeInv, Deleting, Exists
<1>7. CASE SyncFail
  <2>1. CASE phase = "starting"
    BY <1>7, <2>1, GoDownTypes DEF SyncFail, tables, Fault, TypeInv, TypeOK
  <2>2. CASE phase # "starting"
    BY <1>7, <2>2 DEF SyncFail, tables, Fault, NoSync, Sync, TypeInv, TypeOK, Deleting, Exists
  <2> QED BY <2>1, <2>2
<1>8. CASE SyncRaises
  BY <1>8, GoDownTypes DEF SyncRaises, tables, TypeInv, TypeOK
<1> QED BY <1>1, <1>2, <1>3, <1>4, <1>5, <1>6, <1>7, <1>8

\* The built-in jobs.  A job whose row was found keeps it until it is written.
LEMMA TypeBoot ==
    ASSUME TypeInv, NEW j \in Builtin,
           BootLook(j) \/ BootWrite(j) \/ BootAdd(j) \/ BootFail(j)
    PROVE  TypeInv'
<1>0. j \in Jobs
  BY SchedulerCronAssumption
<1>1. CASE BootLook(j)
  BY <1>1 DEF BootLook, tables, history, TypeInv, TypeOK, Deleting, Exists
<1>2. CASE BootWrite(j)
  <2>1. /\ rows' \in [Jobs -> Row \cup {None}] /\ unused' \in SUBSET Jobs
        /\ \A i \in Jobs \ {j} : Exists(i) => Exists(i)'
    <3>1. CASE boot[j] = "creating"
      <4>1. Insert(j)
        BY <1>2, <3>1 DEF BootWrite
      <4> QED BY <1>0, <4>1, InsertTypes DEF Insert, TypeInv, TypeOK, Exists
    <3>2. CASE boot[j] = "updating"
      <4>1. rows' = [rows EXCEPT ![j].enabled = TRUE] /\ unused' = unused
        BY <1>2, <3>2 DEF BootWrite
      <4>2. [rows[j] EXCEPT !.enabled = TRUE] \in Row
        BY <1>0, <3>2, RowFields DEF TypeInv
      <4> QED BY <1>0, <4>1, <4>2 DEF TypeInv, TypeOK, Exists
    <3> QED BY <1>2, <3>1, <3>2 DEF BootWrite
  <2>2. TypeOK'
    BY <1>0, <1>2, <2>1 DEF BootWrite, TypeInv, TypeOK
  <2>3. \A i \in Builtin \ {j} : boot'[i] = boot[i]
    BY <1>2 DEF BootWrite, TypeInv, TypeOK
  <2>4. boot'[j] = "adding"
    BY <1>2 DEF BootWrite, TypeInv, TypeOK
  <2> QED BY <1>2, <2>1, <2>2, <2>3, <2>4, SchedulerCronAssumption DEF BootWrite, TypeInv, Deleting
<1>3. CASE BootAdd(j)
  <2>1. scheduled' \in SUBSET Jobs /\ phase' \in {phase, "up"}
    BY <1>0, <1>3 DEF BootAdd, TypeInv, TypeOK
  <2> QED BY <1>3, <2>1 DEF BootAdd, tables, history, TypeInv, TypeOK, Deleting, Exists
<1>4. CASE BootFail(j)
  BY <1>4, GoDownTypes DEF BootFail, tables, Fault, TypeInv, TypeOK
<1> QED BY <1>1, <1>2, <1>3, <1>4

\* A job is fired or left out, and its run.
LEMMA TypeRun ==
    ASSUME TypeInv, NEW j \in Jobs, Fire(j) \/ Skip(j) \/ RunStep(j) \/ RunFail(j)
    PROVE  TypeInv'
<1>0. /\ TypeOK /\ \A i \in Jobs : Deleting(i) => i \in AutoDelete
      /\ \A i \in Builtin : boot[i] = "updating" => Exists(i)
  BY DEF TypeInv
<1>1. CASE Fire(j)
  <2>1. [NoTask EXCEPT !.step = "creating"] \in Task
    BY DEF NoTask, Task, TaskSteps
  <2>2. [NoTask EXCEPT !.step = "creating"].step = "creating"
    BY DEF NoTask
  <2>3. TypeOK'
    BY <1>0, <1>1, <2>1 DEF Fire, Leave, tables, TypeOK
  <2> QED BY <1>0, <1>1, <2>2, <2>3 DEF Fire, tables, TypeInv, TypeOK, Deleting, Exists
<1>2. CASE Skip(j)
  BY <1>0, <1>2 DEF Skip, Leave, tables, history, TypeInv, TypeOK, Deleting, Exists
<1>3. ASSUME task' = [task EXCEPT ![j] = NoTask], UNCHANGED <<rows, boot>>, TypeOK'
      PROVE  TypeInv'
  BY <1>0, <1>3 DEF NoTask, TypeInv, TypeOK, Deleting, Exists
<1>4. ASSUME NEW step \in TaskSteps, Go(j, step), TypeOK', UNCHANGED <<rows, boot>>,
             step \in {"removing", "deleting"} => j \in AutoDelete
      PROVE  TypeInv'
  <2>1. \A i \in Jobs : task'[i].step = IF i = j THEN step ELSE task[i].step
    BY <1>0, <1>4 DEF Go, TypeOK, Task
  <2> QED BY <1>0, <1>4, <2>1 DEF TypeInv, Deleting, Exists
<1>5. CASE CreateRun(j)
  <2>1. runs' \in [Jobs -> [Statuses -> Nat]]
    BY SMTT(30), <1>0, <1>5 DEF CreateRun, TypeOK, Statuses
  <2>2. CASE Exists(j)
    <3>1. Go(j, "executing") /\ "executing" \in TaskSteps
      BY <1>5, <2>2 DEF CreateRun, TaskSteps
    <3>2. TypeOK'
      BY <1>0, <1>5, <2>1, <3>1, TaskFields DEF CreateRun, history, Go, TypeOK
    <3> QED BY <1>4, <1>5, <3>1, <3>2 DEF CreateRun
  <2>3. CASE ~Exists(j)
    <3>1. TypeOK'
      BY <1>0, <1>5, <2>1, <2>3, TaskFields DEF CreateRun, history, End, TypeOK
    <3> QED BY <1>3, <1>5, <2>3, <3>1 DEF CreateRun, End
  <2> QED BY <2>2, <2>3
<1>6. ASSUME NEW ok \in BOOLEAN, Execute(j, ok)
      PROVE  TypeInv'
  <2>1. \A i \in Jobs : /\ task'[i] \in Task
                        /\ task'[i].step = IF i = j THEN "completing" ELSE task[i].step
    BY <1>0, <1>6, ZenonT(60) DEF Execute, TypeOK, Task, TaskSteps
  <2>2. task' \in [Jobs -> Task]
    BY <1>0, <1>6, <2>1 DEF Execute, TypeOK
  <2>3. TypeOK'
    BY <1>0, <1>6, <2>2 DEF Execute, tables, TypeOK
  <2>4. rows' = rows /\ boot' = boot
    BY <1>6 DEF Execute, tables
  <2>5. \A i \in Jobs : Deleting(i)' => Deleting(i)
    BY <2>1 DEF Deleting
  <2> QED BY <1>0, <2>3, <2>4, <2>5 DEF TypeInv, Exists
<1>7. CASE CompleteRun(j)
  <2>1. runs' \in [Jobs -> [Statuses -> Nat]]
    <3> DEFINE status == IF task[j].ok THEN "success" ELSE "failed"
               counts == [runs[j] EXCEPT !["running"] = @ - 1, ![status] = @ + 1]
    <3>1. CASE runs[j]["running"] = 0
      BY <1>0, <1>7, <3>1 DEF CompleteRun, TypeOK
    <3>2. CASE runs[j]["running"] # 0
      <4>1. runs' = [runs EXCEPT ![j] = counts]
        BY <1>7, <3>2 DEF CompleteRun
      <4>2. runs[j] \in [Statuses -> Nat] /\ runs[j]["running"] - 1 \in Nat
        BY <1>0, <3>2 DEF TypeOK, Statuses
      <4>3. status \in Statuses \ {"running"}
        BY DEF Statuses
      <4> HIDE DEF status
      <4>4. counts \in [Statuses -> Nat]
        BY <4>2, <4>3
      <4> QED BY <1>0, <4>1, <4>4 DEF TypeOK
    <3> QED BY <3>1, <3>2
  <2>2. Go(j, "reading") /\ "reading" \in TaskSteps
    BY <1>7 DEF CompleteRun, TaskSteps
  <2>3. TypeOK'
    BY <1>0, <1>7, <2>1, <2>2, TaskFields DEF CompleteRun, history, Go, TypeOK
  <2> QED BY <1>4, <1>7, <2>2, <2>3 DEF CompleteRun
<1>8. CASE ReadJob(j)
  <2>1. CASE ~Exists(j)
    <3>1. TypeOK'
      BY <1>0, <1>8, <2>1, TaskFields DEF ReadJob, tables, history, End, TypeOK
    <3> QED BY <1>3, <1>8, <2>1, <3>1 DEF ReadJob, tables, End
  <2>2. CASE Exists(j)
    <3> DEFINE n == IF task[j].ok THEN rows[j].run_count ELSE rows[j].failure_count
    <3>0. n \in Nat
      BY <1>0, <2>2, RowFields DEF Row
    <3>1. \A i \in Jobs : /\ task'[i] \in Task
                          /\ task'[i].step = IF i = j THEN "counting" ELSE task[i].step
      <4>1. task' = [task EXCEPT ![j].step = "counting", ![j].count = n]
        BY <1>8, <2>2 DEF ReadJob
      <4> HIDE DEF n
      <4> QED BY <1>0, <3>0, <4>1 DEF TypeOK, Task, TaskSteps
    <3>2. task' \in [Jobs -> Task]
      BY <1>0, <1>8, <2>2, <3>1 DEF ReadJob, TypeOK
    <3>3. TypeOK'
      BY <1>0, <1>8, <3>2 DEF ReadJob, tables, history, TypeOK
    <3> QED BY <1>0, <1>8, <3>1, <3>3 DEF ReadJob, tables, TypeInv, Deleting, Exists
  <2> QED BY <2>1, <2>2
<1>9. CASE CountRun(j)
  <2>0. UNCHANGED <<runs, unused, phase, scheduled, sync, boot, history>>
    BY <1>9 DEF CountRun
  <2>w. WriteCount(j)
    BY <1>9 DEF CountRun
  <2>1. rows' \in [Jobs -> Row \cup {None}] /\ \A i \in Jobs : Exists(i)' <=> Exists(i)
    BY <1>0, <2>w, WriteEffect
  <2>2. CASE task[j].ok /\ j \in AutoDelete
    <3>1. Go(j, "removing") /\ "removing" \in TaskSteps
      BY <1>9, <2>2 DEF CountRun, TaskSteps
    <3>2. TypeOK'
      BY <1>0, <2>0, <2>1, <3>1, TaskFields DEF history, Go, TypeOK
    <3>3. TypeOK' /\ Go(j, "removing") /\ boot' = boot
      BY <2>0, <3>1, <3>2
    <3>4. \A i \in Jobs : task'[i].step = IF i = j THEN "removing" ELSE task[i].step
      BY <1>0, <3>1 DEF Go, TypeOK, Task
    <3> QED BY <1>0, <2>1, <2>2, <3>3, <3>4, SchedulerCronAssumption DEF TypeInv, Deleting
  <2>3. CASE ~(task[j].ok /\ j \in AutoDelete)
    <3>1. TypeOK'
      <4>1. task' = [task EXCEPT ![j] = NoTask]
        BY <1>9, <2>3 DEF CountRun, End
      <4> QED BY <1>0, <2>0, <2>1, <4>1, TaskFields DEF history, TypeOK
    <3>2. task' = [task EXCEPT ![j] = NoTask] /\ boot' = boot
      BY <1>9, <2>0, <2>3 DEF CountRun, End
    <3> QED BY <1>0, <2>1, <3>1, <3>2, SchedulerCronAssumption
            DEF NoTask, TypeInv, TypeOK, Deleting
  <2> QED BY <2>2, <2>3
<1>10. CASE RemoveEntry(j)
  <2>1. Go(j, "deleting") /\ "deleting" \in TaskSteps /\ j \in AutoDelete
    BY <1>0, <1>10 DEF RemoveEntry, TaskSteps, At, Deleting
  <2>2. scheduled' \in SUBSET Jobs
    BY <1>0, <1>10 DEF RemoveEntry, TypeOK
  <2>3. TypeOK'
    BY <1>0, <1>10, <2>1, <2>2, TaskFields DEF RemoveEntry, tables, history, Go, TypeOK
  <2> QED BY <1>4, <1>10, <2>1, <2>3 DEF RemoveEntry, tables
<1>11. CASE DeleteDone(j)
  <2>1. j \in AutoDelete
    BY <1>0, <1>11 DEF DeleteDone, At, Deleting
  <2>0. /\ rows' \in [Jobs -> Row \cup {None}] /\ runs' \in [Jobs -> [Statuses -> Nat]]
        /\ \A i \in Builtin : rows'[i] = rows[i]
    BY <1>0, <1>11, <2>1, DeleteEffect, SchedulerCronAssumption DEF DeleteDone
  <2>2. TypeOK'
    BY <1>0, <1>11, <2>0, TaskFields DEF DeleteDone, history, End, TypeOK
  <2>3. \A i \in Builtin : Exists(i)' <=> Exists(i)
    BY <2>0 DEF Exists
  <2> QED BY <1>0, <1>11, <2>2, <2>3 DEF DeleteDone, End, NoTask, TypeInv, TypeOK, Deleting
<1>12. CASE RunFail(j)
  <2>1. cuts' \in [Jobs -> Nat]
    BY <1>0, <1>12 DEF RunFail, TypeOK
  <2>2. TypeOK'
    BY <1>0, <1>12, <2>1, TaskFields DEF RunFail, Fault, tables, End, TypeOK
  <2> QED BY <1>3, <1>12, <2>2 DEF RunFail, tables, End
<1> QED BY <1>1, <1>2, <1>5, <1>6, <1>7, <1>8, <1>9, <1>10, <1>11, <1>12 DEF RunStep

\* No step leaves the types.
LEMMA TypeStep == TypeInv /\ [Next]_vars => TypeInv'
<1> SUFFICES ASSUME TypeInv, [Next]_vars
             PROVE  TypeInv'
  OBVIOUS
<1>1. CASE UNCHANGED vars
  BY <1>1 DEF vars, tables, memory, history, TypeInv, TypeOK, Deleting, Exists
<1> QED BY <1>1, TypeService, TypeBoot, TypeChange, TypeRun DEF Next

\* Every variable has its type, whatever the jobs and the bounds.
THEOREM TypeCorrect == Spec => []TypeOK
<1>1. TypeInv => TypeOK
  BY DEF TypeInv
<1> QED BY <1>1, TypeInit, TypeStep, PTL DEF Spec
-----------------------------------------------------------------------------
(***************************************************************************)
(* Only jobs that were enabled since the last start are run.  The history  *)
(* must cover every place a job waits in on its way from the table to a    *)
(* run: the list a sync has read, a built-in job between its row and its   *)
(* entry, the scheduler, and the runs; and nothing outlives the process.   *)
(***************************************************************************)
Asleep ==
    /\ \A j \in Builtin : boot[j] = "no"
    /\ \A j \in Jobs : task[j].step = "none"

SeenInv ==
    /\ Enabled \subseteq seen
    /\ scheduled \subseteq seen /\ sync.listed \subseteq seen
    /\ \A j \in Builtin : boot[j] = "adding" => j \in seen
    /\ \A j \in Jobs : task[j].step # "none" => j \in seen
    /\ phase = "down" => Asleep

\* Nothing is enabled at first.
LEMMA SeenInit == Init => SeenInv
BY DEF Init, SeenInv, Asleep, Enabled, Exists, NoSync, NoTask

\* Going down empties every place a job waits in.
LEMMA SeenGoDown ==
    ASSUME SeenInv, GoDown, UNCHANGED <<rows, seen>>
    PROVE  SeenInv'
BY DEF GoDown, SeenInv, Asleep, Enabled, Exists, NoSync, NoTask

\* Others enable jobs, and that is noted.
LEMMA SeenChange ==
    ASSUME TypeInv, SeenInv, NEW j \in Jobs,
           CreateJob(j) \/ DeleteJob(j) \/ \E enabled \in BOOLEAN : SetEnabled(j, enabled)
    PROVE  SeenInv'
<1>0. rows \in [Jobs -> Row \cup {None}]
  BY DEF TypeInv, TypeOK
<1>1. Enabled' \subseteq seen' /\ seen \subseteq seen' /\ UNCHANGED memory
  <2>1. CASE CreateJob(j)
    BY <1>0, <2>1 DEF CreateJob, Insert, SeenInv, Enabled, Exists
  <2>2. CASE DeleteJob(j)
    <3>1. \A i \in Jobs : rows'[i] \in {rows[i], None}
      BY <2>2, DeleteEffect DEF DeleteJob, TypeInv
    <3> QED BY <2>2, <3>1 DEF DeleteJob, SeenInv, Enabled, Exists
  <2>3. ASSUME NEW enabled \in BOOLEAN, SetEnabled(j, enabled)
        PROVE  Enabled' \subseteq seen' /\ seen \subseteq seen' /\ UNCHANGED memory
    <3>1. rows' = [rows EXCEPT ![j] = [rows[j] EXCEPT !.enabled = enabled]] /\ rows[j] \in Row
      BY <1>0, <2>3, RowFields DEF SetEnabled, TypeInv
    <3>2. \A i \in Jobs \ {j} : rows'[i] = rows[i]
      BY <1>0, <3>1
    <3>3. rows'[j].enabled = enabled
      BY <1>0, <3>1 DEF Row
    <3>4. seen' = IF enabled THEN seen \cup {j} ELSE seen
      BY <2>3 DEF SetEnabled
    <3> QED BY <2>3, <3>2, <3>3, <3>4 DEF SetEnabled, SeenInv, Enabled, Exists
  <2> QED BY <2>1, <2>2, <2>3
<1> QED BY <1>1 DEF memory, SeenInv, Asleep

\* The service's life and its sync.
LEMMA SeenService ==
    ASSUME TypeInv, SeenInv,
           \/ Start \/ Stop \/ ShutDown
           \/ SyncStart \/ SyncList \/ SyncAdd \/ SyncRaises \/ SyncFail
    PROVE  SeenInv'
<1>1. CASE Start
  BY <1>1 DEF Start, tables, NoSync, SeenInv, Asleep, Enabled, Exists
<1>2. CASE Stop
  BY <1>2 DEF Stop, tables, history, NoSync, SeenInv, Asleep, Enabled, Exists
<1>3. CASE ShutDown
  BY <1>3, SeenGoDown DEF ShutDown, tables
<1>4. CASE SyncStart
  BY <1>4 DEF SyncStart, tables, history, SeenInv, Asleep, Enabled, Exists
<1>5. CASE SyncList
  <2>1. Listed \subseteq Enabled
    BY DEF Listed
  <2>2. sync'.listed = Listed
    BY <1>5 DEF SyncList, TypeInv, TypeOK, Sync
  <2> QED BY <1>5, <2>1, <2>2 DEF SyncList, tables, history, SeenInv, Asleep, Enabled, Exists
<1>6. CASE SyncAdd
  <2>1. scheduled' \subseteq seen /\ sync'.listed = {} /\ UNCHANGED <<rows, task, seen>>
    BY <1>6 DEF SyncAdd, Missing, tables, history, NoSync, SeenInv
  <2>2. \/ UNCHANGED <<phase, boot>>
        \/ phase' = "bootstrapping" /\ \A j \in Builtin : boot'[j] = "looking"
    BY <1>6 DEF SyncAdd
  <2> QED BY <2>1, <2>2 DEF SeenInv, Asleep, Enabled, Exists
<1>7. CASE SyncFail
  <2>1. CASE phase = "starting"
    BY <1>7, <2>1, SeenGoDown DEF SyncFail, tables
  <2>2. CASE phase # "starting"
    BY <1>7, <2>2 DEF SyncFail, tables, NoSync, SeenInv, Asleep, Enabled, Exists
  <2> QED BY <2>1, <2>2
<1>8. CASE SyncRaises
  BY <1>8, SeenGoDown DEF SyncRaises, tables
<1> QED BY <1>1, <1>2, <1>3, <1>4, <1>5, <1>6, <1>7, <1>8

\* The bootstrap enables the built-in jobs.
LEMMA SeenBoot ==
    ASSUME TypeInv, SeenInv, NEW j \in Builtin,
           BootLook(j) \/ BootWrite(j) \/ BootAdd(j) \/ BootFail(j)
    PROVE  SeenInv'
<1>0. j \in Jobs /\ rows \in [Jobs -> Row \cup {None}] /\ DOMAIN boot = Builtin
  BY SchedulerCronAssumption DEF TypeInv, TypeOK
<1>1. CASE BootLook(j)
  BY <1>0, <1>1 DEF BootLook, tables, history, SeenInv, Asleep, Enabled, Exists
<1>2. CASE BootWrite(j)
  <2>1. \A i \in Jobs \ {j} : rows'[i] = rows[i]
    BY <1>0, <1>2 DEF BootWrite, Insert
  <2>2. seen' = seen \cup {j} /\ UNCHANGED <<phase, scheduled, sync, task>> /\ phase # "down"
    BY <1>2 DEF BootWrite, SeenInv, Asleep
  <2>3. Enabled' \subseteq seen'
    BY <2>1, <2>2 DEF SeenInv, Enabled, Exists
  <2>4. \A i \in Builtin : boot'[i] = IF i = j THEN "adding" ELSE boot[i]
    BY <1>0, <1>2 DEF BootWrite
  <2> QED BY <2>2, <2>3, <2>4 DEF SeenInv
<1>3. CASE BootAdd(j)
  <2>1. phase # "down" /\ phase' \in {phase, "up"} /\ scheduled' \subseteq seen
    BY <1>3 DEF BootAdd, SeenInv, Asleep
  <2>2. \A i \in Builtin : boot'[i] = IF i = j THEN "done" ELSE boot[i]
    BY <1>0, <1>3 DEF BootAdd
  <2> QED BY <1>3, <2>1, <2>2 DEF BootAdd, tables, history, SeenInv, Enabled, Exists
<1>4. CASE BootFail(j)
  BY <1>4, SeenGoDown DEF BootFail, tables
<1> QED BY <1>1, <1>2, <1>3, <1>4

\* A run enables nothing and begins with a job of the scheduler.
LEMMA SeenRun ==
    ASSUME TypeInv, SeenInv, NEW j \in Jobs, Fire(j) \/ Skip(j) \/ RunStep(j) \/ RunFail(j)
    PROVE  SeenInv'
<1>0. rows \in [Jobs -> Row \cup {None}] /\ task \in [Jobs -> Task]
  BY DEF TypeInv, TypeOK
<1>1. ASSUME Enabled' \subseteq Enabled, scheduled' \subseteq scheduled,
             UNCHANGED <<sync, boot, phase, seen>>,
             \A i \in Jobs : task[i].step = "none" => task'[i].step = "none"
      PROVE  SeenInv'
  BY <1>1 DEF SeenInv, Asleep
<1>2. CASE Fire(j)
  <2>1. phase # "down" /\ j \in seen
    BY <1>2 DEF Fire, Running, SeenInv
  <2>2. \A i \in Jobs \ {j} : task'[i] = task[i]
    BY <1>0, <1>2 DEF Fire
  <2> QED BY <1>2, <2>1, <2>2 DEF Fire, Leave, tables, SeenInv, Enabled, Exists
<1>3. CASE Skip(j)
  BY <1>1, <1>3 DEF Skip, Leave, tables, history, Enabled, Exists
<1>4. CASE RunStep(j) \/ RunFail(j)
  <2>1. \A i \in Jobs : task[i].step = "none" => task'[i].step = "none"
    <3>1. task[j].step # "none" /\ \A i \in Jobs \ {j} : task'[i] = task[i]
      BY <1>0, <1>4 DEF RunStep, RunFail, CreateRun, Execute, CompleteRun, ReadJob, CountRun,
                        RemoveEntry, DeleteDone, At, Go, End
    <3> QED BY <3>1
  <2>2. Enabled' \subseteq Enabled
    <3>1. CASE CountRun(j)
      <4>1. TypeOK /\ WriteCount(j)
        BY <3>1 DEF CountRun, TypeInv
      <4>2. \A i \in Jobs : /\ Exists(i)' <=> Exists(i)
                            /\ Exists(i) => rows'[i].enabled = rows[i].enabled
        BY <4>1, WriteEffect
      <4> QED BY <4>2 DEF Enabled
    <3>2. CASE DeleteDone(j)
      <4>1. \A i \in Jobs : rows'[i] \in {rows[i], None}
        BY <3>2, DeleteEffect DEF DeleteDone, TypeInv
      <4> QED BY <4>1 DEF Enabled, Exists
    <3>3. CASE UNCHANGED rows
      BY <3>3 DEF Enabled, Exists
    <3> QED BY <1>4, <3>1, <3>2, <3>3
            DEF RunStep, RunFail, CreateRun, Execute, CompleteRun, ReadJob, RemoveEntry, tables
  <2>3. scheduled' \subseteq scheduled /\ UNCHANGED <<sync, boot, phase, seen>>
    BY <1>4 DEF RunStep, RunFail, CreateRun, Execute, CompleteRun, ReadJob, CountRun,
                RemoveEntry, DeleteDone, history
  <2> QED BY <1>1, <2>1, <2>2, <2>3
<1> QED BY <1>2, <1>3, <1>4

\* No step lets a job through that was not enabled.
LEMMA SeenStep == TypeInv /\ SeenInv /\ [Next]_vars => SeenInv'
<1> SUFFICES ASSUME TypeInv, SeenInv, [Next]_vars
             PROVE  SeenInv'
  OBVIOUS
<1>1. CASE UNCHANGED vars
  BY <1>1 DEF vars, tables, memory, history, SeenInv, Asleep, Enabled, Exists
<1> QED BY <1>1, SeenService, SeenBoot, SeenChange, SeenRun DEF Next

\* No job is held by the scheduler or run that was not enabled at some time
\* since the service last started.
THEOREM DisabledJobsAreForgotten == Spec => []RunsWereEnabled
<1>1. SeenInv => RunsWereEnabled
  BY DEF SeenInv, RunsWereEnabled
<1> QED BY <1>1, TypeInit, TypeStep, SeenInit, SeenStep, PTL DEF Spec
-----------------------------------------------------------------------------
(***************************************************************************)
(* What the steps do to rows and runs.  Beside the steps of a run there    *)
(* are five kinds; the invariants below look at these only.                *)
(***************************************************************************)
NothingCreated == \A i \in Builtin : boot'[i] = "creating" => boot[i] = "creating"

Quiet ==
    /\ UNCHANGED <<rows, runs, unused, done, heirs>>
    /\ \/ UNCHANGED <<task, cuts>>
       \/ \A i \in Jobs : /\ task'[i] = NoTask
                          /\ cuts'[i] = IF task[i].step = "none" THEN cuts[i] ELSE cuts[i] + 1
    /\ \A i \in Builtin : boot'[i] = "creating" => boot[i] = "creating" \/ ~Exists(i)

Inserts(j) ==
    /\ Insert(j)
    /\ UNCHANGED <<runs, task, done, cuts>>
    /\ j \notin Builtin => j \in unused
    /\ j \in Builtin => boot[j] = "creating" /\ boot'[j] = "adding"
    /\ NothingCreated
    /\ heirs \subseteq heirs'
    /\ \A i \in Jobs \ {j} : Name[i] = Name[j] => /\ ~Exists(i)
                                                  /\ task[i].step = "counting" => j \in heirs'

Touches(j) ==
    /\ Exists(j) /\ \E enabled \in BOOLEAN : rows' = [rows EXCEPT ![j].enabled = enabled]
    /\ UNCHANGED <<runs, unused, task, done, cuts, heirs>>
    /\ NothingCreated

Deletes(j) ==
    /\ j \notin Builtin /\ Delete(j)
    /\ UNCHANGED <<unused, task, done, cuts, heirs, boot>>

Fires(j) ==
    /\ task[j].step = "none" /\ task' = [task EXCEPT ![j] = [NoTask EXCEPT !.step = "creating"]]
    /\ UNCHANGED <<rows, runs, unused, done, cuts, heirs, boot>>

\* There are no other kinds.
LEMMA StepKinds ==
    ASSUME TypeInv, [Next]_vars
    PROVE  \/ Quiet
           \/ \E j \in Jobs : \/ Inserts(j) \/ Touches(j) \/ Deletes(j) \/ Fires(j)
                              \/ RunStep(j) \/ RunFail(j)
<1>0. DOMAIN boot = Builtin /\ Builtin \subseteq Jobs
  BY SchedulerCronAssumption DEF TypeInv, TypeOK
<1>1. ASSUME GoDown, UNCHANGED <<tables, done, heirs>>
      PROVE  Quiet
  BY <1>1 DEF GoDown, tables, Quiet
<1>2. CASE UNCHANGED vars
  BY <1>2 DEF vars, tables, memory, history, Quiet
<1>3. ASSUME \/ Start \/ Stop \/ ShutDown
             \/ SyncStart \/ SyncList \/ SyncAdd \/ SyncRaises \/ SyncFail
      PROVE  Quiet
  <2>1. CASE ShutDown
    BY <1>1, <2>1 DEF ShutDown
  <2>2. CASE SyncFail
    BY <1>1, <2>2 DEF SyncFail, tables, Quiet
  <2>3. CASE SyncAdd
    BY <2>3 DEF SyncAdd, tables, history, Quiet
  <2>4. CASE SyncRaises
    BY <1>1, <2>4 DEF SyncRaises
  <2> QED BY <1>3, <2>1, <2>2, <2>3, <2>4
          DEF Start, Stop, SyncStart, SyncList, tables, history, Quiet
<1>4. ASSUME NEW j \in Builtin, BootLook(j) \/ BootWrite(j) \/ BootAdd(j) \/ BootFail(j)
      PROVE  Quiet \/ Inserts(j) \/ Touches(j)
  <2>1. CASE BootLook(j)
    BY <1>0, <2>1 DEF BootLook, tables, history, Quiet
  <2>2. CASE BootWrite(j)
    <3>1. boot'[j] = "adding" /\ NothingCreated
      BY <1>0, <2>2 DEF BootWrite, NothingCreated
    <3>2. CASE boot[j] = "creating"
      <4>1. \A i \in Jobs \ {j} : Name[i] # Name[j]
        BY SchedulerCronAssumption
      <4> QED BY <2>2, <3>1, <3>2, <4>1 DEF BootWrite, Inserts
    <3>3. CASE boot[j] = "updating"
      <4>1. Exists(j)
        BY <3>3 DEF TypeInv
      <4>2. rows' = [rows EXCEPT ![j].enabled = TRUE] /\ unused' = unused
        BY <2>2, <3>3 DEF BootWrite
      <4> QED BY <2>2, <3>1, <4>1, <4>2 DEF BootWrite, Touches
    <3> QED BY <2>2, <3>2, <3>3 DEF BootWrite
  <2>3. CASE BootAdd(j)
    BY <1>0, <2>3 DEF BootAdd, tables, history, Quiet
  <2>4. CASE BootFail(j)
    BY <1>1, <2>4 DEF BootFail
  <2> QED BY <1>4, <2>1, <2>2, <2>3, <2>4
<1>5. ASSUME NEW j \in Jobs,
             CreateJob(j) \/ DeleteJob(j) \/ \E enabled \in BOOLEAN : SetEnabled(j, enabled)
      PROVE  Inserts(j) \/ Deletes(j) \/ Touches(j)
  <2>1. CASE CreateJob(j)
    <3>1. /\ heirs \subseteq heirs'
          /\ \A i \in Jobs : Name[i] = Name[j] => /\ ~Exists(i)
                                                  /\ task[i].step = "counting" => j \in heirs'
      BY <2>1 DEF CreateJob, Namesakes
    <3> QED BY <2>1, <3>1 DEF CreateJob, memory, Inserts, NothingCreated
  <2>2. CASE DeleteJob(j)
    BY <2>2 DEF DeleteJob, memory, Deletes
  <2>3. CASE \E enabled \in BOOLEAN : SetEnabled(j, enabled)
    BY <2>3 DEF SetEnabled, memory, Touches, NothingCreated
  <2> QED BY <1>5, <2>1, <2>2, <2>3
<1>6. ASSUME NEW j \in Jobs, Fire(j) \/ Skip(j)
      PROVE  Fires(j) \/ Quiet
  BY <1>6 DEF Fire, Skip, tables, history, Fires, Quiet
<1> QED BY <1>0, <1>2, <1>3, <1>4, <1>5, <1>6 DEF Next

\* What an insert and an update of the enabled flag leave in the table.
LEMMA InsertEffect ==
    ASSUME TypeInv, NEW j \in Jobs, Insert(j)
    PROVE  /\ \A i \in Jobs \ {j} : rows'[i] = rows[i]
           /\ rows'[j] # None /\ rows'[j].run_count = 0 /\ rows'[j].failure_count = 0
           /\ unused' = unused \ {j}
<1>1. rows'[j] # None
  BY InsertTypes DEF TypeInv, Exists
<1> QED BY <1>1 DEF TypeInv, TypeOK, Insert

LEMMA TouchEffect ==
    ASSUME TypeInv, NEW j \in Jobs, Touches(j)
    PROVE  \A i \in Jobs : /\ Exists(i)' <=> Exists(i)
                           /\ Exists(i) => /\ rows'[i].run_count = rows[i].run_count
                                           /\ rows'[i].failure_count = rows[i].failure_count
<1>1. PICK enabled \in BOOLEAN : rows' = [rows EXCEPT ![j] = [rows[j] EXCEPT !.enabled = enabled]]
  BY DEF Touches
<1>2. rows[j] \in Row /\ [rows[j] EXCEPT !.enabled = enabled] \in Row /\ rows[j] # None
  BY RowFields DEF Touches, TypeInv, Exists
<1>3. rows'[j] # None /\ \A i \in Jobs \ {j} : rows'[i] = rows[i]
  BY <1>1, <1>2, SchedulerCronAssumption DEF TypeInv, TypeOK
<1>4. rows'[j] = [rows[j] EXCEPT !.enabled = enabled]
  BY <1>1 DEF TypeInv, TypeOK
<1>5. rows'[j].run_count = rows[j].run_count /\ rows'[j].failure_count = rows[j].failure_count
  BY <1>2, <1>4 DEF Row
<1> QED BY <1>2, <1>3, <1>5 DEF Exists

\* The counter that a run writes back.
LEMMA CountEffect ==
    ASSUME TypeInv, NEW j \in Jobs, CountRun(j)
    PROVE  /\ \A i \in Jobs : /\ Exists(i)' <=> Exists(i)
                              /\ i \notin Namesakes(j) => rows'[i] = rows[i]
           /\ UNCHANGED <<runs, unused, boot, history>>
           /\ \/ task'[j].step = "removing" /\ task'[j].ok /\ task[j].ok
              \/ task'[j] = NoTask
           /\ (task[j].ok /\ j \in AutoDelete) => task'[j].step = "removing"
           /\ Exists(j) =>
                IF task[j].ok
                  THEN /\ rows'[j].run_count = task[j].count + 1
                       /\ rows'[j].failure_count = rows[j].failure_count
                  ELSE /\ rows'[j].failure_count = task[j].count + 1
                       /\ rows'[j].run_count = rows[j].run_count
<1>1. TypeOK /\ WriteCount(j)
  BY DEF CountRun, TypeInv
<1>2. \A i \in Jobs : /\ Exists(i)' <=> Exists(i)
                      /\ i \notin Namesakes(j) => rows'[i] = rows[i]
  BY <1>1, WriteEffect
<1>3. Exists(j) => j \in Namesakes(j)
  BY DEF Namesakes
<1>4. Exists(j) =>
         IF task[j].ok
           THEN /\ rows'[j].run_count = task[j].count + 1
                /\ rows'[j].failure_count = rows[j].failure_count
           ELSE /\ rows'[j].failure_count = task[j].count + 1
                /\ rows'[j].run_count = rows[j].run_count
  BY <1>1, <1>3, WriteEffect
<1>5. /\ UNCHANGED <<runs, unused, boot, history>>
      /\ \/ task'[j].step = "removing" /\ task'[j].ok /\ task[j].ok
         \/ task'[j] = NoTask
      /\ (task[j].ok /\ j \in AutoDelete) => task'[j].step = "removing"
  <2>1. task \in [Jobs -> Task] /\ task[j] \in Task
    BY <1>1 DEF TypeOK
  <2> QED BY <2>1 DEF CountRun, Go, End, Task
<1> QED BY <1>2, <1>4, <1>5

\* A run moves its own task, and of other jobs only the row that has its name:
\* no row comes into being, and no built-in job's row goes.
LEMMA RunEffect ==
    ASSUME TypeInv, NEW j \in Jobs, RunStep(j) \/ RunFail(j)
    PROVE  /\ task[j].step # "none" /\ \A i \in Jobs \ {j} : task'[i] = task[i]
           /\ task'[j].step = "counting" => Exists(j)
           /\ UNCHANGED <<unused, boot, heirs>>
           /\ \A i \in Jobs \ {j} : done'[i] = done[i] /\ cuts'[i] = cuts[i]
           /\ \A i \in Jobs \ {j} :
                 \/ rows'[i] = rows[i] /\ runs'[i] = runs[i]
                 \/ /\ task[j].step = "counting" /\ i \in Namesakes(j)
                    /\ Exists(i)' /\ runs'[i] = runs[i]
                 \/ rows'[i] = None /\ runs'[i] = NoRuns
           /\ \A i \in Jobs : Exists(i)' => Exists(i)
           /\ \A i \in Builtin : Exists(i) => Exists(i)'
<1>0. /\ TypeOK /\ (Deleting(j) => j \in AutoDelete)
      /\ task \in [Jobs -> Task] /\ runs \in [Jobs -> [Statuses -> Nat]]
      /\ done \in [Jobs -> Nat] /\ cuts \in [Jobs -> Nat]
  BY DEF TypeInv, TypeOK
<1>1. task[j].step # "none" /\ \A i \in Jobs \ {j} : task'[i] = task[i]
  BY <1>0 DEF RunStep, RunFail, CreateRun, Execute, CompleteRun, ReadJob, CountRun,
              RemoveEntry, DeleteDone, At, Go, End
<1>2. /\ UNCHANGED <<unused, boot, heirs>>
      /\ \A i \in Jobs \ {j} : done'[i] = done[i] /\ cuts'[i] = cuts[i]
  BY <1>0 DEF RunStep, RunFail, CreateRun, Execute, CompleteRun, ReadJob, CountRun,
              RemoveEntry, DeleteDone, tables, history
<1>3. CASE CountRun(j)
  <2>1. task[j].step = "counting" /\ task'[j].step # "counting"
    BY <1>3, CountEffect DEF CountRun, At, NoTask
  <2>2. \A i \in Namesakes(j) : i \in Jobs /\ Exists(i)
    BY DEF Namesakes
  <2>3. /\ \A i \in Jobs : /\ Exists(i)' <=> Exists(i)
                           /\ i \notin Namesakes(j) => rows'[i] = rows[i]
        /\ runs' = runs
    BY <1>3, CountEffect
  <2> QED BY <1>1, <1>2, <2>1, <2>2, <2>3, SchedulerCronAssumption
<1>4. CASE DeleteDone(j)
  <2>1. j \notin Builtin /\ Delete(j)
    BY <1>0, <1>4, SchedulerCronAssumption DEF DeleteDone, At, Deleting
  <2>2. /\ \A i \in Jobs : \/ rows'[i] = rows[i] /\ runs'[i] = runs[i]
                           \/ rows'[i] = None /\ runs'[i] = NoRuns
        /\ \A i \in Builtin : rows'[i] = rows[i]
    BY <1>0, <2>1, DeleteEffect
  <2>3. task'[j].step = "none"
    BY <1>0, <1>4 DEF DeleteDone, End, NoTask
  <2> QED BY <1>1, <1>2, <2>2, <2>3 DEF Exists
<1>5. CASE ~CountRun(j) /\ ~DeleteDone(j)
  <2>1. rows' = rows /\ \A i \in Jobs \ {j} : runs'[i] = runs[i]
    BY <1>0, <1>5 DEF RunStep, RunFail, CreateRun, Execute, CompleteRun, ReadJob, RemoveEntry,
                      tables
  <2>2. task'[j].step = "counting" => Exists(j)
    BY <1>0, <1>5 DEF RunStep, RunFail, CreateRun, Execute, CompleteRun, ReadJob, RemoveEntry,
                      Go, End, NoTask, Task
  <2> QED BY <1>1, <1>2, <2>1, <2>2, SchedulerCronAssumption DEF Exists
<1> QED BY <1>3, <1>4, <1>5
-----------------------------------------------------------------------------
(***************************************************************************)
(* The life of an id: unused, then in the table, then gone for good; only  *)
(* a job that was in the table has runs.                                   *)
(***************************************************************************)
TableInv ==
    /\ \A j \in Jobs : Exists(j) => j \notin unused
    /\ \A j \in unused : task[j].step \in {"none", "creating"} /\ runs[j] = NoRuns
    /\ \A j \in Builtin : /\ Exists(j) \/ j \in unused
                          /\ boot[j] = "creating" => j \in unused

\* All ids are unused at first.
LEMMA TableInit == Init => TableInv
BY SchedulerCronAssumption DEF Init, TableInv, Exists, NoTask

\* No step brings an id back.
LEMMA TableStep == TypeInv /\ TableInv /\ [Next]_vars => TableInv'
<1> SUFFICES ASSUME TypeInv, TableInv, [Next]_vars
             PROVE  TableInv'
  OBVIOUS
<1>0. Builtin \subseteq Jobs /\ Builtin \cap AutoDelete = {} /\ unused \subseteq Jobs
  BY SchedulerCronAssumption DEF TypeInv, TypeOK
<1>1. CASE Quiet
  BY <1>0, <1>1 DEF Quiet, NoTask, TableInv, Exists
<1>2. ASSUME NEW j \in Jobs, Inserts(j)
      PROVE  TableInv'
  <2>1. /\ \A i \in Jobs \ {j} : rows'[i] = rows[i]
        /\ rows'[j] # None /\ unused' = unused \ {j}
    BY <1>2, InsertEffect DEF Inserts
  <2> QED BY <1>0, <1>2, <2>1 DEF Inserts, NothingCreated, TableInv, Exists
<1>3. ASSUME NEW j \in Jobs, Touches(j)
      PROVE  TableInv'
  BY <1>0, <1>3, TouchEffect DEF Touches, NothingCreated, TableInv
<1>4. ASSUME NEW j \in Jobs, Deletes(j)
      PROVE  TableInv'
  <2>1. /\ \A i \in Jobs : \/ rows'[i] = rows[i] /\ runs'[i] = runs[i]
                           \/ rows'[i] = None /\ runs'[i] = NoRuns
        /\ \A i \in Builtin : rows'[i] = rows[i]
    BY <1>4, DeleteEffect DEF Deletes, TypeInv
  <2> QED BY <1>0, <1>4, <2>1 DEF Deletes, TableInv, Exists
<1>5. ASSUME NEW j \in Jobs, Fires(j)
      PROVE  TableInv'
  <2>1. task'[j].step = "creating" /\ \A i \in Jobs \ {j} : task'[i] = task[i]
    BY <1>5 DEF Fires, NoTask, TypeInv, TypeOK
  <2> QED BY <1>0, <1>5, <2>1 DEF Fires, TableInv, Exists
<1>6. ASSUME NEW j \in Jobs, RunStep(j) \/ RunFail(j)
      PROVE  TableInv'
  <2>1. /\ task[j].step # "none" /\ \A i \in Jobs \ {j} : task'[i] = task[i]
        /\ UNCHANGED <<unused, boot>>
        /\ \A i \in Jobs \ {j} : runs'[i] \in {runs[i], NoRuns}
        /\ \A i \in Jobs : Exists(i)' => Exists(i)
        /\ \A i \in Builtin : Exists(i) => Exists(i)'
    BY <1>6, RunEffect
  <2>2. j \in unused => task'[j].step = "none" /\ runs'[j] = runs[j]
    <3>1. ASSUME j \in unused
          PROVE  ~Exists(j) /\ task[j].step = "creating"
      BY <1>0, <2>1, <3>1 DEF TableInv
    <3>2. NoTask.step = "none" /\ task \in [Jobs -> Task]
      BY DEF NoTask, TypeInv, TypeOK
    <3> QED BY <1>6, <3>1, <3>2 DEF RunStep, RunFail, CreateRun, Execute, CompleteRun, ReadJob,
                                    CountRun, RemoveEntry, DeleteDone, At, End, tables
  <2> QED BY <1>0, <2>1, <2>2 DEF TableInv
<1> QED BY <1>1, <1>2, <1>3, <1>4, <1>5, <1>6, StepKinds
-----------------------------------------------------------------------------
(***************************************************************************)
(* Once is once.  The bound on the successes is kept because a job that    *)
(* has one too many is in the last steps of the run that had it, or gone:  *)
(* a job that may still be executed has none that was not cut short.       *)
(***************************************************************************)
Finishing(j) ==
    /\ task[j].ok
    /\ task[j].step \in {"completing", "reading", "counting", "removing", "deleting"}

MayExecute(j) == (Exists(j) \/ j \in unused \/ task[j].step = "executing") /\ ~Finishing(j)

OnceInv ==
    \A j \in AutoDelete : /\ done[j] <= 1 + cuts[j]
                          /\ MayExecute(j) => done[j] <= cuts[j]

\* Nothing has been executed at first.
LEMMA OnceInit == Init => OnceInv
BY SchedulerCronAssumption DEF Init, OnceInv

\* A second execution needs a first one that was cut short.
LEMMA OnceStep == TypeInv /\ TableInv /\ OnceInv /\ [Next]_vars => OnceInv'
<1> SUFFICES ASSUME TypeInv, TableInv, OnceInv, [Next]_vars,
                    NEW i \in AutoDelete
             PROVE  done'[i] <= 1 + cuts'[i] /\ (MayExecute(i)' => done'[i] <= cuts'[i])
  BY DEF OnceInv
<1>0. /\ i \in Jobs /\ i \notin Builtin
      /\ done[i] \in Nat /\ cuts[i] \in Nat /\ task[i] \in Task
      /\ done[i] <= 1 + cuts[i] /\ (MayExecute(i) => done[i] <= cuts[i])
  BY SchedulerCronAssumption DEF TypeInv, TypeOK, OnceInv
<1>1. CASE Quiet
  <2>1. CASE UNCHANGED <<task, cuts>>
    BY <1>0, <1>1, <2>1 DEF Quiet, MayExecute, Finishing, Exists
  <2>2. CASE task'[i] = NoTask /\ cuts'[i] = IF task[i].step = "none" THEN cuts[i] ELSE cuts[i] + 1
    <3>1. CASE task[i].step = "none"
      BY <1>0, <1>1, <2>2, <3>1 DEF Quiet, NoTask, MayExecute, Finishing, Exists
    <3>2. CASE task[i].step # "none"
      BY <1>0, <1>1, <2>2, <3>2 DEF Quiet
    <3> QED BY <3>1, <3>2
  <2> QED BY <1>0, <1>1, <2>1, <2>2 DEF Quiet
<1>2. ASSUME NEW j \in Jobs, Inserts(j)
      PROVE  done'[i] <= 1 + cuts'[i] /\ (MayExecute(i)' => done'[i] <= cuts'[i])
  <2>1. /\ \A k \in Jobs \ {j} : rows'[k] = rows[k]
        /\ unused' = unused \ {j}
    BY <1>2, InsertEffect DEF Inserts
  <2>2. i = j => i \in unused
    BY <1>0, <1>2 DEF Inserts
  <2> QED BY <1>0, <1>2, <2>1, <2>2 DEF Inserts, MayExecute, Finishing, Exists
<1>3. ASSUME NEW j \in Jobs, Touches(j)
      PROVE  done'[i] <= 1 + cuts'[i] /\ (MayExecute(i)' => done'[i] <= cuts'[i])
  BY <1>0, <1>3, TouchEffect DEF Touches, MayExecute, Finishing
<1>4. ASSUME NEW j \in Jobs, Deletes(j)
      PROVE  done'[i] <= 1 + cuts'[i] /\ (MayExecute(i)' => done'[i] <= cuts'[i])
  <2>1. rows'[i] \in {rows[i], None}
    BY <1>0, <1>4, DeleteEffect DEF Deletes, TypeInv
  <2> QED BY <1>0, <1>4, <2>1 DEF Deletes, MayExecute, Finishing, Exists
<1>5. ASSUME NEW j \in Jobs, Fires(j)
      PROVE  done'[i] <= 1 + cuts'[i] /\ (MayExecute(i)' => done'[i] <= cuts'[i])
  <2>1. task'[j].step = "creating" /\ \A k \in Jobs \ {j} : task'[k] = task[k]
    BY <1>5 DEF Fires, NoTask, TypeInv, TypeOK
  <2> QED BY <1>0, <1>5, <2>1 DEF Fires, MayExecute, Finishing, Exists
<1>6. ASSUME NEW j \in Jobs \ {i}, RunStep(j) \/ RunFail(j)
      PROVE  done'[i] <= 1 + cuts'[i] /\ (MayExecute(i)' => done'[i] <= cuts'[i])
  <2>1. /\ task'[i] = task[i] /\ (Exists(i)' => Exists(i)) /\ unused' = unused
        /\ done'[i] = done[i] /\ cuts'[i] = cuts[i]
    BY <1>0, <1>6, RunEffect
  <2> QED BY <1>0, <2>1 DEF MayExecute, Finishing
<1>7. ASSUME RunStep(i) \/ RunFail(i)
      PROVE  done'[i] <= 1 + cuts'[i] /\ (MayExecute(i)' => done'[i] <= cuts'[i])
  <2>0. /\ unused' = unused /\ NoTask.step = "none" /\ task \in [Jobs -> Task]
        /\ i \in unused => task[i].step \in {"none", "creating"}
    BY <1>0, <1>7, RunEffect DEF NoTask, TableInv, TypeInv, TypeOK
  <2>1. CASE RunFail(i)
    <3>1. done' = done /\ cuts'[i] = cuts[i] + 1
      BY <1>0, <2>1 DEF RunFail, TypeInv, TypeOK
    <3> QED BY <1>0, <3>1
  <2>2. CASE CreateRun(i)
    <3>1. /\ UNCHANGED <<rows, unused, done, cuts>> /\ task[i].step = "creating"
          /\ (task'[i].step = "executing" /\ Exists(i)) \/ task'[i].step = "none"
      BY <1>0, <2>0, <2>2 DEF CreateRun, At, Go, End, history, Task
    <3> QED BY <1>0, <3>1 DEF MayExecute, Finishing, Exists
  <2>3. ASSUME NEW ok \in BOOLEAN, Execute(i, ok)
        PROVE  done'[i] <= 1 + cuts'[i] /\ (MayExecute(i)' => done'[i] <= cuts'[i])
    <3>1. /\ task[i].step = "executing" /\ cuts' = cuts
          /\ done'[i] = IF ok THEN done[i] + 1 ELSE done[i]
          /\ task'[i].step = "completing" /\ task'[i].ok = ok
      BY <1>0, <2>0, <2>3 DEF Execute, At, Task, TypeInv, TypeOK
    <3>2. done[i] <= cuts[i]
      BY <1>0, <3>1 DEF MayExecute, Finishing
    <3> QED BY <1>0, <3>1, <3>2 DEF MayExecute, Finishing
  <2>4. CASE CompleteRun(i) \/ RemoveEntry(i)
    <3>1. /\ task'[i].step \in {"reading", "deleting"} /\ task'[i].ok = task[i].ok
          /\ task[i].step \in {"completing", "removing"}
          /\ UNCHANGED <<rows, unused, done, cuts>>
      BY <1>0, <2>0, <2>4 DEF CompleteRun, RemoveEntry, At, Go, Task, tables, history
    <3> QED BY <1>0, <3>1 DEF MayExecute, Finishing, Exists
  <2>5. CASE ReadJob(i)
    <3>1. /\ task[i].step = "reading" /\ UNCHANGED <<rows, unused, done, cuts>>
          /\ \/ ~Exists(i) /\ task'[i].step = "none"
             \/ Exists(i) /\ task'[i].step = "counting" /\ task'[i].ok = task[i].ok
      BY <1>0, <2>0, <2>5 DEF ReadJob, At, End, Task, tables, history
    <3> QED BY <1>0, <2>0, <3>1 DEF MayExecute, Finishing, Exists
  <2>6. CASE CountRun(i)
    <3>1. task[i].step = "counting" /\ UNCHANGED <<done, cuts>>
      BY <2>6, CountEffect, <1>0 DEF CountRun, At, history
    <3>2. CASE task[i].ok
      <4>1. task'[i].step = "removing" /\ task'[i].ok
        BY <1>0, <2>6, <3>2, CountEffect DEF NoTask
      <4> QED BY <1>0, <3>1, <4>1 DEF MayExecute, Finishing
    <3>3. CASE ~task[i].ok
      <4>1. task'[i] = NoTask /\ (Exists(i)' <=> Exists(i))
        BY <1>0, <2>6, <3>3, CountEffect
      <4> QED BY <1>0, <2>0, <3>1, <3>3, <4>1 DEF MayExecute, Finishing
    <3> QED BY <3>2, <3>3
  <2>7. CASE DeleteDone(i)
    <3>1. /\ task[i].step = "deleting" /\ UNCHANGED <<done, cuts>>
          /\ Delete(i) /\ task'[i].step = "none"
      BY <1>0, <2>0, <2>7 DEF DeleteDone, At, End, history
    <3>2. rows'[i] = None
      BY <1>0, <3>1, DeleteEffect DEF Namesakes, Exists, TypeInv
    <3> QED BY <1>0, <2>0, <3>1, <3>2 DEF MayExecute, Exists
  <2> QED BY <1>7, <2>1, <2>2, <2>3, <2>4, <2>5, <2>6, <2>7 DEF RunStep
<1> QED BY <1>1, <1>2, <1>3, <1>4, <1>5, <1>6, <1>7, StepKinds

\* A job that deletes itself is executed successfully once, and once more at
\* most for every run that was cut short, whatever the sync does meanwhile.
THEOREM OnceJobsRunOnce == Spec => []OnceIsOnce
<1>1. OnceInv => OnceIsOnce
  BY DEF OnceInv, OnceIsOnce
<1> QED BY <1>1, TypeInit, TypeStep, TableInit, TableStep, OnceInit, OnceStep, PTL DEF Spec
-----------------------------------------------------------------------------
(***************************************************************************)
(* Names are unique among the rows there are, so a run that reads its      *)
(* counter is alone with its name; whoever takes the name before the       *)
(* counter is written is an heir.                                          *)
(***************************************************************************)
NameInv ==
    \A i, j \in Jobs : Exists(i) /\ i # j /\ Name[i] = Name[j] =>
        ~Exists(j) /\ (task[j].step = "counting" => i \in heirs)

\* There are no rows at first.
LEMMA NameInit == Init => NameInv
BY DEF Init, NameInv, Exists

\* A step that brings no row into being, and no run to the writing of a counter.
LEMMA NameFrame ==
    ASSUME NameInv, heirs' = heirs, \A i \in Jobs : Exists(i)' => Exists(i),
           \A i \in Jobs : task'[i].step = "counting" => task[i].step = "counting"
    PROVE  NameInv'
BY DEF NameInv

\* No step makes a second row of a name, and no heir goes unnoticed.
LEMMA NameStep == TypeInv /\ NameInv /\ [Next]_vars => NameInv'
<1> SUFFICES ASSUME TypeInv, NameInv, [Next]_vars
             PROVE  NameInv'
  OBVIOUS
<1>1. CASE Quiet
  <2>1. \A i \in Jobs : task'[i].step = "counting" => task[i].step = "counting"
    BY <1>1 DEF Quiet, NoTask
  <2> QED BY <1>1, <2>1, NameFrame DEF Quiet, Exists
<1>2. ASSUME NEW j \in Jobs, Inserts(j)
      PROVE  NameInv'
  <2>1. \A i \in Jobs \ {j} : Exists(i)' <=> Exists(i)
    BY <1>2, InsertEffect DEF Inserts, Exists
  <2>2. /\ task' = task /\ heirs \subseteq heirs'
        /\ \A i \in Jobs \ {j} : Name[i] = Name[j] => /\ ~Exists(i)
                                                      /\ task[i].step = "counting" => j \in heirs'
    BY <1>2 DEF Inserts
  <2> QED BY <2>1, <2>2 DEF NameInv
<1>3. ASSUME NEW j \in Jobs, Touches(j)
      PROVE  NameInv'
  BY <1>3, TouchEffect, NameFrame DEF Touches
<1>4. ASSUME NEW j \in Jobs, Deletes(j)
      PROVE  NameInv'
  <2>1. \A i \in Jobs : rows'[i] \in {rows[i], None}
    BY <1>4, DeleteEffect DEF Deletes, TypeInv
  <2> QED BY <1>4, <2>1, NameFrame DEF Deletes, Exists
<1>5. ASSUME NEW j \in Jobs, Fires(j)
      PROVE  NameInv'
  <2>1. \A i \in Jobs : task'[i].step = "counting" => task[i].step = "counting"
    BY <1>5 DEF Fires, NoTask, TypeInv, TypeOK
  <2> QED BY <1>5, <2>1, NameFrame DEF Fires, Exists
<1>6. ASSUME NEW j \in Jobs, RunStep(j) \/ RunFail(j)
      PROVE  NameInv'
  <2>1. /\ \A i \in Jobs \ {j} : task'[i] = task[i]
        /\ task'[j].step = "counting" => Exists(j)
        /\ heirs' = heirs /\ \A i \in Jobs : Exists(i)' => Exists(i)
    BY <1>6, RunEffect
  <2> QED BY <2>1 DEF NameInv
<1> QED BY <1>1, <1>2, <1>3, <1>4, <1>5, <1>6, StepKinds
-----------------------------------------------------------------------------
(***************************************************************************)
(* Runs are counted.  The counter is written back from a copy; the copy is *)
(* true because a job has one run at a time, an id one life, and a run     *)
(* writes to its own row or to an heir's.                                  *)
(***************************************************************************)
Uncounted(j) ==
    runs[j]["success"] + runs[j]["failed"] - rows[j].run_count - rows[j].failure_count
Counting(j) == IF task[j].step \in {"reading", "counting"} THEN 1 ELSE 0

Counted(j) ==
    /\ Counting(j) <= Uncounted(j) /\ Uncounted(j) <= Counting(j) + cuts[j]
    /\ task[j].step \in {"executing", "completing"} => runs[j]["running"] # 0
    /\ task[j].step = "counting" =>
          task[j].count = IF task[j].ok THEN rows[j].run_count ELSE rows[j].failure_count

CountInv == \A j \in Jobs : Exists(j) /\ j \notin heirs => Counted(j)

\* There is nothing to count at first.
LEMMA CountInit == Init => CountInv
BY DEF Init, CountInv, Exists

\* The fields that are counted are numbers.
LEMMA CountFields ==
    ASSUME TypeOK, NEW j \in Jobs
    PROVE  /\ runs[j] \in [Statuses -> Nat] /\ cuts[j] \in Nat /\ task[j] \in Task
           /\ \A s \in Statuses : runs[j][s] \in Nat
           /\ Exists(j) => rows[j].run_count \in Nat /\ rows[j].failure_count \in Nat
<1>1. Exists(j) => rows[j] \in Row
  BY DEF TypeOK, Exists
<1> QED BY <1>1 DEF TypeOK, Row

\* A job that none of a step's statements touch stays counted.
LEMMA CountFrame ==
    ASSUME NEW i \in Jobs, Counted(i), task'[i] = task[i], runs'[i] = runs[i],
           cuts'[i] = cuts[i], rows'[i].run_count = rows[i].run_count,
           rows'[i].failure_count = rows[i].failure_count
    PROVE  Counted(i)'
BY DEF Counted, Counting, Uncounted

\* The steps of the run of a job.
LEMMA CountRunStep ==
    ASSUME TypeInv, NEW i \in Jobs, RunStep(i) \/ RunFail(i), Exists(i), Counted(i), Exists(i)'
    PROVE  Counted(i)'
<1>0. /\ runs[i]["success"] \in Nat /\ runs[i]["failed"] \in Nat /\ runs[i]["running"] \in Nat
      /\ rows[i].run_count \in Nat /\ rows[i].failure_count \in Nat
      /\ cuts[i] \in Nat /\ task[i] \in Task /\ NoTask.step = "none"
      /\ runs \in [Jobs -> [Statuses -> Nat]] /\ task \in [Jobs -> Task]
      /\ rows \in [Jobs -> Row \cup {None}] /\ cuts \in [Jobs -> Nat]
  BY CountFields DEF NoTask, Statuses, TypeInv, TypeOK
<1>1. CASE RunFail(i)
  <2>1. /\ task[i].step # "executing" /\ task'[i].step = "none" /\ cuts'[i] = cuts[i] + 1
        /\ UNCHANGED <<rows, runs>>
    BY <1>0, <1>1 DEF RunFail, End, tables
  <2>2. Uncounted(i)' = Uncounted(i) /\ Counting(i)' = 0 /\ Counting(i) \in {0, 1}
    BY <2>1 DEF Uncounted, Counting
  <2>3. Uncounted(i) \in Int
    BY <1>0 DEF Uncounted
  <2>4. Counting(i) <= Uncounted(i) /\ Uncounted(i) <= Counting(i) + cuts[i]
    BY DEF Counted
  <2>5. 0 <= Uncounted(i)' /\ Uncounted(i)' <= 0 + cuts'[i]
    BY <1>0, <2>1, <2>2, <2>3, <2>4
  <2> QED BY <2>1, <2>2, <2>5 DEF Counted
<1>2. CASE CreateRun(i)
  <2>1. /\ UNCHANGED <<rows, cuts>> /\ task[i].step = "creating" /\ task'[i].step = "executing"
        /\ runs' = [runs EXCEPT ![i]["running"] = @ + 1]
    BY <1>0, <1>2 DEF CreateRun, At, Go, history, Task
  <2>2. /\ runs'[i]["running"] = runs[i]["running"] + 1
        /\ runs'[i]["success"] = runs[i]["success"] /\ runs'[i]["failed"] = runs[i]["failed"]
    BY <1>0, <2>1 DEF Statuses
  <2> QED BY <1>0, <2>1, <2>2 DEF Counted, Counting, Uncounted
<1>3. ASSUME NEW ok \in BOOLEAN, Execute(i, ok)
      PROVE  Counted(i)'
  <2>1. /\ UNCHANGED <<rows, runs, cuts>>
        /\ task[i].step = "executing" /\ task'[i].step = "completing"
    BY <1>0, <1>3 DEF Execute, At, tables, Task
  <2> QED BY <2>1 DEF Counted, Counting, Uncounted
<1>4. CASE CompleteRun(i)
  <2> DEFINE status == IF task[i].ok THEN "success" ELSE "failed"
             counts == [runs[i] EXCEPT !["running"] = @ - 1, ![status] = @ + 1]
  <2>1. /\ UNCHANGED <<rows, cuts>> /\ task[i].step = "completing" /\ task'[i].step = "reading"
        /\ runs[i]["running"] # 0
    BY <1>0, <1>4 DEF CompleteRun, At, Go, history, Task, Counted
  <2>2. runs' = [runs EXCEPT ![i] = counts]
    BY <1>4, <2>1 DEF CompleteRun
  <2>3. runs'[i] = counts
    BY <1>0, <2>2
  <2>4. runs[i] \in [Statuses -> Nat]
    BY <1>0
  <2>5. CASE task[i].ok
    <3>1. /\ counts["success"] = runs[i]["success"] + 1
          /\ counts["failed"] = runs[i]["failed"]
      BY <2>4, <2>5 DEF Statuses
    <3> QED BY <1>0, <2>1, <2>3, <3>1 DEF Counted, Counting, Uncounted
  <2>6. CASE ~task[i].ok
    <3>1. /\ counts["failed"] = runs[i]["failed"] + 1
          /\ counts["success"] = runs[i]["success"]
      BY <2>4, <2>6 DEF Statuses
    <3> QED BY <1>0, <2>1, <2>3, <3>1 DEF Counted, Counting, Uncounted
  <2> QED BY <2>5, <2>6
<1>5. CASE ReadJob(i)
  <2> DEFINE n == IF task[i].ok THEN rows[i].run_count ELSE rows[i].failure_count
  <2>1. /\ UNCHANGED <<rows, runs, cuts>> /\ task[i].step = "reading"
        /\ task' = [task EXCEPT ![i].step = "counting", ![i].count = n]
    BY <1>5 DEF ReadJob, At, tables, history
  <2> HIDE DEF n
  <2>2. task'[i].step = "counting" /\ task'[i].count = n /\ task'[i].ok = task[i].ok
    BY <1>0, <2>1 DEF Task
  <2> QED BY <2>1, <2>2 DEF n, Counted, Counting, Uncounted
<1>6. CASE CountRun(i)
  <2>1. /\ UNCHANGED <<runs, cuts>> /\ task[i].step = "counting"
        /\ task'[i].step \in {"removing", "none"}
    BY <1>0, <1>6, CountEffect DEF CountRun, At, history
  <2>2. rows'[i].run_count + rows'[i].failure_count = rows[i].run_count + rows[i].failure_count + 1
    BY <1>0, <1>6, <2>1, CountEffect DEF Counted
  <2>3. rows'[i].run_count \in Nat /\ rows'[i].failure_count \in Nat
    BY <1>0, <1>6, <2>1, CountEffect DEF Counted
  <2>4. Uncounted(i)' = Uncounted(i) - 1 /\ Uncounted(i) \in Int
    <3> DEFINE s == runs[i]["success"]
               f == runs[i]["failed"]
               a == rows[i].run_count
               b == rows[i].failure_count
               c == rows'[i].run_count
               d == rows'[i].failure_count
    <3>1. s \in Nat /\ f \in Nat /\ a \in Nat /\ b \in Nat /\ c \in Nat /\ d \in Nat
      BY <1>0, <2>3
    <3>2. c + d = a + b + 1
      BY <2>2
    <3>3. Uncounted(i) = s + f - a - b /\ Uncounted(i)' = s + f - c - d
      BY <2>1 DEF Uncounted
    <3> HIDE DEF s, f, a, b, c, d
    <3>4. s + f - a - b \in Int /\ s + f - c - d = s + f - a - b - 1
      BY <3>1, <3>2
    <3> QED BY <3>1, <3>3, <3>4
  <2>5. Counting(i) = 1 /\ Counting(i)' = 0
    BY <2>1 DEF Counting
  <2>6. Counting(i)' <= Uncounted(i)' /\ Uncounted(i)' <= Counting(i)' + cuts'[i]
    BY <1>0, <2>1, <2>4, <2>5 DEF Counted
  <2> QED BY <2>1, <2>6 DEF Counted
<1>7. CASE RemoveEntry(i)
  <2>1. /\ UNCHANGED <<rows, runs, cuts>>
        /\ task[i].step = "removing" /\ task'[i].step = "deleting"
    BY <1>0, <1>7 DEF RemoveEntry, At, Go, tables, history, Task
  <2> QED BY <2>1 DEF Counted, Counting, Uncounted
<1>8. CASE DeleteDone(i)
  <2>1. TypeOK /\ Delete(i) /\ i \in Namesakes(i)
    BY <1>8 DEF DeleteDone, Namesakes, TypeInv
  <2>2. rows'[i] = None
    BY <2>1, DeleteEffect
  <2> QED BY <2>2 DEF Exists
<1> QED BY <1>1, <1>2, <1>3, <1>4, <1>5, <1>6, <1>7, <1>8 DEF RunStep

\* Every step keeps the count.
LEMMA CountStep == TypeInv /\ TableInv /\ NameInv /\ CountInv /\ [Next]_vars => CountInv'
<1> SUFFICES ASSUME TypeInv, TableInv, NameInv, CountInv, [Next]_vars,
                    NEW i \in Jobs, Exists(i)', i \notin heirs'
             PROVE  Counted(i)'
  BY DEF CountInv
<1>h. heirs \subseteq heirs'
  BY StepKinds, RunEffect DEF Quiet, Inserts, Touches, Deletes, Fires
<1>0. Exists(i) => Counted(i)
  BY <1>h DEF CountInv
<1>1. CASE Quiet
  <2>1. Exists(i) /\ Counted(i) /\ rows' = rows /\ runs' = runs
    BY <1>0, <1>1 DEF Quiet, Exists
  <2>2. CASE UNCHANGED <<task, cuts>>
    BY <2>1, <2>2, CountFrame
  <2>3. CASE task'[i] = NoTask /\ cuts'[i] = IF task[i].step = "none" THEN cuts[i] ELSE cuts[i] + 1
    <3>1. /\ runs[i]["success"] \in Nat /\ runs[i]["failed"] \in Nat /\ cuts[i] \in Nat
          /\ rows[i].run_count \in Nat /\ rows[i].failure_count \in Nat
      BY <2>1, CountFields DEF Statuses, TypeInv
    <3>2. task'[i].step = "none" /\ Uncounted(i)' = Uncounted(i) /\ Counting(i)' = 0
      BY <2>1, <2>3 DEF NoTask, Uncounted, Counting
    <3>3. Uncounted(i) \in Int /\ Counting(i) \in {0, 1}
      BY <3>1 DEF Uncounted, Counting
    <3>4. Counting(i) <= Uncounted(i) /\ Uncounted(i) <= Counting(i) + cuts[i]
      BY <2>1 DEF Counted
    <3>5. Counting(i) + cuts[i] <= cuts'[i]
      BY <2>3, <3>1 DEF Counting
    <3>6. cuts'[i] \in Nat
      BY <2>3, <3>1
    <3>7. 0 <= Uncounted(i)' /\ Uncounted(i)' <= 0 + cuts'[i]
      BY <3>1, <3>2, <3>3, <3>4, <3>5, <3>6
    <3> QED BY <3>2, <3>7 DEF Counted
  <2> QED BY <1>1, <2>2, <2>3 DEF Quiet
<1>2. ASSUME NEW j \in Jobs, Inserts(j)
      PROVE  Counted(i)'
  <2>1. /\ \A k \in Jobs \ {j} : rows'[k] = rows[k]
        /\ rows'[j].run_count = 0 /\ rows'[j].failure_count = 0
    BY <1>2, InsertEffect DEF Inserts
  <2>2. UNCHANGED <<runs, task, cuts>>
    BY <1>2 DEF Inserts
  <2>3. CASE i # j
    BY <1>0, <2>1, <2>2, <2>3, CountFrame DEF Exists
  <2>4. CASE i = j
    <3>1. j \in unused
      BY <1>2 DEF Inserts, TableInv
    <3>2. runs[j]["success"] = 0 /\ runs[j]["failed"] = 0 /\ task[j].step \in {"none", "creating"}
      BY <3>1 DEF TableInv, NoRuns, Statuses
    <3>3. cuts[j] \in Nat
      BY CountFields DEF TypeInv
    <3> QED BY <2>1, <2>2, <2>4, <3>2, <3>3 DEF Counted, Counting, Uncounted
  <2> QED BY <2>3, <2>4
<1>3. ASSUME NEW j \in Jobs, Touches(j)
      PROVE  Counted(i)'
  <2>1. /\ Exists(i) /\ rows'[i].run_count = rows[i].run_count
        /\ rows'[i].failure_count = rows[i].failure_count
    BY <1>3, TouchEffect
  <2> QED BY <1>0, <1>3, <2>1, CountFrame DEF Touches
<1>4. ASSUME NEW j \in Jobs, Deletes(j)
      PROVE  Counted(i)'
  <2>2. rows'[i] = rows[i] /\ runs'[i] = runs[i]
    BY <1>4, DeleteEffect DEF Deletes, Exists, TypeInv
  <2> QED BY <1>0, <1>4, <2>2, CountFrame DEF Deletes, Exists
<1>5. ASSUME NEW j \in Jobs, Fires(j)
      PROVE  Counted(i)'
  <2>1. /\ task[j].step = "none" /\ task'[j].step = "creating"
        /\ \A k \in Jobs \ {j} : task'[k] = task[k]
    BY <1>5 DEF Fires, NoTask, TypeInv, TypeOK
  <2>2. Counted(i) /\ UNCHANGED <<rows, runs>> /\ cuts'[i] = cuts[i]
    <3>1. UNCHANGED cuts
      BY <1>5, StepKinds DEF Fires
    <3> QED BY <1>0, <1>5, <3>1 DEF Fires, Exists
  <2> QED BY <2>1, <2>2 DEF Counted, Counting, Uncounted
<1>6. ASSUME NEW j \in Jobs \ {i}, RunStep(j) \/ RunFail(j)
      PROVE  Counted(i)'
  <2>1. /\ task'[i] = task[i] /\ cuts'[i] = cuts[i] /\ heirs' = heirs /\ i # j
        /\ \/ rows'[i] = rows[i] /\ runs'[i] = runs[i]
           \/ task[j].step = "counting" /\ i \in Namesakes(j)
           \/ rows'[i] = None
    BY <1>6, RunEffect
  <2>2. rows'[i] = rows[i] /\ runs'[i] = runs[i]
    BY <2>1 DEF Namesakes, NameInv, Exists
  <2> QED BY <1>0, <2>1, <2>2, CountFrame DEF Exists
<1>7. ASSUME RunStep(i) \/ RunFail(i)
      PROVE  Counted(i)'
  <2>1. Exists(i)
    BY <1>7, RunEffect
  <2> QED BY <1>0, <1>7, <2>1, CountRunStep
<1> QED BY <1>1, <1>2, <1>3, <1>4, <1>5, <1>6, <1>7, StepKinds

\* No finished run is counted twice, and none goes uncounted that was not cut
\* short, though the counters are read by id and written back by name, in
\* separate statements, while others delete rows and create new ones under the
\* name; but in the rows of heirs, created between a reading and its writing.
THEOREM FinishedRunsAreCounted == Spec => []RunsAreCounted
<1>1. CountInv => RunsAreCounted
  BY DEF CountInv, Counted, Counting, Uncounted, RunsAreCounted
<1> QED BY <1>1, TypeInit, TypeStep, TableInit, TableStep, NameInit, NameStep,
           CountInit, CountStep, PTL DEF Spec
=============================================================================
