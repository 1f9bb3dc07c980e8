--------------------------- MODULE HomeJobsProofs ---------------------------
(***************************************************************************)
(* Proofs of the safety properties of HomeJobs, for every set of users,     *)
(* homes and devices and every number of attempts.                          *)
(***************************************************************************)
EXTENDS HomeJobs, TLAPS

Provision(h) == task[h]["provision"]
Cleanup(h) == task[h]["cleanup"]
Queued(h, o) == jobs[h][o] # NoRow

-----------------------------------------------------------------------------
(* The inductive invariant, home by home *)

\* What the row of the home says about the rest: nothing exists before it is
\* enrolled, it has credentials while it lives, and once it is deleted its
\* row is fixed, its access is gone and no provision work is left.
HomeRule(h) ==
    /\ home[h].row = "none" =>
          /\ jobs[h] = [o \in Ops |-> NoRow]
          /\ task[h] = [o \in Ops |-> IdleTask]
          /\ h \notin deleteReq
    /\ home[h].row = "live" => home[h].creds
    /\ home[h].row = "deleted" =>
          /\ home[h] = [row |-> "deleted", state |-> "deleting", creds |-> FALSE]
          /\ access[h] = {}
          /\ ~Queued(h, "provision")
          /\ Provision(h).pc = "idle"

\* A live home that waits for something has the row that will bring it, and a
\* ready one has its access and no work on it.
LiveRule(h) ==
    home[h].row = "live" =>
        /\ home[h].state = "pending" => Queued(h, "provision") \/ Queued(h, "cleanup")
        /\ home[h].state = "deleting" => Queued(h, "cleanup")
        /\ home[h].state = "ready" /\ ~Queued(h, "cleanup")
              => access[h] = Grants /\ ~Queued(h, "provision")

\* A cleanup row, or a cleanup task at work, shuts out the provision row; the
\* two tasks of a home are never both at work.
ExclusionRule(h) ==
    /\ Queued(h, "cleanup") \/ Cleanup(h).pc # "idle" => ~Queued(h, "provision")
    /\ Cleanup(h).pc # "idle" => Provision(h).pc = "idle"
    /\ Queued(h, "cleanup") => jobs[h]["cleanup"].status \in {"pending", "running"}

\* A provision task that lost its row lost it to a cleanup row; it commits
\* only what it granted, and it deletes its job unread only after it lost it.
ProvisionRule(h) ==
    /\ Provision(h).owns => Queued(h, "provision")
    /\ Provision(h).pc # "idle" /\ ~Provision(h).owns => Queued(h, "cleanup")
    /\ Provision(h).pc = "commit" => access[h] = Grants
    /\ Provision(h).pc = "deleteJob" => ~Provision(h).owns

\* A cleanup task has a row, its own or a newer one, until it commits; it has
\* no access left to revoke when it finds no name, and when it sweeps.
CleanupRule(h) ==
    /\ Cleanup(h).owns => Queued(h, "cleanup")
    /\ Cleanup(h).pc \notin {"idle", "uncache"} => Queued(h, "cleanup")
    /\ Cleanup(h).pc = "devices" /\ ~Cleanup(h).named => home[h].row = "deleted"
    /\ Cleanup(h).pc = "sweep" => access[h] = {}
    /\ Cleanup(h).pc = "deleteJob" => FALSE

Rules(h) == HomeRule(h) /\ LiveRule(h) /\ ExclusionRule(h) /\ ProvisionRule(h) /\ CleanupRule(h)

IInv == TypeOK /\ \A h \in Homes : Rules(h)

-----------------------------------------------------------------------------
(* Types *)

LEMMA TypeInit == Init => TypeOK
BY NoHomeAssumption, AttemptAssumption
   DEF Init, TypeOK, HomeRow, NoHomeRow, HomeStates, JobRow, NoRow, Task, TaskPcs,
       IdleTask, Ops, DeviceRow, NoDeviceRow, EnrollPcs

LEMMA FreshRowType == FreshRow \in JobRow /\ NoRow \in JobRow /\ IdleTask \in Task
BY AttemptAssumption DEF FreshRow, NoRow, JobRow, IdleTask, Task, TaskPcs

\* What a step may do to the record of a task, and what the task stays.
LEMMA TaskFields ==
    ASSUME TypeOK, NEW h \in Homes, NEW o \in Ops
    PROVE  /\ \A pc \in TaskPcs : [task[h][o] EXCEPT !.pc = pc] \in Task
           /\ [task[h][o] EXCEPT !.owns = FALSE] \in Task
           /\ task[h][o] \in Task
<1> DEFINE t == task[h][o]
<1>1. t \in Task
  BY DEF TypeOK
<1> HIDE DEF t
<1>2. \A pc \in TaskPcs : [t EXCEPT !.pc = pc] \in Task
  BY <1>1 DEF Task
<1>3. [t EXCEPT !.owns = FALSE] \in Task
  BY <1>1 DEF Task
<1> QED BY <1>1, <1>2, <1>3 DEF t

LEMMA SetTaskType ==
    ASSUME TypeOK, NEW h \in Homes, NEW o \in Ops, NEW t \in Task, SetTask(h, o, t)
    PROVE  task' \in [Homes -> [Ops -> Task]]
BY DEF TypeOK, SetTask

LEMMA GotoType ==
    ASSUME TypeOK, NEW h \in Homes, NEW o \in Ops, NEW pc \in TaskPcs, Goto(h, o, pc)
    PROVE  task' \in [Homes -> [Ops -> Task]]
BY TaskFields, SetTaskType DEF Goto

LEMMA EndTaskType ==
    ASSUME TypeOK, NEW h \in Homes, NEW o \in Ops, EndTask(h, o)
    PROVE  task' \in [Homes -> [Ops -> Task]]
BY FreshRowType, SetTaskType DEF EndTask

\* A row whose status is rewritten is a row.
LEMMA RowFields ==
    ASSUME TypeOK, NEW h \in Homes, NEW o \in Ops, NEW s \in {"pending", "failed"}
    PROVE  [jobs[h][o] EXCEPT !.status = s] \in JobRow /\ jobs[h][o] \in JobRow
<1> DEFINE r == jobs[h][o]
<1>1. r \in JobRow
  BY DEF TypeOK
<1> HIDE DEF r
<1>2. [r EXCEPT !.status = s] \in JobRow
  BY <1>1 DEF JobRow
<1> QED BY <1>1, <1>2 DEF r

\* The two writes a task makes to its own row.
LEMMA RowType ==
    ASSUME TypeOK, NEW h \in Homes, NEW o \in Ops, NEW s \in {"pending", "failed"},
           DeleteRow(h, o) \/ RewriteRow(h, o, s)
    PROVE  jobs' \in [Homes -> [Ops -> JobRow]]
<1>1. CASE DeleteRow(h, o)
  BY <1>1, FreshRowType DEF TypeOK, DeleteRow
<1>2. CASE RewriteRow(h, o, s)
  <2> DEFINE r == [jobs[h][o] EXCEPT !.status = s]
  <2>1. r \in JobRow
    BY RowFields
  <2>2. jobs' = IF task[h][o].owns THEN [jobs EXCEPT ![h][o] = r] ELSE jobs
    BY <1>2 DEF RewriteRow
  <2> HIDE DEF r
  <2> QED BY <2>1, <2>2 DEF TypeOK
<1> QED BY <1>1, <1>2

\* Scheduling a deletion keeps the three variables it writes in their types.
LEMMA ScheduleType ==
    ASSUME TypeOK, NEW H \in SUBSET Homes, ScheduleHomeDeletion(H)
    PROVE  /\ home' \in [Homes -> HomeRow]
           /\ jobs' \in [Homes -> [Ops -> JobRow]]
           /\ task' \in [Homes -> [Ops -> Task]]
<1>1. home' \in [Homes -> HomeRow]
  <2> DEFINE Deleting(x) == [x EXCEPT !.state = "deleting"]
  <2>1. \A x \in HomeRow : Deleting(x) \in HomeRow
    BY DEF HomeRow, HomeStates
  <2>2. home' = [h \in Homes |-> IF h \in H /\ Live(h) THEN Deleting(home[h]) ELSE home[h]]
    BY DEF ScheduleHomeDeletion
  <2>3. home \in [Homes -> HomeRow]
    BY DEF TypeOK
  <2> HIDE DEF Deleting
  <2> QED BY <2>1, <2>2, <2>3
<1>2. jobs' \in [Homes -> [Ops -> JobRow]]
  BY FreshRowType DEF TypeOK, ScheduleHomeDeletion, ReplacedRows
<1>3. task' \in [Homes -> [Ops -> Task]]
  BY TaskFields DEF TypeOK, ScheduleHomeDeletion
<1> QED BY <1>1, <1>2, <1>3

\* Soft-deleting a device changes nothing else in its row.
LEMMA DeletedRowType ==
    \A x \in DeviceRow :
        LET y == [x EXCEPT !.row = "deleted"]
        IN  y \in DeviceRow /\ y.row = "deleted" /\ y.home = x.home /\ y.late = x.late
BY DEF DeviceRow

\* So do the steps of the handlers for homes and users ...
LEMMA HandlerTypes ==
    ASSUME TypeOK,
           \/ \E h \in Homes : HomeHandler(h)
           \/ \E u \in Users : UserHandler(u)
    PROVE  TypeOK'
<1>1. ASSUME NEW h \in Homes, EnrollHome(h) PROVE TypeOK'
  BY <1>1, FreshRowType
     DEF TypeOK, EnrollHome, EnqueueProvision, HomeRow, HomeStates, Ops, deviceVars
<1>2. ASSUME NEW h \in Homes, DeleteHomeCheck(h) PROVE TypeOK'
  BY <1>2 DEF TypeOK, DeleteHomeCheck, workVars, deviceVars
<1>3. ASSUME NEW h \in Homes, DeleteHomeCommit(h) PROVE TypeOK'
  BY <1>3, ScheduleType DEF TypeOK, DeleteHomeCommit, deviceVars
<1>4. ASSUME NEW u \in Users, DeleteUser(u) PROVE TypeOK'
  BY <1>4, ScheduleType DEF TypeOK, DeleteUser, deviceVars
<1>5. ASSUME NEW u \in Users, EndSessions(u) PROVE TypeOK'
  BY <1>5 DEF TypeOK, EndSessions, workVars, deviceVars
<1> QED BY <1>1, <1>2, <1>3, <1>4, <1>5 DEF HomeHandler, UserHandler

\* ... those of the handlers for devices, a reconnection and a crash ...
LEMMA DeviceTypes ==
    ASSUME TypeOK,
           (\E d \in Devices : DeviceHandler(d)) \/ Reconnect \/ CrashAndRestart
    PROVE  TypeOK'
<1>1. ASSUME NEW d \in Devices, NEW h \in Homes, EnrollDeviceCheck(d, h) PROVE TypeOK'
  BY <1>1 DEF TypeOK, EnrollDeviceCheck, EnrollPcs, workVars
<1>2. ASSUME NEW d \in Devices, EnrollDeviceCreate(d) PROVE TypeOK'
  <2>1. enroll[d].home \in Homes \cup {NoHome}
    BY DEF TypeOK
  <2>2. ASSUME NEW h \in Homes \cup {NoHome}, NEW b \in BOOLEAN
        PROVE  [row |-> "live", home |-> h, late |-> b] \in DeviceRow
    BY DEF DeviceRow
  <2>3. device' \in [Devices -> DeviceRow]
    <3> DEFINE new == [row |-> "live", home |-> enroll[d].home, late |-> Going(enroll[d].home)]
    <3>1. Going(enroll[d].home) \in BOOLEAN
      BY DEF Going
    <3>2. new \in DeviceRow
      BY <2>1, <2>2, <3>1
    <3>3. device' = device \/ device' = [device EXCEPT ![d] = new]
      BY <1>2 DEF EnrollDeviceCreate
    <3> HIDE DEF new
    <3> QED BY <3>2, <3>3 DEF TypeOK
  <2> DEFINE e == enroll[d]
             idle == [pc |-> "idle", home |-> NoHome]
  <2>4. [e EXCEPT !.pc = "created"] \in [pc: EnrollPcs, home: Homes \cup {NoHome}]
    BY DEF TypeOK, EnrollPcs
  <2>5. idle \in [pc: EnrollPcs, home: Homes \cup {NoHome}]
    BY DEF EnrollPcs
  <2>6. \/ enroll' = [enroll EXCEPT ![d] = [e EXCEPT !.pc = "created"]]
        \/ enroll' = [enroll EXCEPT ![d] = idle]
    BY <1>2 DEF EnrollDeviceCreate
  <2>7. enroll' \in [Devices -> [pc: EnrollPcs, home: Homes \cup {NoHome}]]
    BY <2>4, <2>5, <2>6 DEF TypeOK
  <2> QED BY <1>2, <2>3, <2>7 DEF TypeOK, EnrollDeviceCreate, workVars
<1>3. ASSUME NEW d \in Devices, EnrollDeviceCache(d) PROVE TypeOK'
  <2>1. traces' \in [Devices -> SUBSET Traces]
    <3>1. PICK put \in SUBSET {"meta"} : traces' = [traces EXCEPT ![d] = @ \cup put]
      BY <1>3 DEF EnrollDeviceCache
    <3>2. traces[d] \cup put \in SUBSET Traces
      BY DEF TypeOK, Traces
    <3> QED BY <3>1, <3>2 DEF TypeOK
  <2>2. enroll' \in [Devices -> [pc: EnrollPcs, home: Homes \cup {NoHome}]]
    <3>1. [enroll[d] EXCEPT !.pc = "cached"] \in [pc: EnrollPcs, home: Homes \cup {NoHome}]
      BY DEF TypeOK, EnrollPcs
    <3>2. enroll' = [enroll EXCEPT ![d] = [enroll[d] EXCEPT !.pc = "cached"]]
      BY <1>3 DEF EnrollDeviceCache
    <3> QED BY <3>1, <3>2 DEF TypeOK
  <2> QED BY <1>3, <2>1, <2>2 DEF TypeOK, EnrollDeviceCache, workVars
<1>4. ASSUME NEW d \in Devices, EnrollDeviceSubscribe(d) PROVE TypeOK'
  <2>1. traces' \in [Devices -> SUBSET Traces]
    <3>1. PICK put \in SUBSET {"subscription"} : traces' = [traces EXCEPT ![d] = @ \cup put]
      BY <1>4 DEF EnrollDeviceSubscribe
    <3>2. traces[d] \cup put \in SUBSET Traces
      BY DEF TypeOK, Traces
    <3> QED BY <3>1, <3>2 DEF TypeOK
  <2>2. enroll' \in [Devices -> [pc: EnrollPcs, home: Homes \cup {NoHome}]]
    <3>1. [pc |-> "idle", home |-> NoHome] \in [pc: EnrollPcs, home: Homes \cup {NoHome}]
      BY DEF EnrollPcs
    <3> QED BY <1>4, <3>1 DEF TypeOK, EnrollDeviceSubscribe
  <2> QED BY <1>4, <2>1, <2>2 DEF TypeOK, EnrollDeviceSubscribe, workVars
<1>5. ASSUME NEW d \in Devices, DeleteDevice(d) PROVE TypeOK'
  <2>1. device' \in [Devices -> DeviceRow]
    BY <1>5, DeletedRowType DEF TypeOK, DeleteDevice
  <2>2. removing' \in [Devices -> {"idle"} \cup Traces]
    BY <1>5 DEF TypeOK, DeleteDevice, Traces
  <2> QED BY <1>5, <2>1, <2>2 DEF TypeOK, DeleteDevice, workVars
<1>6. ASSUME NEW d \in Devices, RemoveTrace(d) PROVE TypeOK'
  <2>1. removing' \in [Devices -> {"idle"} \cup Traces]
    BY <1>6 DEF TypeOK, RemoveTrace, Traces
  <2>2. traces' \in [Devices -> SUBSET Traces]
    <3>1. \E gone : traces' = [traces EXCEPT ![d] = @ \ gone]
      BY <1>6 DEF RemoveTrace
    <3> QED BY <3>1 DEF TypeOK
  <2> QED BY <1>6, <2>1, <2>2 DEF TypeOK, RemoveTrace, workVars
<1>7. ASSUME NEW d \in Devices, TriggerUpdateCheck(d) \/ TriggerUpdatePublish(d) PROVE TypeOK'
  <2>1. CASE TriggerUpdateCheck(d)
    BY <2>1 DEF TypeOK, TriggerUpdateCheck, workVars
  <2>2. CASE TriggerUpdatePublish(d)
    <3>1. PICK put \in SUBSET {"retained"} : traces' = [traces EXCEPT ![d] = @ \cup put]
      BY <2>2 DEF TriggerUpdatePublish
    <3>2. traces[d] \cup put \in SUBSET Traces
      BY DEF TypeOK, Traces
    <3>3. traces' \in [Devices -> SUBSET Traces]
      BY <3>1, <3>2 DEF TypeOK
    <3> QED BY <2>2, <3>3 DEF TypeOK, TriggerUpdatePublish, workVars
  <2> QED BY <1>7, <2>1, <2>2
<1>8. ASSUME NEW M, NEW N, traces' = SessionWith(M, N)
      PROVE  traces' \in [Devices -> SUBSET Traces]
  BY <1>8 DEF SessionWith, Traces
<1>9. CASE Reconnect
  BY <1>8, <1>9 DEF TypeOK, Reconnect, workVars
<1>10. CASE CrashAndRestart
  BY <1>8, <1>10, FreshRowType DEF TypeOK, CrashAndRestart, EnrollPcs
<1> QED BY <1>1, <1>2, <1>3, <1>4, <1>5, <1>6, <1>7, <1>9, <1>10 DEF DeviceHandler

\* ... and those of the worker.
LEMMA WorkerTypes == ASSUME TypeOK, Worker PROVE TypeOK'
<1>1. ASSUME NEW S \in SUBSET (Homes \X Ops), RequeueStaleClaims(S) PROVE TypeOK'
  <2>1. ASSUME NEW h \in Homes, NEW o \in Ops
        PROVE  [jobs[h][o] EXCEPT !.status = "pending"] \in JobRow /\ jobs[h][o] \in JobRow
    BY RowFields
  <2> QED BY <1>1, <2>1 DEF TypeOK, RequeueStaleClaims, deviceVars
<1>2. ASSUME NEW S \in SUBSET (Homes \X Ops), ClaimJobs(S) PROVE TypeOK'
  <2>1. \A h \in Homes, o \in Ops : Bump(jobs[h][o].attempts) \in 0..AttemptCap
    BY AttemptAssumption DEF TypeOK, JobRow, Bump
  <2>2. \A a \in 0..AttemptCap :
           /\ [status |-> "running", attempts |-> a] \in JobRow
           /\ [IdleTask EXCEPT !.pc = "load", !.owns = TRUE, !.attempts = a] \in Task
    BY DEF JobRow, IdleTask, Task, TaskPcs
  <2> DEFINE row(h, o) == IF <<h, o>> \in S
                          THEN [status |-> "running", attempts |-> Bump(jobs[h][o].attempts)]
                          ELSE jobs[h][o]
             job(h, o) == IF <<h, o>> \in S
                          THEN [IdleTask EXCEPT !.pc = "load", !.owns = TRUE,
                                                !.attempts = Bump(jobs[h][o].attempts)]
                          ELSE task[h][o]
  <2>a. /\ jobs' = [h \in Homes |-> [o \in Ops |-> row(h, o)]]
        /\ task' = [h \in Homes |-> [o \in Ops |-> job(h, o)]]
    BY <1>2 DEF ClaimJobs
  <2>b. \A h \in Homes, o \in Ops : jobs[h][o] \in JobRow /\ task[h][o] \in Task
    BY DEF TypeOK
  <2>c. \A h \in Homes, o \in Ops : row(h, o) \in JobRow /\ job(h, o) \in Task
    BY <2>1, <2>2, <2>b
  <2> HIDE DEF row, job
  <2>3. jobs' \in [Homes -> [Ops -> JobRow]]
    BY <2>a, <2>c
  <2>4. task' \in [Homes -> [Ops -> Task]]
    BY <2>a, <2>c
  <2> QED BY <1>2, <2>3, <2>4 DEF TypeOK, ClaimJobs, deviceVars
<1>3. ASSUME NEW h \in Homes, NEW o \in Ops, AnyTask(h, o) PROVE TypeOK'
  <2>1. CASE LoadHome(h, o)
    <3>1. [task[h][o] EXCEPT !.pc = AfterLoad(h, o), !.named = home[h].creds] \in Task
      <4>1. AfterLoad(h, o) \in TaskPcs /\ home[h].creds \in BOOLEAN
        BY DEF TypeOK, TaskPcs, HomeRow, AfterLoad
      <4>2. ASSUME NEW t \in Task, NEW pc \in TaskPcs, NEW n \in BOOLEAN
            PROVE  [t EXCEPT !.pc = pc, !.named = n] \in Task
        BY DEF Task
      <4> QED BY <4>1, <4>2, TaskFields
    <3> QED BY <2>1, <3>1, SetTaskType DEF TypeOK, LoadHome, deviceVars
  <2>2. CASE LoadHomeFails(h, o)
    BY <2>2, GotoType DEF TypeOK, LoadHomeFails, TaskPcs, deviceVars
  <2>3. CASE ClearAccess(h, o)
    BY <2>3, GotoType DEF TypeOK, ClearAccess, TaskPcs, deviceVars
  <2>4. CASE ClearAccessFails(h, o)
    BY <2>4, GotoType DEF TypeOK, ClearAccessFails, TaskPcs, deviceVars
  <2>5. CASE LastWriteFails(h, o)
    BY <2>5, EndTaskType DEF TypeOK, LastWriteFails, deviceVars
  <2> QED BY <1>3, <2>1, <2>2, <2>3, <2>4, <2>5 DEF AnyTask
<1>4. ASSUME NEW h \in Homes, ProvisionTask(h) PROVE TypeOK'
  <2> "provision" \in Ops
    BY DEF Ops
  <2>1. CASE GrantAccess(h) \/ GrantAccessFails(h)
    BY <2>1, GotoType DEF TypeOK, GrantAccess, GrantAccessFails, TaskPcs, deviceVars
  <2>2. CASE CommitProvision(h)
    <3>1. \A x \in HomeRow, s \in HomeStates : [x EXCEPT !.state = s] \in HomeRow
      BY DEF HomeRow
    <3>2. home' = home \/ \E s \in HomeStates : home' = [home EXCEPT ![h] = [home[h] EXCEPT !.state = s]]
      BY <2>2 DEF CommitProvision, HomeStates
    <3>3. home' \in [Homes -> HomeRow]
      BY <3>1, <3>2 DEF TypeOK
    <3> QED BY <2>2, <3>3, EndTaskType, RowType DEF TypeOK, CommitProvision, deviceVars
  <2>3. CASE CommitProvisionFails(h)
    BY <2>3, EndTaskType DEF TypeOK, CommitProvisionFails, deviceVars
  <2>4. CASE DeleteJob(h)
    BY <2>4, EndTaskType, RowType DEF TypeOK, DeleteJob, deviceVars
  <2>5. CASE RescheduleProvision(h)
    <3>1. \A x \in HomeRow, s \in HomeStates : [x EXCEPT !.state = s] \in HomeRow
      BY DEF HomeRow
    <3>2. home' = home \/ \E s \in HomeStates : home' = [home EXCEPT ![h] = [home[h] EXCEPT !.state = s]]
      BY <2>5 DEF RescheduleProvision, HomeStates
    <3>3. home' \in [Homes -> HomeRow]
      BY <3>1, <3>2 DEF TypeOK
    <3>4. jobs' \in [Homes -> [Ops -> JobRow]]
      BY <2>5, RowType DEF RescheduleProvision
    <3> QED BY <2>5, <3>3, <3>4, EndTaskType DEF TypeOK, RescheduleProvision, deviceVars
  <2> QED BY <1>4, <2>1, <2>2, <2>3, <2>4, <2>5 DEF ProvisionTask
<1>5. ASSUME NEW h \in Homes, CleanupTask(h) PROVE TypeOK'
  <2> "cleanup" \in Ops
    BY DEF Ops
  <2>1. CASE LoadDevices(h)
    <3> DEFINE found == {d \in Devices : device[d].home = h}
    <3>1. \A pc \in TaskPcs : [task[h]["cleanup"] EXCEPT !.pc = pc, !.devs = found, !.todo = found] \in Task
      BY TaskFields DEF Task
    <3> QED BY <2>1, <3>1, SetTaskType DEF TypeOK, LoadDevices, TaskPcs, deviceVars
  <2>2. CASE LoadDevicesFails(h)
    BY <2>2, GotoType DEF TypeOK, LoadDevicesFails, TaskPcs, deviceVars
  <2>3. ASSUME NEW d \in Devices PROVE [task[h]["cleanup"] EXCEPT !.todo = @ \ {d}] \in Task
    BY TaskFields DEF Task
  <2>4. ASSUME NEW d \in Devices, SweepDevice(h, d) PROVE TypeOK'
    BY <2>3, <2>4, SetTaskType DEF TypeOK, SweepDevice
  <2>5. ASSUME NEW d \in Devices, SweepDeviceFails(h, d) PROVE TypeOK'
    BY <2>5, GotoType DEF TypeOK, SweepDeviceFails, TaskPcs
  <2>6. ASSUME NEW d \in Devices, UncacheDevice(h, d) PROVE TypeOK'
    BY <2>3, <2>6, FreshRowType, SetTaskType DEF TypeOK, UncacheDevice
  <2>7. CASE CommitCleanup(h)
    <3> DEFINE t == task[h]["cleanup"]
    <3>1. [t EXCEPT !.pc = "uncache", !.owns = FALSE, !.todo = t.devs] \in Task
      <4>1. ASSUME NEW u \in Task
            PROVE  [u EXCEPT !.pc = "uncache", !.owns = FALSE, !.todo = u.devs] \in Task
        BY DEF Task, TaskPcs
      <4> QED BY <4>1, TaskFields
    <3>2. task' \in [Homes -> [Ops -> Task]]
      BY <2>7, <3>1, FreshRowType, SetTaskType DEF CommitCleanup
    <3>3. jobs' \in [Homes -> [Ops -> JobRow]]
      BY <2>7, RowType DEF CommitCleanup
    <3>4. device' \in [Devices -> DeviceRow]
      BY <2>7, DeletedRowType DEF TypeOK, CommitCleanup
    <3>5. home' \in [Homes -> HomeRow]
      BY <2>7 DEF TypeOK, CommitCleanup, HomeRow, HomeStates
    <3> QED BY <2>7, <3>2, <3>3, <3>4, <3>5 DEF TypeOK, CommitCleanup
  <2>8. CASE CommitCleanupFails(h)
    BY <2>8, GotoType DEF TypeOK, CommitCleanupFails, TaskPcs, deviceVars
  <2>9. CASE RescheduleCleanup(h)
    <3>1. \A x \in HomeRow, s \in HomeStates : [x EXCEPT !.state = s] \in HomeRow
      BY DEF HomeRow
    <3>2. \E s : /\ home' = [home EXCEPT ![h] = [home[h] EXCEPT !.state = s]]
                 /\ s \in HomeStates
      <4>1. home[h].state \in HomeStates
        BY DEF TypeOK, HomeRow
      <4> QED BY <2>9, <4>1 DEF RescheduleCleanup, HomeStates
    <3>3. home' \in [Homes -> HomeRow]
      BY <3>1, <3>2 DEF TypeOK
    <3> QED BY <2>9, <3>3, EndTaskType, RowType DEF TypeOK, RescheduleCleanup, deviceVars
  <2> QED BY <1>5, <2>1, <2>2, <2>4, <2>5, <2>6, <2>7, <2>8, <2>9 DEF CleanupTask
<1> QED BY <1>1, <1>2, <1>3, <1>4, <1>5 DEF Worker

LEMMA TypeStep == TypeOK /\ [Next]_vars => TypeOK'
<1>1. TypeOK /\ UNCHANGED vars => TypeOK'
  BY DEF TypeOK, vars
<1> QED BY <1>1, HandlerTypes, DeviceTypes, WorkerTypes DEF Next

\* Every variable keeps its type, whatever the users, homes and devices.
THEOREM TypeCorrect == Spec => []TypeOK
BY TypeInit, TypeStep, PTL DEF Spec
-----------------------------------------------------------------------------
(* The rules *)

LEMMA RulesInit == ASSUME Init, NEW h \in Homes PROVE Rules(h)
BY DEF Init, Rules, HomeRule, LiveRule, ExclusionRule, ProvisionRule, CleanupRule,
       Provision, Cleanup, Queued, NoHomeRow, NoRow, IdleTask, Ops

\* What a step leaves as it was keeps its rules.
LEMMA Untouched ==
    ASSUME NEW g \in Homes, Rules(g), home'[g] = home[g], jobs'[g] = jobs[g],
           task'[g] = task[g], access'[g] = access[g], g \in deleteReq' => g \in deleteReq
    PROVE  Rules(g)'
BY DEF Rules, HomeRule, LiveRule, ExclusionRule, ProvisionRule, CleanupRule,
       Provision, Cleanup, Queued

\* What scheduling a deletion does to one of the homes scheduled.
LEMMA Scheduled ==
    ASSUME TypeOK, NEW H \in SUBSET Homes, ScheduleHomeDeletion(H), NEW h \in H
    PROVE  /\ home'[h].row = home[h].row
           /\ home'[h].creds = home[h].creds
           /\ home[h].row = "live" => home'[h].state = "deleting"
           /\ home[h].row # "live" => home'[h] = home[h]
           /\ ~Queued(h, "provision")'
           /\ jobs'[h]["cleanup"] = FreshRow
           /\ \A o \in Ops : /\ task'[h][o].pc = task[h][o].pc
                             /\ task'[h][o].named = task[h][o].named
                             /\ ~task'[h][o].owns
<1>1. home'[h] = IF Live(h) THEN [home[h] EXCEPT !.state = "deleting"] ELSE home[h]
  BY DEF ScheduleHomeDeletion
<1>2. jobs'[h] = ReplacedRows(h)
  BY DEF ScheduleHomeDeletion
<1>3. task'[h] = [o \in Ops |-> [task[h][o] EXCEPT !.owns = FALSE]]
  BY DEF ScheduleHomeDeletion
<1>4. home[h] \in HomeRow /\ \A o \in Ops : task[h][o] \in Task
  BY DEF TypeOK
<1>5. \A o \in Ops : /\ task'[h][o].pc = task[h][o].pc
                     /\ task'[h][o].named = task[h][o].named
                     /\ ~task'[h][o].owns
  BY <1>3, <1>4 DEF Task
<1> QED BY <1>1, <1>2, <1>4, <1>5 DEF Live, HomeRow, ReplacedRows, Queued, Ops

LEMMA HandlerRules ==
    ASSUME IInv, NEW g \in Homes,
           \/ \E h \in Homes : HomeHandler(h)
           \/ \E u \in Users : UserHandler(u)
    PROVE  Rules(g)'
<1> USE DEF Rules, HomeRule, LiveRule, ExclusionRule, ProvisionRule, CleanupRule,
            Provision, Cleanup, Queued
<1> Rules(g) /\ TypeOK
  BY DEF IInv
<1>1. ASSUME NEW h \in Homes, EnrollHome(h) PROVE Rules(g)'
  <2>1. CASE g # h
    <3>1. /\ home'[g] = home[g]
          /\ jobs'[g] = jobs[g]
          /\ task'[g] = task[g]
          /\ access'[g] = access[g]
          /\ deleteReq' = deleteReq
      BY <1>1, <2>1 DEF TypeOK, EnrollHome, EnqueueProvision
    <3> QED BY ZenonT(60), <3>1, Untouched
  <2>2. CASE g = h
    BY <1>1, <2>2 DEF TypeOK, EnrollHome, EnqueueProvision, FreshRow, NoRow, IdleTask, Ops
  <2> QED BY <2>1, <2>2
<1>2. ASSUME NEW h \in Homes, DeleteHomeCheck(h) PROVE Rules(g)'
  BY <1>2 DEF TypeOK, DeleteHomeCheck, workVars, Live
<1>3. ASSUME NEW H \in SUBSET Homes, ScheduleHomeDeletion(H),
             \A h \in H : home[h].row # "none",
             access' = access, deleteReq' \subseteq deleteReq
      PROVE  Rules(g)'
  <2>1. CASE g \notin H
    BY <1>3, <2>1, Untouched DEF TypeOK, ScheduleHomeDeletion
  <2>2. CASE g \in H
    <3> USE Scheduled, <1>3, <2>2 DEF FreshRow, NoRow
    <3>1. Queued(g, "cleanup")' /\ ~Queued(g, "provision")' /\ home[g].row # "none"
      OBVIOUS
    <3>2. HomeRule(g)'
      BY <3>1 DEF Ops
    <3>3. LiveRule(g)'
      BY <3>1
    <3>4. ExclusionRule(g)'
      BY <3>1 DEF Ops
    <3>5. ProvisionRule(g)'
      BY <3>1 DEF Ops
    <3>6. CleanupRule(g)'
      BY <3>1 DEF Ops
    <3> QED BY <3>2, <3>3, <3>4, <3>5, <3>6
  <2> QED BY <2>1, <2>2
<1>4. ASSUME NEW h \in Homes, DeleteHomeCommit(h) PROVE Rules(g)'
  <2>1. home[h].row # "none"
    BY <1>4 DEF IInv, DeleteHomeCommit
  <2>2. access' = access /\ deleteReq' \subseteq deleteReq
    BY <1>4 DEF DeleteHomeCommit
  <2>3. CASE ScheduleHomeDeletion({h})
    BY <1>3, <2>1, <2>2, <2>3
  <2>4. CASE UNCHANGED <<home, jobs, task>>
    BY <2>2, <2>4, Untouched
  <2> QED BY <1>4, <2>3, <2>4 DEF DeleteHomeCommit
<1>5. ASSUME NEW u \in Users, DeleteUser(u) PROVE Rules(g)'
  BY <1>3, <1>5 DEF DeleteUser, Live
<1>6. ASSUME NEW u \in Users, EndSessions(u) PROVE Rules(g)'
  BY <1>6, Untouched DEF EndSessions, workVars
<1> QED BY <1>1, <1>2, <1>4, <1>5, <1>6 DEF HomeHandler, UserHandler

LEMMA DeviceRules ==
    ASSUME IInv, NEW g \in Homes,
           (\E d \in Devices : DeviceHandler(d)) \/ Reconnect \/ CrashAndRestart
    PROVE  Rules(g)'
<1> Rules(g)
  BY DEF IInv
<1>1. CASE (\E d \in Devices : DeviceHandler(d)) \/ Reconnect
  <2>1. UNCHANGED <<home, workVars, deleteReq>>
    BY <1>1 DEF DeviceHandler, EnrollDeviceCheck, EnrollDeviceCreate, EnrollDeviceCache,
                EnrollDeviceSubscribe, DeleteDevice, RemoveTrace, TriggerUpdateCheck,
                TriggerUpdatePublish, Reconnect
  <2> QED BY <2>1, Untouched DEF workVars
<1>2. CASE CrashAndRestart
  BY <1>2 DEF CrashAndRestart, IdleTask, Ops, Rules, HomeRule, LiveRule, ExclusionRule,
              ProvisionRule, CleanupRule, Provision, Cleanup, Queued
<1> QED BY <1>1, <1>2

\* A batch: only rows of S change, and each of them stays a row.
LEMMA BatchRules ==
    ASSUME IInv, NEW g \in Homes, NEW S \in SUBSET (Homes \X Ops),
           RequeueStaleClaims(S) \/ ClaimJobs(S)
    PROVE  Rules(g)'
<1> USE DEF Rules, HomeRule, LiveRule, ExclusionRule, ProvisionRule, CleanupRule,
            Provision, Cleanup, Queued
<1> Rules(g) /\ TypeOK
  BY DEF IInv
<1>1. \A o \in Ops : task[g][o].pc = "idle"
  BY DEF RequeueStaleClaims, ClaimJobs, WorkerIdle
<1>2. "provision" \in Ops /\ "cleanup" \in Ops /\ \A o \in Ops : o \in {"provision", "cleanup"}
  BY DEF Ops
<1>3. \A o \in Ops : <<g, o>> \in S => Queued(g, o)
  <2> SUFFICES ASSUME NEW o \in Ops, <<g, o>> \in S PROVE Queued(g, o)
    OBVIOUS
  <2>1. jobs[<<g, o>>[1]][<<g, o>>[2]].status \in {"running", "pending"}
    BY DEF RequeueStaleClaims, ClaimJobs
  <2> QED BY <2>1 DEF NoRow
<1>4. CASE RequeueStaleClaims(S)
  <2>1. \A o \in Ops : IF <<g, o>> \in S THEN jobs'[g][o].status = "pending"
                                         ELSE jobs'[g][o] = jobs[g][o]
    BY <1>4 DEF RequeueStaleClaims, TypeOK, JobRow
  <2> QED BY <1>1, <1>2, <1>3, <1>4, <2>1 DEF RequeueStaleClaims, NoRow
<1>5. CASE ClaimJobs(S)
  <2>1. \A o \in Ops : IF <<g, o>> \in S
                       THEN /\ jobs'[g][o].status = "running"
                            /\ task'[g][o].pc = "load"
                            /\ task'[g][o].owns
                       ELSE /\ jobs'[g][o] = jobs[g][o]
                            /\ task'[g][o] = task[g][o]
    BY <1>5 DEF ClaimJobs, IdleTask
  <2>2. UNCHANGED <<home, access, deleteReq>>
    BY <1>5 DEF ClaimJobs
  <2>3. CASE \A o \in Ops : <<g, o>> \notin S
    <3>1. /\ jobs'[g] = [o \in Ops |-> jobs[g][o]]
          /\ task'[g] = [o \in Ops |-> task[g][o]]
      BY <1>5, <2>3 DEF ClaimJobs
    <3>2. jobs[g] \in [Ops -> JobRow] /\ task[g] \in [Ops -> Task]
      BY DEF TypeOK
    <3>3. jobs'[g] = jobs[g] /\ task'[g] = task[g]
      BY <3>1, <3>2
    <3> QED BY <2>2, <3>3, Untouched
  <2>4. CASE <<g, "provision">> \in S
    <3>1. ~Queued(g, "cleanup") /\ <<g, "cleanup">> \notin S /\ home[g].row = "live"
      BY <1>2, <1>3, <2>4 DEF TypeOK, HomeRow
    <3> QED BY <1>1, <1>2, <1>3, <2>1, <2>2, <2>4, <3>1 DEF NoRow
  <2>5. CASE <<g, "cleanup">> \in S
    <3>1. ~Queued(g, "provision") /\ <<g, "provision">> \notin S /\ home[g].row # "none"
      BY <1>2, <1>3, <2>5
    <3> QED BY <1>1, <1>2, <1>3, <2>1, <2>2, <2>5, <3>1 DEF NoRow
  <2> QED BY <1>2, <2>3, <2>4, <2>5
<1> QED BY <1>4, <1>5

\* A step of one task leaves the other homes, and the home's other task, alone.
LEMMA TaskMoves ==
    ASSUME TypeOK, NEW h \in Homes, NEW o \in Ops, NEW pc, Goto(h, o, pc)
    PROVE  /\ \A g \in Homes \ {h} : task'[g] = task[g]
           /\ \A p \in Ops \ {o} : task'[h][p] = task[h][p]
           /\ task'[h][o].pc = pc
           /\ task'[h][o].named = task[h][o].named
           /\ task'[h][o].owns = task[h][o].owns
<1> task[h][o] \in Task
  BY DEF TypeOK
<1> QED BY DEF Goto, SetTask, TypeOK, Task

LEMMA TaskEnds ==
    ASSUME TypeOK, NEW h \in Homes, NEW o \in Ops, EndTask(h, o)
    PROVE  /\ \A g \in Homes \ {h} : task'[g] = task[g]
           /\ \A p \in Ops \ {o} : task'[h][p] = task[h][p]
           /\ task'[h][o] = IdleTask
<1>1. task' = [task EXCEPT ![h] = [task[h] EXCEPT ![o] = IdleTask]]
  BY DEF EndTask, SetTask
<1>2. task \in [Homes -> [Ops -> Task]]
  BY DEF TypeOK
<1> QED BY <1>1, <1>2

LEMMA AnyTaskRules ==
    ASSUME IInv, NEW g \in Homes, NEW h \in Homes, NEW o \in Ops, AnyTask(h, o)
    PROVE  Rules(g)'
<1> USE DEF Rules, HomeRule, LiveRule, ExclusionRule, ProvisionRule, CleanupRule,
            Provision, Cleanup, Queued
<1> Rules(h) /\ Rules(g) /\ TypeOK
  BY DEF IInv
<1>o. o \in {"provision", "cleanup"} /\ "provision" \in Ops /\ "cleanup" \in Ops
  BY DEF Ops
<1>1. CASE g # h
  <2>1. home'[g] = home[g] /\ jobs'[g] = jobs[g] /\ access'[g] = access[g] /\ deleteReq' = deleteReq
    BY <1>1 DEF AnyTask, LoadHome, LoadHomeFails, ClearAccess, ClearAccessFails, LastWriteFails, TypeOK
  <2>2. task'[g] = task[g]
    BY <1>1 DEF AnyTask, LoadHome, LoadHomeFails, ClearAccess, ClearAccessFails, LastWriteFails,
                Goto, EndTask, SetTask, TypeOK
  <2> QED BY <2>1, <2>2, Untouched
<1>2. CASE g = h /\ LoadHome(h, o)
  <2>1. /\ task'[h][o].pc = AfterLoad(h, o)
        /\ task'[h][o].owns = task[h][o].owns
        /\ task'[h][o].named = home[h].creds
        /\ \A p \in Ops \ {o} : task'[h][p] = task[h][p]
        /\ UNCHANGED <<home, jobs, access, deleteReq>>
    BY <1>2 DEF LoadHome, SetTask, TypeOK, Task
  <2>2. home[h].row \in {"live", "deleted"} /\ task[h][o].pc = "load"
    BY <1>2 DEF LoadHome, IdleTask, TypeOK, HomeRow
  <2>3. CASE o = "provision"
    BY <1>2, <1>o, <2>1, <2>2, <2>3 DEF AfterLoad
  <2>4. CASE o = "cleanup"
    BY <1>2, <1>o, <2>1, <2>2, <2>4 DEF AfterLoad
  <2> QED BY <1>o, <2>3, <2>4
<1>3. CASE g = h /\ LoadHomeFails(h, o)
  BY <1>3, <1>o, TaskMoves DEF LoadHomeFails, IdleTask
<1>4. CASE g = h /\ ClearAccess(h, o)
  BY <1>4, <1>o, TaskMoves DEF ClearAccess, IdleTask, TypeOK
<1>5. CASE g = h /\ ClearAccessFails(h, o)
  BY <1>5, <1>o, TaskMoves DEF ClearAccessFails, IdleTask, TypeOK
<1>6. CASE g = h /\ LastWriteFails(h, o)
  BY <1>6, <1>o, TaskEnds DEF LastWriteFails, Rescheduling, IdleTask, TypeOK
<1> QED BY <1>1, <1>2, <1>3, <1>4, <1>5, <1>6 DEF AnyTask

LEMMA ProvisionTaskRules ==
    ASSUME IInv, NEW g \in Homes, NEW h \in Homes, ProvisionTask(h)
    PROVE  Rules(g)'
<1> USE DEF Rules, HomeRule, LiveRule, ExclusionRule, ProvisionRule, CleanupRule,
            Provision, Cleanup, Queued
<1> Rules(h) /\ Rules(g) /\ TypeOK
  BY DEF IInv
<1>o. "provision" \in Ops /\ "cleanup" \in Ops
  BY DEF Ops
<1>1. CASE g # h
  <2>1. /\ home'[g] = home[g] /\ jobs'[g] = jobs[g] /\ access'[g] = access[g]
        /\ deleteReq' = deleteReq
    BY <1>1 DEF ProvisionTask, GrantAccess, GrantAccessFails, CommitProvision,
                CommitProvisionFails, DeleteJob, RescheduleProvision, DeleteRow, RewriteRow, TypeOK
  <2>2. task'[g] = task[g]
    BY <1>1, <1>o, TaskMoves, TaskEnds
       DEF ProvisionTask, GrantAccess, GrantAccessFails, CommitProvision,
           CommitProvisionFails, DeleteJob, RescheduleProvision
  <2> QED BY <2>1, <2>2, Untouched
<1>a. Provision(h).pc # "idle" => home[h].row = "live" /\ Cleanup(h).pc = "idle"
  <2>1. home[h].row \in {"none", "live", "deleted"}
    BY DEF TypeOK, HomeRow
  <2> QED BY <1>o, <2>1 DEF IdleTask
<1>2. CASE g = h /\ (GrantAccess(h) \/ GrantAccessFails(h))
  BY SMTT(30), <1>2, <1>o, <1>a, TaskMoves DEF GrantAccess, GrantAccessFails, TypeOK
<1>3. CASE g = h /\ CommitProvision(h)
  <2>1. /\ home'[h].row = "live" /\ home'[h].state = "ready" /\ home'[h].creds
        /\ access' = access /\ deleteReq' = deleteReq
    BY <1>3, <1>a DEF CommitProvision, Live, TypeOK, HomeRow
  <2>2. ~Queued(h, "provision")' /\ jobs'[h]["cleanup"] = jobs[h]["cleanup"]
    BY <1>3, <1>o DEF CommitProvision, DeleteRow, TypeOK
  <2> QED BY <1>3, <1>o, <1>a, <2>1, <2>2, TaskEnds DEF CommitProvision, IdleTask
<1>4. CASE g = h /\ CommitProvisionFails(h)
  BY <1>4, <1>o, <1>a, TaskEnds DEF CommitProvisionFails, IdleTask
<1>5. CASE g = h /\ DeleteJob(h)
  BY <1>5, <1>o, <1>a, TaskEnds DEF DeleteJob, DeleteRow, IdleTask
<1>6. CASE g = h /\ RescheduleProvision(h)
  <2>1. /\ home'[h].row = "live" /\ home'[h].creds
        /\ home'[h].state \in {home[h].state, "pending", "failed"}
        /\ access' = access /\ deleteReq' = deleteReq
    BY <1>6, <1>a DEF RescheduleProvision, Rescheduling, Live, TypeOK, HomeRow
  <2>2. jobs'[h]["cleanup"] = jobs[h]["cleanup"]
    BY <1>6, <1>o DEF RescheduleProvision, RewriteRow, TypeOK
  <2>3. Provision(h).owns => Queued(h, "provision")'
    BY <1>6, <1>o DEF RescheduleProvision, RewriteRow, TypeOK, NoRow, JobRow
  <2>4. ~Provision(h).owns => jobs' = jobs
    BY <1>6 DEF RescheduleProvision, RewriteRow
  <2>5. Provision(h).pc # "idle"
    BY <1>6 DEF RescheduleProvision, Rescheduling
  <2> QED BY <1>6, <1>o, <1>a, <2>1, <2>2, <2>3, <2>4, <2>5, TaskEnds
          DEF RescheduleProvision, IdleTask
<1> QED BY <1>1, <1>2, <1>3, <1>4, <1>5, <1>6 DEF ProvisionTask

LEMMA CleanupTaskRules ==
    ASSUME IInv, NEW g \in Homes, NEW h \in Homes, CleanupTask(h)
    PROVE  Rules(g)'
<1> USE DEF Rules, HomeRule, LiveRule, ExclusionRule, ProvisionRule, CleanupRule,
            Provision, Cleanup, Queued
<1> Rules(h) /\ Rules(g) /\ TypeOK
  BY DEF IInv
<1>o. "provision" \in Ops /\ "cleanup" \in Ops
  BY DEF Ops
<1>1. CASE g # h
  <2>1. /\ home'[g] = home[g] /\ jobs'[g] = jobs[g] /\ access'[g] = access[g]
        /\ deleteReq' = deleteReq
    BY <1>1 DEF CleanupTask, LoadDevices, LoadDevicesFails, SweepDevice, SweepDeviceFails,
                UncacheDevice, CommitCleanup, CommitCleanupFails, RescheduleCleanup,
                DeleteRow, RewriteRow, deviceVars, TypeOK
  <2>2. task'[g] = task[g]
    BY <1>1 DEF CleanupTask, LoadDevices, LoadDevicesFails, SweepDevice, SweepDeviceFails,
                UncacheDevice, CommitCleanup, CommitCleanupFails, RescheduleCleanup,
                Goto, EndTask, SetTask, TypeOK
  <2> QED BY <2>1, <2>2, Untouched
<1>a. Cleanup(h).pc # "idle" => home[h].row \in {"live", "deleted"} /\ Provision(h).pc = "idle"
  <2>1. home[h].row \in {"none", "live", "deleted"}
    BY DEF TypeOK, HomeRow
  <2> QED BY <1>o, <2>1 DEF IdleTask
<1>t. task[h]["cleanup"] \in Task
  BY <1>o DEF TypeOK
<1>2. CASE g = h /\ LoadDevices(h)
  <2>1. /\ Cleanup(h)'.pc = IF Cleanup(h).named THEN "clear" ELSE "sweep"
        /\ Cleanup(h)'.owns = Cleanup(h).owns
        /\ Provision(h)' = Provision(h)
    BY <1>2, <1>o, <1>t DEF LoadDevices, SetTask, TypeOK, Task
  <2> QED BY <1>2, <1>a, <2>1 DEF LoadDevices
<1>3. CASE g = h /\ (LoadDevicesFails(h) \/ CommitCleanupFails(h)
                       \/ \E d \in Devices : SweepDeviceFails(h, d))
  BY <1>3, <1>o, <1>a, TaskMoves DEF LoadDevicesFails, CommitCleanupFails, SweepDeviceFails, deviceVars
<1>4. ASSUME NEW d \in Devices, g = h, SweepDevice(h, d) \/ UncacheDevice(h, d)
      PROVE  Rules(g)'
  <2>1. /\ Provision(h)' = Provision(h)
        /\ \/ Cleanup(h)'.pc = Cleanup(h).pc /\ Cleanup(h)'.owns = Cleanup(h).owns
           \/ Cleanup(h)' = IdleTask
    <3> DEFINE less == [task[h]["cleanup"] EXCEPT !.todo = @ \ {d}]
    <3>1. less.pc = Cleanup(h).pc /\ less.owns = Cleanup(h).owns
      BY <1>t DEF Task
    <3>2. SetTask(h, "cleanup", less) \/ SetTask(h, "cleanup", IdleTask)
      BY <1>4 DEF SweepDevice, UncacheDevice
    <3> HIDE DEF less
    <3> QED BY <1>o, <3>1, <3>2 DEF SetTask, TypeOK
  <2>2. Cleanup(h).pc \in {"sweep", "uncache"} /\ UNCHANGED <<home, jobs, access, deleteReq>>
    BY <1>4 DEF SweepDevice, UncacheDevice
  <2> QED BY <1>4, <1>a, <2>1, <2>2 DEF IdleTask
<1>5. CASE g = h /\ CommitCleanup(h)
  <2>1. /\ home'[h] = [row |-> "deleted", state |-> "deleting", creds |-> FALSE]
        /\ access' = access /\ deleteReq' = deleteReq
        /\ Cleanup(h).pc = "sweep"
    BY <1>5 DEF CommitCleanup, TypeOK
  <2>2. /\ jobs'[h]["provision"] = jobs[h]["provision"]
        /\ jobs'[h]["cleanup"] = IF Cleanup(h).owns THEN NoRow ELSE jobs[h]["cleanup"]
    BY <1>5, <1>o DEF CommitCleanup, DeleteRow, TypeOK
  <2>3. /\ Provision(h)' = Provision(h)
        /\ Cleanup(h)'.pc \in {"idle", "uncache"} /\ ~Cleanup(h)'.owns
    BY <1>5, <1>o, <1>t DEF CommitCleanup, SetTask, TypeOK, Task, IdleTask
  <2> QED BY <1>5, <1>a, <2>1, <2>2, <2>3
<1>6. CASE g = h /\ RescheduleCleanup(h)
  <2>1. /\ Cleanup(h).pc \in {"reschedule", "rescheduleJob"}
        /\ access' = access /\ deleteReq' = deleteReq
    BY <1>6 DEF RescheduleCleanup, Rescheduling
  <2>2. /\ home'[h].row = home[h].row /\ home'[h].creds = home[h].creds
        /\ home[h].row = "live" => home'[h].state \in {"deleting", home[h].state}
        /\ home[h].row = "deleted" => home'[h] = home[h]
    BY <1>6, <1>a, <2>1 DEF RescheduleCleanup, TypeOK, HomeRow
  <2>3. /\ jobs'[h]["provision"] = jobs[h]["provision"]
        /\ Queued(h, "cleanup")'
        /\ jobs'[h]["cleanup"].status \in {"pending", "running"}
    BY <1>6, <1>o, <2>1 DEF RescheduleCleanup, RewriteRow, TypeOK, NoRow, JobRow
  <2> QED BY <1>6, <1>o, <1>a, <2>1, <2>2, <2>3, TaskEnds DEF RescheduleCleanup, IdleTask
<1> QED BY <1>1, <1>2, <1>3, <1>4, <1>5, <1>6 DEF CleanupTask

-----------------------------------------------------------------------------
(* The invariant, and what follows from it *)

LEMMA InvInit == Init => IInv
BY TypeInit, RulesInit DEF IInv

LEMMA InvStep == IInv /\ [Next]_vars => IInv'
<1> SUFFICES ASSUME IInv, [Next]_vars, NEW g \in Homes PROVE Rules(g)'
  BY TypeStep DEF IInv
<1>1. CASE UNCHANGED vars
  BY <1>1, Untouched DEF IInv, vars
<1>2. CASE Worker
  BY <1>2, BatchRules, AnyTaskRules, ProvisionTaskRules, CleanupTaskRules DEF Worker
<1> QED BY <1>1, <1>2, HandlerRules, DeviceRules DEF Next

\* Every reachable state obeys the rules.
THEOREM Invariance == Spec => []IInv
BY InvInit, InvStep, PTL DEF Spec

\* The access of a deleted home is gone, whatever crashed, failed or was
\* retried on the way.
THEOREM AccessRevoked == Spec => []NoAccessAfterDeletion
<1>1. IInv => NoAccessAfterDeletion
  BY DEF IInv, Rules, HomeRule, NoAccessAfterDeletion
<1> QED BY <1>1, Invariance, PTL

\* The two jobs of a home exclude each other, as rows and as goroutines.
THEOREM JobsExclude == Spec => []OneJobPerHome
<1>1. IInv => OneJobPerHome
  BY DEF IInv, Rules, ExclusionRule, OneJobPerHome, Provision, Cleanup, Queued
<1> QED BY <1>1, Invariance, PTL

\* A home that waits, or that is being deleted, has a row in the queue.
THEOREM NothingForgotten == Spec => []NoForgottenHome
<1>1. IInv => NoForgottenHome
  BY DEF IInv, Rules, LiveRule, NoForgottenHome, Queued, Live, Ops
<1> QED BY <1>1, Invariance, PTL

\* A ready home has its access, unless its deletion is queued.
THEOREM ReadyHasAccess == Spec => []ReadyMeansAccess
<1>1. IInv => ReadyMeansAccess
  BY DEF IInv, Rules, LiveRule, ReadyMeansAccess, Queued, Live
<1> QED BY <1>1, Invariance, PTL

\* No step revives a deleted home, and only the deletion of the home ends a
\* cleanup row.
LEMMA DeletionGoesOn ==
    ASSUME IInv, [Next]_vars, NEW h \in Homes
    PROVE  /\ home[h].row = "deleted" => home'[h].row = "deleted"
           /\ Queued(h, "cleanup") => Queued(h, "cleanup")' \/ home'[h].row = "deleted"
<1> DEFINE Goal == /\ home[h].row = "deleted" => home'[h].row = "deleted"
                   /\ Queued(h, "cleanup") => Queued(h, "cleanup")' \/ home'[h].row = "deleted"
<1> USE DEF Queued
<1> TypeOK /\ "provision" \in Ops /\ "cleanup" \in Ops
  BY DEF IInv, Ops
<1>1. ASSUME NEW g \in Homes, EnrollHome(g) PROVE Goal
  BY <1>1 DEF IInv, Rules, HomeRule, EnrollHome, EnqueueProvision, TypeOK
<1>2. ASSUME NEW H \in SUBSET Homes, ScheduleHomeDeletion(H) PROVE Goal
  <2>1. CASE h \in H
    BY <1>2, <2>1, Scheduled DEF FreshRow, NoRow
  <2>2. CASE h \notin H
    BY <1>2, <2>2 DEF ScheduleHomeDeletion
  <2> QED BY <2>1, <2>2
<1>3. CASE UNCHANGED <<home, jobs>>
  BY <1>3
<1>4. ASSUME NEW S \in SUBSET (Homes \X Ops), RequeueStaleClaims(S) \/ ClaimJobs(S) PROVE Goal
  <2>1. CASE RequeueStaleClaims(S)
    <3>1. \/ jobs'[h]["cleanup"] = jobs[h]["cleanup"]
          \/ jobs'[h]["cleanup"].status = "pending"
      BY <2>1, RowFields DEF RequeueStaleClaims, TypeOK, JobRow
    <3> QED BY <2>1, <3>1 DEF RequeueStaleClaims, NoRow
  <2>2. CASE ClaimJobs(S)
    <3>1. \/ jobs'[h]["cleanup"] = jobs[h]["cleanup"]
          \/ jobs'[h]["cleanup"].status = "running"
      BY <2>2 DEF ClaimJobs
    <3> QED BY <2>2, <3>1 DEF ClaimJobs, NoRow
  <2> QED BY <1>4, <2>1, <2>2
<1>5. ASSUME NEW g \in Homes, CommitProvision(g) \/ DeleteJob(g) \/ RescheduleProvision(g)
      PROVE  Goal
  <2>1. home'[h].row = home[h].row
    <3>1. home[g] \in HomeRow /\ \A s : [home[g] EXCEPT !.state = s].row = home[g].row
      BY DEF TypeOK, HomeRow
    <3>2. \/ home' = home
          \/ \E s \in HomeStates : home' = [home EXCEPT ![g] = [home[g] EXCEPT !.state = s]]
      BY <1>5 DEF CommitProvision, DeleteJob, RescheduleProvision, HomeStates
    <3> QED BY ZenonT(60), <3>1, <3>2 DEF TypeOK
  <2>2. jobs'[h]["cleanup"] = jobs[h]["cleanup"]
    <3>1. DeleteRow(g, "provision") \/ \E s \in {"pending", "failed"} : RewriteRow(g, "provision", s)
      BY <1>5 DEF CommitProvision, DeleteJob, RescheduleProvision
    <3>2. \/ jobs' = jobs
          \/ \E r : jobs' = [jobs EXCEPT ![g] = [jobs[g] EXCEPT !["provision"] = r]]
      BY <3>1 DEF DeleteRow, RewriteRow
    <3> QED BY <3>2 DEF TypeOK
  <2> QED BY <2>1, <2>2
<1>6. ASSUME NEW g \in Homes, CommitCleanup(g) PROVE Goal
  BY <1>6 DEF CommitCleanup, DeleteRow, TypeOK
<1>7. ASSUME NEW g \in Homes, RescheduleCleanup(g) PROVE Goal
  <2>1. home'[h].row = home[h].row
    BY <1>7 DEF RescheduleCleanup, TypeOK, HomeRow
  <2>2. \/ jobs'[h]["cleanup"] = jobs[h]["cleanup"]
        \/ jobs'[h]["cleanup"].status = "pending"
    BY <1>7 DEF RescheduleCleanup, RewriteRow, TypeOK, JobRow
  <2> QED BY <2>1, <2>2 DEF NoRow
<1>8. CASE \/ \E g \in Homes : HomeHandler(g)
           \/ \E u \in Users : UserHandler(u)
  BY <1>1, <1>2, <1>3, <1>8 DEF HomeHandler, UserHandler, DeleteHomeCheck, DeleteHomeCommit,
     DeleteUser, EndSessions, workVars
<1>9. CASE \/ \E d \in Devices : DeviceHandler(d)
           \/ Reconnect \/ CrashAndRestart
  BY <1>3, <1>9 DEF DeviceHandler, EnrollDeviceCheck, EnrollDeviceCreate, EnrollDeviceCache,
     EnrollDeviceSubscribe, DeleteDevice, RemoveTrace, TriggerUpdateCheck,
     TriggerUpdatePublish, Reconnect, CrashAndRestart, workVars
<1>10. CASE Worker
  <2>1. ASSUME NEW g \in Homes, NEW o \in Ops, AnyTask(g, o) PROVE Goal
    BY <1>3, <2>1 DEF AnyTask, LoadHome, LoadHomeFails, ClearAccess, ClearAccessFails, LastWriteFails
  <2>2. ASSUME NEW g \in Homes, ProvisionTask(g) PROVE Goal
    BY <1>3, <1>5, <2>2 DEF ProvisionTask, GrantAccess, GrantAccessFails, CommitProvisionFails
  <2>3. ASSUME NEW g \in Homes, CleanupTask(g) PROVE Goal
    BY <1>3, <1>6, <1>7, <2>3 DEF CleanupTask, LoadDevices, LoadDevicesFails, SweepDevice,
       SweepDeviceFails, UncacheDevice, CommitCleanupFails
  <2> QED BY <1>4, <1>10, <2>1, <2>2, <2>3 DEF Worker
<1>11. CASE UNCHANGED vars
  BY <1>3, <1>11 DEF vars
<1> QED BY <1>8, <1>9, <1>10, <1>11 DEF Next

\* A queued deletion keeps its row until the home is deleted, and no outcome
\* of any task marks that row failed.
THEOREM DeletionNeverDropped == Spec => DeletionStaysQueued
<1>1. ASSUME IInv, IInv', [Next]_vars
      PROVE  \A h \in Homes : Live(h) /\ jobs[h]["cleanup"] # NoRow =>
                \/ home[h].row' = "deleted"
                \/ jobs[h]["cleanup"].status' \in {"pending", "running"}
  <2> SUFFICES ASSUME NEW h \in Homes, Queued(h, "cleanup"), home'[h].row # "deleted"
               PROVE  jobs'[h]["cleanup"].status \in {"pending", "running"}
    BY DEF Queued
  <2>1. Queued(h, "cleanup")'
    BY <1>1, DeletionGoesOn
  <2> QED BY <1>1, <2>1 DEF IInv, Rules, ExclusionRule, Queued
<1> QED BY <1>1, Invariance, PTL DEF Spec, DeletionStaysQueued

\* A deleted home stays as it was left: its row, its credentials, its access.
THEOREM DeletionHolds == Spec => DeletionIsFinal
<1>1. ASSUME IInv, IInv', [Next]_vars
      PROVE  \A h \in Homes : home[h].row = "deleted" => home[h]' = home[h] /\ access[h]' = {}
  <2> SUFFICES ASSUME NEW h \in Homes, home[h].row = "deleted"
               PROVE  home'[h] = home[h] /\ access'[h] = {}
    OBVIOUS
  <2>1. home'[h].row = "deleted"
    BY <1>1, DeletionGoesOn
  <2> QED BY <1>1, <2>1 DEF IInv, Rules, HomeRule
<1> QED BY <1>1, Invariance, PTL DEF Spec, DeletionIsFinal

-----------------------------------------------------------------------------
(* Devices: what the requests and snapshots that are under way may count on *)

\* A device belongs to a home once it is created, it is created once, and its
\* removal starts with its row.
DeviceRule(d) ==
    /\ device[d].row = "none" => device[d].home = NoHome
    /\ enroll[d].pc = "checked" => device[d].row = "none"
    /\ removing[d] # "idle" => device[d].row = "deleted"

\* The devices a cleanup task works on belong to its home, and those it is still
\* to take out of the cache are deleted.
SnapshotRule(h) ==
    /\ Cleanup(h).pc \in {"clear", "sweep"} =>
          \A d \in Cleanup(h).devs \cup Cleanup(h).todo : device[d].home = h
    /\ Cleanup(h).pc = "uncache" =>
          \A d \in Cleanup(h).todo : device[d].row = "deleted"

DInv ==
    /\ IInv
    /\ \A d \in Devices : DeviceRule(d)
    /\ \A h \in Homes : SnapshotRule(h)

LEMMA DInit == Init => DInv
BY InvInit DEF Init, DInv, DeviceRule, SnapshotRule, Cleanup, IdleTask, NoDeviceRow, Ops

\* The steps that are no handler's of a device leave devices and their requests
\* alone, except for the commit of a cleanup and a crash.
LEMMA DevicesAlone ==
    ASSUME [Next]_vars
    PROVE  \/ \E d \in Devices : DeviceHandler(d)
           \/ \E h \in Homes : CommitCleanup(h)
           \/ CrashAndRestart
           \/ UNCHANGED <<device, enroll, removing>>
<1> DEFINE Goal == \/ \E d \in Devices : DeviceHandler(d)
                   \/ \E h \in Homes : CommitCleanup(h)
                   \/ CrashAndRestart
                   \/ UNCHANGED <<device, enroll, removing>>
<1> USE DEF deviceVars
<1>1. ASSUME NEW h \in Homes, HomeHandler(h) PROVE Goal
  BY <1>1 DEF HomeHandler, EnrollHome, DeleteHomeCheck, DeleteHomeCommit
<1>2. ASSUME NEW u \in Users, UserHandler(u) PROVE Goal
  BY <1>2 DEF UserHandler, DeleteUser, EndSessions
<1>3. CASE Worker
  <2>1. ASSUME NEW S \in SUBSET (Homes \X Ops), RequeueStaleClaims(S) \/ ClaimJobs(S) PROVE Goal
    BY <2>1 DEF RequeueStaleClaims, ClaimJobs
  <2>2. ASSUME NEW h \in Homes, ProvisionTask(h) PROVE Goal
    BY <2>2 DEF ProvisionTask, GrantAccess, GrantAccessFails, CommitProvision,
                CommitProvisionFails, DeleteJob, RescheduleProvision
  <2>3. ASSUME NEW h \in Homes, CleanupTask(h) PROVE Goal
    BY <2>3 DEF CleanupTask, LoadDevices, LoadDevicesFails, SweepDevice, SweepDeviceFails,
                UncacheDevice, CommitCleanupFails, RescheduleCleanup
  <2>4. ASSUME NEW h \in Homes, NEW o \in Ops, AnyTask(h, o) PROVE Goal
    BY <2>4 DEF AnyTask, LoadHome, LoadHomeFails, ClearAccess, ClearAccessFails, LastWriteFails
  <2> QED BY <1>3, <2>1, <2>2, <2>3, <2>4 DEF Worker
<1>4. CASE Reconnect \/ UNCHANGED vars
  BY <1>4 DEF Reconnect, vars
<1> QED BY <1>1, <1>2, <1>3, <1>4 DEF Next

\* A device stays where it was created, and a deleted one stays deleted.
LEMMA DevicesStay ==
    ASSUME DInv, [Next]_vars, NEW d \in Devices
    PROVE  /\ DeviceRule(d)'
           /\ device[d].row # "none" => device'[d].home = device[d].home
           /\ device[d].row = "deleted" => device'[d].row = "deleted"
<1> DEFINE Goal == /\ DeviceRule(d)'
                   /\ device[d].row # "none" => device'[d].home = device[d].home
                   /\ device[d].row = "deleted" => device'[d].row = "deleted"
<1> USE DEF DeviceRule
<1>t. TypeOK /\ DeviceRule(d)
  BY DEF DInv, IInv
<1>d. device[d] \in DeviceRow
  BY <1>t DEF TypeOK
<1>1. CASE UNCHANGED <<device, enroll, removing>>
  BY <1>t, <1>1
<1>2. CASE CrashAndRestart
  BY <1>t, <1>2 DEF CrashAndRestart
<1>3. ASSUME NEW h \in Homes, CommitCleanup(h) PROVE Goal
  <2>1. device'[d] = IF d \in Cleanup(h).devs THEN [device[d] EXCEPT !.row = "deleted"] ELSE device[d]
    BY <1>3 DEF CommitCleanup, Cleanup
  <2>2. [device[d] EXCEPT !.row = "deleted"].row = "deleted"
        /\ [device[d] EXCEPT !.row = "deleted"].home = device[d].home
    BY <1>d DEF DeviceRow
  <2>3. UNCHANGED <<enroll, removing>>
    BY <1>3 DEF CommitCleanup
  <2>4. CASE d \notin Cleanup(h).devs
    BY <1>t, <2>1, <2>3, <2>4
  <2>5. CASE d \in Cleanup(h).devs
    <3> DEFINE D == [device[d] EXCEPT !.row = "deleted"]
    <3>1. device'[d] = D /\ D.row = "deleted" /\ D.home = device[d].home
      BY <2>1, <2>2, <2>5
    <3> HIDE DEF D
    <3>2. device[d].home = h
      BY <1>3, <2>5 DEF DInv, SnapshotRule, CommitCleanup, Cleanup
    <3>3. enroll[d].pc # "checked"
      BY <1>t, <3>2, NoHomeAssumption
    <3> QED BY <1>t, <2>3, <3>1, <3>3
  <2> QED BY <2>4, <2>5
<1>4. ASSUME NEW e \in Devices, DeviceHandler(e), e # d PROVE Goal
  <2>1. device'[d] = device[d] /\ enroll'[d] = enroll[d] /\ removing'[d] = removing[d]
    BY <1>t, <1>4 DEF DeviceHandler, EnrollDeviceCheck, EnrollDeviceCreate, EnrollDeviceCache,
       EnrollDeviceSubscribe, DeleteDevice, RemoveTrace, TriggerUpdateCheck,
       TriggerUpdatePublish, TypeOK
  <2> QED BY <1>t, <2>1
<1>5. CASE \E h \in Homes : EnrollDeviceCheck(d, h)
  BY <1>t, <1>5 DEF EnrollDeviceCheck, TypeOK
<1>6. CASE EnrollDeviceCreate(d)
  <2>1. CASE device' = device
    BY <1>t, <1>6, <2>1 DEF EnrollDeviceCreate, TypeOK
  <2>2. CASE /\ device' = [device EXCEPT ![d] = [row |-> "live", home |-> enroll[d].home,
                                                  late |-> Going(enroll[d].home)]]
             /\ enroll' = [enroll EXCEPT ![d].pc = "created"]
    <3>1. device'[d].row = "live" /\ enroll'[d].pc # "checked" /\ device[d].row = "none"
      BY <1>t, <1>6, <2>2 DEF EnrollDeviceCreate, TypeOK
    <3>2. removing' = removing
      BY <1>6 DEF EnrollDeviceCreate
    <3> QED BY <1>t, <3>1, <3>2
  <2> QED BY <1>6, <2>1, <2>2 DEF EnrollDeviceCreate
<1>7. CASE EnrollDeviceCache(d) \/ EnrollDeviceSubscribe(d)
  <2>1. enroll'[d].pc # "checked" /\ UNCHANGED <<device, removing>>
    BY <1>t, <1>7 DEF EnrollDeviceCache, EnrollDeviceSubscribe, TypeOK
  <2> QED BY <1>t, <2>1
<1>8. CASE DeleteDevice(d)
  <2>1. device'[d].row = "deleted" /\ device'[d].home = device[d].home /\ device[d].row = "live"
    BY <1>t, <1>d, <1>8 DEF DeleteDevice, TypeOK, DeviceRow
  <2>2. enroll' = enroll
    BY <1>8 DEF DeleteDevice
  <2> QED BY <1>t, <2>1, <2>2
<1>9. CASE RemoveTrace(d)
  BY <1>t, <1>9 DEF RemoveTrace, TypeOK
<1>10. CASE TriggerUpdateCheck(d) \/ TriggerUpdatePublish(d)
  BY <1>t, <1>10 DEF TriggerUpdateCheck, TriggerUpdatePublish
<1> QED BY <1>1, <1>2, <1>3, <1>4, <1>5, <1>6, <1>7, <1>8, <1>9, <1>10, DevicesAlone
        DEF DeviceHandler

\* The cleanup of a home narrows its snapshot, or reads or commits it.
LEMMA SnapshotMoves ==
    ASSUME TypeOK, [Next]_vars, NEW h \in Homes
    PROVE  \/ LoadDevices(h) \/ CommitCleanup(h)
           \/ Cleanup(h)'.pc \notin {"clear", "sweep", "uncache"}
           \/ /\ Cleanup(h)'.devs = Cleanup(h).devs
              /\ Cleanup(h)'.todo \subseteq Cleanup(h).todo
              /\ Cleanup(h)'.pc = "uncache" => Cleanup(h).pc = "uncache"
              /\ Cleanup(h)'.pc \in {"clear", "sweep"} => Cleanup(h).pc \in {"clear", "sweep"}
<1> DEFINE Idles == Cleanup(h)'.pc \notin {"clear", "sweep", "uncache"}
           Narrows == /\ Cleanup(h)'.devs = Cleanup(h).devs
                      /\ Cleanup(h)'.todo \subseteq Cleanup(h).todo
                      /\ Cleanup(h)'.pc = "uncache" => Cleanup(h).pc = "uncache"
                      /\ Cleanup(h)'.pc \in {"clear", "sweep"} => Cleanup(h).pc \in {"clear", "sweep"}
           Goal == LoadDevices(h) \/ CommitCleanup(h) \/ Idles \/ Narrows
<1>o. "cleanup" \in Ops /\ "provision" \in Ops /\ Cleanup(h) \in Task
  BY DEF TypeOK, Ops, Cleanup
<1>s. Cleanup(h)' = Cleanup(h) => Narrows
  OBVIOUS
<1>i. Cleanup(h)' = IdleTask => Idles
  BY DEF IdleTask
<1>1. CASE UNCHANGED task
  BY <1>s, <1>1 DEF Cleanup
<1>2. ASSUME NEW H \in SUBSET Homes, ScheduleHomeDeletion(H) PROVE Goal
  <2>1. CASE h \notin H
    BY <1>s, <1>2, <2>1 DEF ScheduleHomeDeletion, Cleanup
  <2>2. CASE h \in H
    <3>1. Cleanup(h)' = [Cleanup(h) EXCEPT !.owns = FALSE]
      BY <1>2, <1>o, <2>2 DEF ScheduleHomeDeletion, Cleanup
    <3> QED BY <1>o, <3>1 DEF Task
  <2> QED BY <2>1, <2>2
<1>3. CASE CrashAndRestart
  BY <1>i, <1>o, <1>3 DEF CrashAndRestart, Cleanup
<1>4. ASSUME NEW S \in SUBSET (Homes \X Ops), ClaimJobs(S) PROVE Goal
  <2>1. Cleanup(h)' = Cleanup(h) \/ Cleanup(h)'.pc = "load"
    BY <1>4, <1>o DEF ClaimJobs, Cleanup, IdleTask
  <2> QED BY <1>s, <2>1
<1>5. ASSUME NEW g \in Homes, NEW o \in Ops, NEW t, SetTask(g, o, t),
             g # h \/ o # "cleanup"
      PROVE  Goal
  <2>1. Cleanup(h)' = Cleanup(h)
    BY <1>5, <1>o DEF SetTask, Cleanup, TypeOK
  <2> QED BY <1>s, <2>1
<1>6. ASSUME NEW g \in Homes, ProvisionTask(g) PROVE Goal
  BY <1>1, <1>5, <1>6, <1>o DEF ProvisionTask, GrantAccess, GrantAccessFails, CommitProvision,
     CommitProvisionFails, DeleteJob, RescheduleProvision, Goto, EndTask
<1>7. ASSUME NEW g \in Homes, CleanupTask(g), g # h PROVE Goal
  BY <1>5, <1>7, <1>o DEF CleanupTask, LoadDevices, LoadDevicesFails, SweepDevice,
     SweepDeviceFails, UncacheDevice, CommitCleanup, CommitCleanupFails, RescheduleCleanup,
     Goto, EndTask
<1>8. ASSUME NEW g \in Homes, NEW o \in Ops, AnyTask(g, o), g # h \/ o # "cleanup" PROVE Goal
  BY <1>5, <1>8 DEF AnyTask, LoadHome, LoadHomeFails, ClearAccess, ClearAccessFails,
     LastWriteFails, Goto, EndTask
<1>9. ASSUME NEW t, SetTask(h, "cleanup", t) PROVE Cleanup(h)' = t
  BY <1>9, <1>o DEF SetTask, Cleanup, TypeOK
<1>10. CASE AnyTask(h, "cleanup")
  <2>1. CASE LoadHome(h, "cleanup")
    <3>1. Cleanup(h)' = [Cleanup(h) EXCEPT !.pc = "devices", !.named = home[h].creds]
      BY <1>9, <2>1 DEF LoadHome, AfterLoad, Cleanup
    <3> QED BY <1>o, <3>1 DEF Task
  <2>2. CASE LoadHomeFails(h, "cleanup") \/ ClearAccessFails(h, "cleanup")
    <3>1. \E pc \in {"rescheduleJob", "reschedule"} : Cleanup(h)' = [Cleanup(h) EXCEPT !.pc = pc]
      BY <1>9, <2>2 DEF LoadHomeFails, ClearAccessFails, Goto, Cleanup
    <3> QED BY <1>o, <3>1 DEF Task
  <2>3. CASE ClearAccess(h, "cleanup")
    <3>1. Cleanup(h)' = [Cleanup(h) EXCEPT !.pc = "sweep"] /\ Cleanup(h).pc = "clear"
      BY <1>9, <2>3 DEF ClearAccess, Goto, Cleanup
    <3> QED BY <1>o, <3>1 DEF Task
  <2>4. CASE LastWriteFails(h, "cleanup")
    BY <1>9, <1>i, <2>4 DEF LastWriteFails, EndTask
  <2> QED BY <1>10, <2>1, <2>2, <2>3, <2>4 DEF AnyTask
<1>11. CASE CleanupTask(h)
  <2>1. CASE \/ LoadDevicesFails(h) \/ CommitCleanupFails(h)
             \/ \E d \in Devices : SweepDeviceFails(h, d)
    <3>1. Cleanup(h)' = [Cleanup(h) EXCEPT !.pc = "reschedule"]
      BY <1>9, <2>1 DEF LoadDevicesFails, CommitCleanupFails, SweepDeviceFails, Goto, Cleanup
    <3> QED BY <1>o, <3>1 DEF Task
  <2>2. ASSUME NEW d \in Devices, SweepDevice(h, d) \/ UncacheDevice(h, d) PROVE Goal
    <3>1. \/ Cleanup(h)' = [Cleanup(h) EXCEPT !.todo = @ \ {d}]
          \/ Cleanup(h)' = IdleTask
      BY <1>9, <2>2 DEF SweepDevice, UncacheDevice, Cleanup
    <3> QED BY <1>o, <1>i, <3>1 DEF Task
  <2>3. CASE RescheduleCleanup(h)
    BY <1>9, <1>i, <2>3 DEF RescheduleCleanup, EndTask
  <2> QED BY <1>11, <2>1, <2>2, <2>3 DEF CleanupTask
<1>12. CASE Worker
  <2>1. ASSUME NEW S \in SUBSET (Homes \X Ops), RequeueStaleClaims(S) PROVE Goal
    BY <1>1, <2>1 DEF RequeueStaleClaims
  <2>2. ASSUME NEW g \in Homes, NEW o \in Ops, AnyTask(g, o) PROVE Goal
    BY <1>8, <1>10, <2>2
  <2>3. ASSUME NEW g \in Homes, CleanupTask(g) PROVE Goal
    BY <1>7, <1>11, <2>3
  <2> QED BY <1>4, <1>6, <1>12, <2>1, <2>2, <2>3 DEF Worker
<1>13. CASE \/ \E g \in Homes : HomeHandler(g)
            \/ \E u \in Users : UserHandler(u)
  BY <1>1, <1>2, <1>13 DEF HomeHandler, UserHandler, EnrollHome, DeleteHomeCheck,
     DeleteHomeCommit, DeleteUser, EndSessions, workVars
<1>14. CASE (\E d \in Devices : DeviceHandler(d)) \/ Reconnect
  BY <1>1, <1>14 DEF DeviceHandler, EnrollDeviceCheck, EnrollDeviceCreate, EnrollDeviceCache,
     EnrollDeviceSubscribe, DeleteDevice, RemoveTrace, TriggerUpdateCheck,
     TriggerUpdatePublish, Reconnect, workVars
<1> QED BY <1>1, <1>3, <1>12, <1>13, <1>14 DEF Next, vars

LEMMA SnapshotStays ==
    ASSUME DInv, [Next]_vars, NEW h \in Homes
    PROVE  SnapshotRule(h)'
<1> USE DEF SnapshotRule
<1>t. TypeOK /\ SnapshotRule(h) /\ Cleanup(h) \in Task
  BY DEF DInv, IInv, TypeOK, Ops, Cleanup
<1>n. \A d \in Devices : device[d].home = h => device[d].row # "none"
  BY NoHomeAssumption DEF DInv, DeviceRule
<1>d. Cleanup(h).devs \subseteq Devices /\ Cleanup(h).todo \subseteq Devices
  BY <1>t DEF Task
<1>1. CASE LoadDevices(h)
  <2> DEFINE found == {d \in Devices : device[d].home = h}
  <2>1. Cleanup(h)' = [Cleanup(h) EXCEPT !.pc = IF Cleanup(h).named THEN "clear" ELSE "sweep",
                                         !.devs = found, !.todo = found]
    BY ZenonT(60), <1>1, <1>t DEF LoadDevices, SetTask, Cleanup, TypeOK, Ops
  <2>2. Cleanup(h)'.devs = found /\ Cleanup(h)'.todo = found /\ Cleanup(h)'.pc # "uncache"
    BY <1>t, <2>1 DEF Task
  <2>3. device' = device
    BY <1>1 DEF LoadDevices, deviceVars
  <2> QED BY <2>2, <2>3
<1>2. CASE CommitCleanup(h)
  <2>1. \/ Cleanup(h)' = IdleTask
        \/ Cleanup(h)' = [Cleanup(h) EXCEPT !.pc = "uncache", !.owns = FALSE,
                                            !.todo = Cleanup(h).devs]
    BY <1>2, <1>t DEF CommitCleanup, SetTask, Cleanup, TypeOK, Ops
  <2>2. \/ Cleanup(h)'.pc = "idle"
        \/ Cleanup(h)'.pc = "uncache" /\ Cleanup(h)'.todo = Cleanup(h).devs
    <3>1. ASSUME NEW t \in Task, NEW u,
                 u = [t EXCEPT !.pc = "uncache", !.owns = FALSE, !.todo = t.devs]
          PROVE  u.pc = "uncache" /\ u.todo = t.devs
      BY <3>1 DEF Task
    <3>2. IdleTask.pc = "idle"
      BY DEF IdleTask
    <3> HIDE DEF SnapshotRule
    <3> QED BY <1>t, <2>1, <3>1, <3>2
  <2>3. \A d \in Cleanup(h).devs : device'[d].row = "deleted"
    <3> SUFFICES ASSUME NEW d \in Cleanup(h).devs PROVE device'[d].row = "deleted"
      OBVIOUS
    <3> DEFINE D == [device[d] EXCEPT !.row = "deleted"]
    <3>1. d \in Devices
      BY <1>d
    <3>2. device'[d] = D
      BY <1>2, <3>1 DEF CommitCleanup, Cleanup
    <3>3. D.row = "deleted"
      BY <1>t, <3>1 DEF TypeOK, DeviceRow
    <3> HIDE DEF D
    <3> QED BY <3>2, <3>3
  <2> QED BY <2>2, <2>3
<1>3. CASE Cleanup(h)'.pc \notin {"clear", "sweep", "uncache"}
  BY <1>3
<1>4. CASE /\ Cleanup(h)'.devs = Cleanup(h).devs
           /\ Cleanup(h)'.todo \subseteq Cleanup(h).todo
           /\ Cleanup(h)'.pc = "uncache" => Cleanup(h).pc = "uncache"
           /\ Cleanup(h)'.pc \in {"clear", "sweep"} => Cleanup(h).pc \in {"clear", "sweep"}
  <2>1. \A d \in Devices : /\ device[d].home = h => device'[d].home = h
                           /\ device[d].row = "deleted" => device'[d].row = "deleted"
    BY <1>n, DevicesStay
  <2> QED BY <1>t, <1>d, <1>4, <2>1
<1> QED BY <1>t, <1>1, <1>2, <1>3, <1>4, SnapshotMoves

LEMMA DStep == DInv /\ [Next]_vars => DInv'
BY InvStep, DevicesStay, SnapshotStays DEF DInv

\* What a step may take from a live device in sight.
LEMMA TracesStay ==
    ASSUME DInv, [Next]_vars, NEW d \in Devices,
           device[d].row = "live", {"meta", "subscription"} \subseteq traces[d],
           jobs[device[d].home]["cleanup"] = NoRow
    PROVE  "meta" \in traces[d]' /\ ("subscription" \in traces[d]' \/ Reconnect \/ CrashAndRestart)
<1> DEFINE Goal == "meta" \in traces[d]' /\ ("subscription" \in traces[d]' \/ Reconnect \/ CrashAndRestart)
<1>t. TypeOK /\ DeviceRule(d)
  BY DEF DInv, IInv
<1>1. CASE traces'[d] = traces[d]
  BY <1>1
<1>2. CASE UNCHANGED traces
  BY <1>2
<1>3. CASE Reconnect
  BY <1>3 DEF Reconnect, SessionWith, Cached
<1>4. CASE CrashAndRestart
  BY <1>4 DEF CrashAndRestart, SessionWith, Cached
<1>5. ASSUME NEW e \in Devices, DeviceHandler(e) PROVE Goal
  <2>1. CASE RemoveTrace(e)
    <3>1. e # d
      BY <1>t, <2>1 DEF RemoveTrace, DeviceRule
    <3>2. traces'[d] = traces[d]
      BY <1>t, <2>1, <3>1 DEF RemoveTrace, TypeOK
    <3> QED BY <1>1, <3>2
  <2>2. CASE EnrollDeviceCache(e) \/ EnrollDeviceSubscribe(e) \/ TriggerUpdatePublish(e)
    <3>1. \E put : traces' = [traces EXCEPT ![e] = @ \cup put]
      BY <2>2 DEF EnrollDeviceCache, EnrollDeviceSubscribe, TriggerUpdatePublish
    <3>2. traces[d] \subseteq traces'[d]
      BY <1>t, <3>1 DEF TypeOK
    <3> QED BY <3>2
  <2> QED BY <1>2, <1>5, <2>1, <2>2 DEF DeviceHandler, EnrollDeviceCheck, EnrollDeviceCreate,
             DeleteDevice, TriggerUpdateCheck
<1>6. ASSUME NEW h \in Homes, NEW e \in Devices,
             SweepDevice(h, e) \/ SweepDeviceFails(h, e) \/ UncacheDevice(h, e)
      PROVE  Goal
  <2>1. SnapshotRule(h) /\ CleanupRule(h)
    BY DEF DInv, IInv, Rules
  <2>2. e # d
    <3>1. CASE SweepDevice(h, e) \/ SweepDeviceFails(h, e)
      <4>1. Cleanup(h).pc = "sweep" /\ e \in Cleanup(h).todo
        BY <3>1 DEF SweepDevice, SweepDeviceFails, Cleanup
      <4>2. device[e].home = h /\ jobs[h]["cleanup"] # NoRow
        BY <2>1, <4>1 DEF SnapshotRule, CleanupRule, Queued
      <4> QED BY <4>2
    <3>2. CASE UncacheDevice(h, e)
      BY <2>1, <3>2 DEF UncacheDevice, SnapshotRule, Cleanup
    <3> QED BY <1>6, <3>1, <3>2
  <2>3. traces'[d] = traces[d]
    BY <1>t, <1>6, <2>2 DEF SweepDevice, SweepDeviceFails, UncacheDevice, TypeOK
  <2> QED BY <1>1, <2>3
<1>7. CASE Worker
  <2> USE DEF deviceVars
  <2>1. ASSUME NEW S \in SUBSET (Homes \X Ops), RequeueStaleClaims(S) \/ ClaimJobs(S) PROVE Goal
    BY <1>2, <2>1 DEF RequeueStaleClaims, ClaimJobs
  <2>2. ASSUME NEW h \in Homes, ProvisionTask(h) PROVE Goal
    BY <1>2, <2>2 DEF ProvisionTask, GrantAccess, GrantAccessFails, CommitProvision,
                      CommitProvisionFails, DeleteJob, RescheduleProvision
  <2>3. ASSUME NEW h \in Homes, CleanupTask(h) PROVE Goal
    BY <1>2, <1>6, <2>3 DEF CleanupTask, LoadDevices, LoadDevicesFails, CommitCleanup,
                            CommitCleanupFails, RescheduleCleanup
  <2>4. ASSUME NEW h \in Homes, NEW o \in Ops, AnyTask(h, o) PROVE Goal
    BY <1>2, <2>4 DEF AnyTask, LoadHome, LoadHomeFails, ClearAccess, ClearAccessFails, LastWriteFails
  <2> QED BY <1>7, <2>1, <2>2, <2>3, <2>4 DEF Worker
<1>8. CASE \/ \E h \in Homes : HomeHandler(h)
           \/ \E u \in Users : UserHandler(u)
           \/ UNCHANGED vars
  BY <1>2, <1>8 DEF HomeHandler, UserHandler, EnrollHome, DeleteHomeCheck, DeleteHomeCommit,
     DeleteUser, EndSessions, deviceVars, vars
<1> QED BY <1>3, <1>4, <1>5, <1>7, <1>8 DEF Next

\* No step of an older task or request takes a live device out of the cache, or
\* ends its subscription, while no deletion of its home is queued.
THEOREM LiveDeviceInSight == Spec => LiveDeviceStaysReachable
<1>1. DInv /\ [Next]_vars =>
         [\A d \in Devices :
            /\ device[d].row = "live"
            /\ {"meta", "subscription"} \subseteq traces[d]
            /\ jobs[device[d].home]["cleanup"] = NoRow
            => /\ "meta" \in traces[d]'
               /\ "subscription" \in traces[d]' \/ Reconnect \/ CrashAndRestart]_vars
  BY TracesStay
<1> QED BY <1>1, DInit, DStep, PTL DEF Spec, LiveDeviceStaysReachable

-----------------------------------------------------------------------------
(* A deletion takes the devices that were there when it was queued *)

\* The devices a deletion of the home has to take with it.
Owed(h) == {d \in Devices : /\ device[d].row = "live"
                            /\ device[d].home = h
                            /\ ~device[d].late}

\* From the moment a cleanup task has read the devices it has all of them, and
\* once the home is deleted there is none.
OwedRule(h) ==
    /\ Cleanup(h).pc \in {"clear", "sweep"} => Owed(h) \subseteq Cleanup(h).devs
    /\ home[h].row = "deleted" => Owed(h) = {}

\* A device is in a home, and so is one about to be inserted.
PlaceRule(d) ==
    /\ device[d].row # "none" => device[d].home \in Homes
    /\ enroll[d].pc = "checked" => enroll[d].home \in Homes

OInv ==
    /\ DInv
    /\ \A d \in Devices : PlaceRule(d)
    /\ \A h \in Homes : OwedRule(h)

LEMMA OInit == Init => OInv
BY DInit DEF Init, OInv, PlaceRule, OwedRule, Owed, Cleanup, IdleTask, NoDeviceRow,
             NoHomeRow, Ops

LEMMA PlaceStays ==
    ASSUME DInv, [Next]_vars, NEW d \in Devices, PlaceRule(d)
    PROVE  PlaceRule(d)'
<1>t. TypeOK /\ DeviceRule(d) /\ PlaceRule(d) /\ device[d] \in DeviceRow
  BY DEF DInv, IInv, TypeOK
<1>h. device[d].row # "none" => device'[d].home \in Homes
  BY <1>t, DevicesStay DEF PlaceRule
<1> DEFINE Goal == PlaceRule(d)'
<1>1. CASE UNCHANGED <<device, enroll>>
  BY <1>t, <1>1 DEF PlaceRule
<1>2. CASE CrashAndRestart
  BY <1>t, <1>2 DEF CrashAndRestart, PlaceRule
<1>3. ASSUME NEW h \in Homes, CommitCleanup(h) PROVE Goal
  <2>1. device'[d] = IF d \in Cleanup(h).devs THEN [device[d] EXCEPT !.row = "deleted"] ELSE device[d]
    BY <1>3 DEF CommitCleanup, Cleanup
  <2>2. enroll' = enroll
    BY <1>3 DEF CommitCleanup
  <2>3. CASE d \notin Cleanup(h).devs
    BY <1>t, <2>1, <2>2, <2>3 DEF PlaceRule
  <2>4. CASE d \in Cleanup(h).devs
    <3>1. device[d].home = h /\ device'[d].home = device[d].home
      BY <1>t, <1>3, <2>1, <2>4, DeletedRowType DEF DInv, SnapshotRule, CommitCleanup, Cleanup
    <3> QED BY <1>t, <2>2, <3>1 DEF PlaceRule
  <2> QED BY <2>3, <2>4
<1>4. ASSUME NEW e \in Devices, DeviceHandler(e) PROVE Goal
  <2>1. CASE \E h \in Homes : EnrollDeviceCheck(e, h)
    BY <1>t, <2>1 DEF EnrollDeviceCheck, PlaceRule, TypeOK
  <2>2. CASE EnrollDeviceCreate(e)
    <3>1. CASE e # d
      BY <1>t, <2>2, <3>1 DEF EnrollDeviceCreate, PlaceRule, TypeOK
    <3>2. CASE e = d
      <4>1. enroll'[d].pc # "checked"
        BY <1>t, <2>2, <3>2 DEF EnrollDeviceCreate, TypeOK
      <4>2. device'[d] = device[d] \/ device'[d].home = enroll[d].home
        BY <1>t, <2>2, <3>2 DEF EnrollDeviceCreate, TypeOK
      <4>3. enroll[d].home \in Homes
        BY <1>t, <2>2, <3>2 DEF EnrollDeviceCreate, PlaceRule
      <4> QED BY <1>t, <4>1, <4>2, <4>3 DEF PlaceRule
    <3> QED BY <3>1, <3>2
  <2>3. CASE EnrollDeviceCache(e) \/ EnrollDeviceSubscribe(e)
    <3>1. enroll'[d] = enroll[d] \/ enroll'[d].pc # "checked"
      BY <1>t, <2>3 DEF EnrollDeviceCache, EnrollDeviceSubscribe, TypeOK
    <3>2. device' = device
      BY <2>3 DEF EnrollDeviceCache, EnrollDeviceSubscribe
    <3> QED BY <1>t, <3>1, <3>2 DEF PlaceRule
  <2>4. CASE DeleteDevice(e)
    <3>1. device'[d] = device[d] \/ device[d].row # "none"
      BY <1>t, <2>4 DEF DeleteDevice, TypeOK
    <3>2. enroll' = enroll
      BY <2>4 DEF DeleteDevice
    <3> QED BY <1>t, <1>h, <3>1, <3>2 DEF PlaceRule
  <2>5. CASE RemoveTrace(e) \/ TriggerUpdateCheck(e) \/ TriggerUpdatePublish(e)
    BY <1>1, <2>5 DEF RemoveTrace, TriggerUpdateCheck, TriggerUpdatePublish
  <2> QED BY <1>4, <2>1, <2>2, <2>3, <2>4, <2>5 DEF DeviceHandler
<1> QED BY <1>1, <1>2, <1>3, <1>4, DevicesAlone

\* No device comes to be owed to a home whose deletion is queued or over, and
\* the commit of a cleanup pays for its snapshot.
LEMMA OwedShrinks ==
    ASSUME DInv, [Next]_vars, NEW h \in Homes
    PROVE  /\ Going(h) => Owed(h)' \subseteq Owed(h)
           /\ CommitCleanup(h) => Owed(h)' \subseteq Owed(h) \ Cleanup(h).devs
<1> DEFINE Same(d) == device'[d] = device[d]
           Goal(d) == /\ Going(h) /\ d \in Owed(h)' => d \in Owed(h)
                      /\ CommitCleanup(h) /\ d \in Owed(h)' => d \in Owed(h) \ Cleanup(h).devs
<1> SUFFICES ASSUME NEW d \in Devices PROVE Goal(d)
  BY DEF Owed
<1>t. TypeOK /\ device[d] \in DeviceRow
  BY DEF DInv, IInv, TypeOK
<1>c. ASSUME NEW g \in Homes, CommitCleanup(g) PROVE Goal(d)
  <2>1. device'[d] = IF d \in Cleanup(g).devs THEN [device[d] EXCEPT !.row = "deleted"] ELSE device[d]
    BY <1>c DEF CommitCleanup, Cleanup
  <2>2. [device[d] EXCEPT !.row = "deleted"].row = "deleted"
    BY <1>t DEF DeviceRow
  <2>3. d \in Owed(h)' => d \in Owed(h) /\ d \notin Cleanup(g).devs
    BY <2>1, <2>2 DEF Owed
  <2>4. CommitCleanup(h) => g = h \/ d \notin Owed(h)' \/ d \notin Cleanup(h).devs
    <3> SUFFICES ASSUME CommitCleanup(h), d \in Cleanup(h).devs PROVE d \notin Owed(h)'
      OBVIOUS
    <3>1. device'[d] = [device[d] EXCEPT !.row = "deleted"]
      BY DEF CommitCleanup, Cleanup
    <3> QED BY <2>2, <3>1 DEF Owed
  <2> QED BY <2>3, <2>4
<1>s. Same(d) /\ (\A g \in Homes : ~CommitCleanup(g)) => Goal(d)
  BY DEF Owed
<1>1. CASE \E g \in Homes : CommitCleanup(g)
  BY <1>c, <1>1
<1>2. CASE ~(\E g \in Homes : CommitCleanup(g))
  <2>1. CASE CrashAndRestart \/ UNCHANGED <<device, enroll, removing>>
    BY <1>s, <1>2, <2>1 DEF CrashAndRestart
  <2>2. ASSUME NEW e \in Devices, DeviceHandler(e) PROVE Goal(d)
    <3>1. CASE EnrollDeviceCreate(e)
      <4>1. CASE device' = device \/ e # d
        <5>1. device'[d] = device[d]
          BY <1>t, <3>1, <4>1 DEF EnrollDeviceCreate, TypeOK
        <5> QED BY <1>s, <1>2, <5>1
      <4>2. CASE device' # device /\ e = d
        <5> DEFINE new == [row |-> "live", home |-> enroll[d].home,
                           late |-> Going(enroll[d].home)]
        <5>1. new.home = enroll[d].home /\ (new.home = h /\ Going(h) => new.late)
          BY DEF Going
        <5>2. device' = [device EXCEPT ![d] = new]
          BY <3>1, <4>2 DEF EnrollDeviceCreate
        <5> HIDE DEF new
        <5>3. device'[d].home = new.home /\ device'[d].late = new.late
          BY <1>t, <5>2 DEF TypeOK
        <5>4. Going(h) => d \notin Owed(h)'
          <6> SUFFICES ASSUME Going(h), device'[d].home = h PROVE device'[d].late
            BY DEF Owed
          <6> QED BY <5>1, <5>3
        <5> QED BY <1>2, <5>4
      <4> QED BY <4>1, <4>2
    <3>2. CASE DeleteDevice(e)
      <4>1. CASE e # d
        <5>1. device'[d] = device[d]
          BY <1>t, <3>2, <4>1 DEF DeleteDevice, TypeOK
        <5> QED BY <1>s, <1>2, <5>1
      <4>2. CASE e = d
        <5>1. device'[d] = [device[d] EXCEPT !.row = "deleted"]
          BY <1>t, <3>2, <4>2 DEF DeleteDevice, TypeOK
        <5>2. device'[d].row = "deleted"
          BY <1>t, <5>1, DeletedRowType
        <5>3. d \notin Owed(h)'
          BY <5>2 DEF Owed
        <5> QED BY <1>2, <5>3
      <4> QED BY <4>1, <4>2
    <3>3. CASE device' = device
      BY <1>s, <1>2, <3>3
    <3>4. EnrollDeviceCreate(e) \/ DeleteDevice(e) \/ device' = device
      BY <2>2 DEF DeviceHandler, EnrollDeviceCheck, EnrollDeviceCache, EnrollDeviceSubscribe,
         RemoveTrace, TriggerUpdateCheck, TriggerUpdatePublish
    <3> QED BY <3>1, <3>2, <3>3, <3>4
  <2> QED BY <1>2, <2>1, <2>2, DevicesAlone
<1> QED BY <1>1, <1>2

\* Only the commit of its cleanup soft-deletes a home.
LEMMA OnlyCommitDeletes ==
    ASSUME TypeOK, [Next]_vars, NEW h \in Homes,
           home[h].row # "deleted", home'[h].row = "deleted"
    PROVE  CommitCleanup(h)
<1> DEFINE Stays == home'[h].row = home[h].row
           Goal == Stays \/ CommitCleanup(h)
<1>r. /\ home[h] \in HomeRow
      /\ \A g \in Homes, s \in HomeStates : [home[g] EXCEPT !.state = s].row = home[g].row
  BY DEF TypeOK, HomeRow
<1>1. CASE UNCHANGED home
  BY <1>1
<1>2. ASSUME NEW g \in Homes, EnrollHome(g) PROVE home'[h].row # "deleted"
  BY <1>2 DEF EnrollHome, TypeOK
<1>3. ASSUME NEW H \in SUBSET Homes, ScheduleHomeDeletion(H) PROVE Stays
  <2>1. home'[h] = home[h] \/ home'[h] = [home[h] EXCEPT !.state = "deleting"]
    BY <1>3 DEF ScheduleHomeDeletion
  <2> QED BY <1>r, <2>1 DEF HomeStates
<1>4. ASSUME NEW g \in Homes, CommitCleanup(g) PROVE Goal
  BY <1>4 DEF CommitCleanup, TypeOK
<1>5. ASSUME NEW g \in Homes,
             CommitProvision(g) \/ RescheduleProvision(g) \/ RescheduleCleanup(g)
      PROVE  Stays
  <2>1. \/ home' = home
        \/ \E s : home' = [home EXCEPT ![g] = [home[g] EXCEPT !.state = s]]
    BY <1>5 DEF CommitProvision, RescheduleProvision, RescheduleCleanup
  <2>2. ASSUME NEW s, home' = [home EXCEPT ![g] = [home[g] EXCEPT !.state = s]]
        PROVE  Stays
    <3>1. [home[g] EXCEPT !.state = s].row = home[g].row
      BY DEF TypeOK, HomeRow
    <3>2. home'[h] = IF h = g THEN [home[g] EXCEPT !.state = s] ELSE home[h]
      BY <2>2 DEF TypeOK
    <3> QED BY <3>1, <3>2
  <2> QED BY <2>1, <2>2
<1>6. CASE \/ \E g \in Homes : HomeHandler(g)
           \/ \E u \in Users : UserHandler(u)
  BY <1>1, <1>2, <1>3, <1>6 DEF HomeHandler, UserHandler, DeleteHomeCheck, DeleteHomeCommit,
     DeleteUser, EndSessions
<1>7. CASE \/ \E d \in Devices : DeviceHandler(d)
           \/ Reconnect \/ CrashAndRestart
  BY <1>1, <1>7 DEF DeviceHandler, EnrollDeviceCheck, EnrollDeviceCreate, EnrollDeviceCache,
     EnrollDeviceSubscribe, DeleteDevice, RemoveTrace, TriggerUpdateCheck,
     TriggerUpdatePublish, Reconnect, CrashAndRestart
<1>8. CASE Worker
  <2>1. ASSUME NEW S \in SUBSET (Homes \X Ops), RequeueStaleClaims(S) \/ ClaimJobs(S) PROVE Goal
    BY <1>1, <2>1 DEF RequeueStaleClaims, ClaimJobs
  <2>2. ASSUME NEW g \in Homes, NEW o \in Ops, AnyTask(g, o) PROVE Goal
    BY <1>1, <2>2 DEF AnyTask, LoadHome, LoadHomeFails, ClearAccess, ClearAccessFails, LastWriteFails
  <2>3. ASSUME NEW g \in Homes, ProvisionTask(g) PROVE Goal
    BY <1>1, <1>5, <2>3 DEF ProvisionTask, GrantAccess, GrantAccessFails, CommitProvisionFails,
       DeleteJob
  <2>4. ASSUME NEW g \in Homes, CleanupTask(g) PROVE Goal
    BY <1>1, <1>4, <1>5, <2>4 DEF CleanupTask, LoadDevices, LoadDevicesFails, SweepDevice,
       SweepDeviceFails, UncacheDevice, CommitCleanupFails
  <2> QED BY <1>8, <2>1, <2>2, <2>3, <2>4 DEF Worker
<1> QED BY <1>1, <1>6, <1>7, <1>8 DEF Next, vars

LEMMA OwedStays ==
    ASSUME OInv, [Next]_vars, NEW h \in Homes
    PROVE  OwedRule(h)'
<1>t. TypeOK /\ DInv /\ OwedRule(h) /\ CleanupRule(h) /\ Cleanup(h) \in Task
  BY DEF OInv, DInv, IInv, Rules, TypeOK, Ops, Cleanup
<1>1. ASSUME home'[h].row = "deleted" PROVE Owed(h)' = {}
  <2>1. CASE home[h].row = "deleted"
    BY <1>t, <2>1, OwedShrinks DEF OwedRule, Going
  <2>2. CASE home[h].row # "deleted"
    <3>1. CommitCleanup(h)
      BY <1>t, <1>1, <2>2, OnlyCommitDeletes
    <3>2. Owed(h) \subseteq Cleanup(h).devs
      BY <1>t, <3>1 DEF OwedRule, CommitCleanup, Cleanup
    <3> QED BY <1>t, <3>1, <3>2, OwedShrinks
  <2> QED BY <2>1, <2>2
<1>2. ASSUME Cleanup(h)'.pc \in {"clear", "sweep"} PROVE Owed(h)' \subseteq Cleanup(h)'.devs
  <2>1. CASE LoadDevices(h)
    <3> DEFINE found == {d \in Devices : device[d].home = h}
    <3>1. Cleanup(h)' = [Cleanup(h) EXCEPT !.pc = IF Cleanup(h).named THEN "clear" ELSE "sweep",
                                           !.devs = found, !.todo = found]
      BY <1>t, <2>1 DEF LoadDevices, SetTask, Cleanup, TypeOK, Ops
    <3>2. Cleanup(h)'.devs = found
      BY <1>t, <3>1 DEF Task
    <3>3. device' = device
      BY <2>1 DEF LoadDevices, deviceVars
    <3>4. Owed(h)' \subseteq found
      BY <3>3 DEF Owed
    <3> QED BY <3>2, <3>4
  <2>2. CASE CommitCleanup(h)
    <3>1. \/ Cleanup(h)' = IdleTask
          \/ Cleanup(h)' = [Cleanup(h) EXCEPT !.pc = "uncache", !.owns = FALSE,
                                              !.todo = Cleanup(h).devs]
      BY ZenonT(60), <1>t, <2>2 DEF CommitCleanup, SetTask, Cleanup, TypeOK, Ops
    <3>2. Cleanup(h)'.pc \in {"idle", "uncache"}
      <4>1. ASSUME NEW t \in Task, NEW u,
                   u = [t EXCEPT !.pc = "uncache", !.owns = FALSE, !.todo = t.devs]
            PROVE  u.pc = "uncache"
        BY <4>1 DEF Task
      <4>2. IdleTask.pc = "idle"
        BY DEF IdleTask
      <4> QED BY <1>t, <3>1, <4>1, <4>2
    <3> QED BY <1>2, <3>2
  <2>3. CASE /\ Cleanup(h)'.devs = Cleanup(h).devs
             /\ Cleanup(h).pc \in {"clear", "sweep"}
    <3>1. Going(h)
      BY <1>t, <2>3 DEF CleanupRule, Queued, Going
    <3>2. Owed(h)' \subseteq Owed(h)
      BY <1>t, <3>1, OwedShrinks
    <3> QED BY <1>t, <2>3, <3>2 DEF OwedRule
  <2> QED BY <1>t, <1>2, <2>1, <2>2, <2>3, SnapshotMoves
<1> QED BY <1>1, <1>2 DEF OwedRule

\* A device that is still live in a home that is deleted was inserted after the
\* deletion was queued: no crash, failure or second deletion leaves one behind.
THEOREM DeletionTakesAll == Spec => []DeletionTakesDevices
<1>1. OInv /\ [Next]_vars => OInv'
  BY DStep, PlaceStays, OwedStays DEF OInv
<1>2. OInv => DeletionTakesDevices
  BY DEF OInv, PlaceRule, OwedRule, Owed, DeletionTakesDevices
<1> QED BY <1>1, <1>2, OInit, PTL DEF Spec

-----------------------------------------------------------------------------
(* HomeJobs implements HomeAccess *)

\* The mapping of the rows and of the queue, home by home.
LEMMA Mapped ==
    ASSUME \A g \in Homes : home'[g].row = home[g].row,
           \A g \in Homes : Queued(g, "cleanup")' <=> Queued(g, "cleanup")
    PROVE  /\ [g \in Homes |-> home[g].row]' = [g \in Homes |-> home[g].row]
           /\ {g \in Homes : jobs[g]["cleanup"] # NoRow}' = {g \in Homes : jobs[g]["cleanup"] # NoRow}
BY DEF Queued

LEMMA ScheduleRefines ==
    ASSUME TypeOK, NEW H \in SUBSET Homes, ScheduleHomeDeletion(H),
           \A h \in H : home[h].row # "none", access' = access
    PROVE  Promise!AskToDelete(H)
<1>1. \A g \in Homes : home'[g].row = home[g].row
  <2> SUFFICES ASSUME NEW g \in Homes PROVE home'[g].row = home[g].row
    OBVIOUS
  <2>1. CASE g \in H
    BY <2>1, Scheduled
  <2>2. CASE g \notin H
    BY <2>2 DEF ScheduleHomeDeletion
  <2> QED BY <2>1, <2>2
<1>2. \A g \in Homes : Queued(g, "cleanup")' <=> Queued(g, "cleanup") \/ g \in H
  <2> SUFFICES ASSUME NEW g \in Homes
               PROVE  Queued(g, "cleanup")' <=> Queued(g, "cleanup") \/ g \in H
    OBVIOUS
  <2>1. CASE g \in H
    BY <2>1, Scheduled DEF Queued, FreshRow, NoRow
  <2>2. CASE g \notin H
    BY <2>2 DEF ScheduleHomeDeletion, Queued
  <2> QED BY <2>1, <2>2
<1> QED BY <1>1, <1>2 DEF Promise!AskToDelete, Queued

\* What the broker is asked to do while the home lives is a change of access;
\* for a deleted home there is no access left to change.
LEMMA AccessRefines ==
    ASSUME IInv, NEW h \in Homes, NEW left \in SUBSET Grants, UNCHANGED <<home, jobs>>,
           access' = [access EXCEPT ![h] = left],
           \/ Provision(h).pc # "idle"
           \/ Cleanup(h).pc # "idle" /\ left \subseteq access[h]
    PROVE  Promise!ChangeAccess(h) \/ UNCHANGED Promise!vars
<1> TypeOK /\ Rules(h) /\ "provision" \in Ops /\ "cleanup" \in Ops
  BY DEF IInv, Ops
<1>1. home[h].row \in {"none", "live", "deleted"} /\ home[h].row # "none"
  BY DEF TypeOK, HomeRow, Rules, HomeRule, Provision, Cleanup, IdleTask
<1>2. CASE home[h].row = "live"
  BY <1>2 DEF Promise!ChangeAccess
<1>3. CASE home[h].row = "deleted"
  <2>1. access' = access
    BY <1>3 DEF Rules, HomeRule, TypeOK
  <2> QED BY <2>1 DEF Promise!vars
<1> QED BY <1>1, <1>2, <1>3

LEMMA CommitRefines ==
    ASSUME IInv, NEW h \in Homes, CommitCleanup(h)
    PROVE  Promise!Delete(h) \/ Promise!Settle(h) \/ UNCHANGED Promise!vars
<1> DEFINE phase == [g \in Homes |-> home[g].row]
           ending == {g \in Homes : jobs[g]["cleanup"] # NoRow}
<1> TypeOK /\ Rules(h) /\ "provision" \in Ops /\ "cleanup" \in Ops
  BY DEF IInv, Ops
<1>1. /\ Cleanup(h).pc = "sweep" /\ Queued(h, "cleanup") /\ access[h] = {}
      /\ home[h].row \in {"live", "deleted"}
  BY DEF CommitCleanup, Cleanup, Rules, HomeRule, CleanupRule, TypeOK, HomeRow, IdleTask, Queued
<1>2. phase' = [phase EXCEPT ![h] = "deleted"] /\ access' = access
  BY DEF CommitCleanup, TypeOK
<1>3. ending' \in {ending, ending \ {h}}
  <2>1. CASE jobs' = jobs
    BY <2>1
  <2>2. CASE jobs' = [jobs EXCEPT ![h]["cleanup"] = NoRow]
    <3>1. ending' = ending \ {h}
      BY <2>2 DEF TypeOK
    <3> QED BY <3>1
  <2> QED BY <2>1, <2>2 DEF CommitCleanup, DeleteRow
<1>4. CASE home[h].row = "live"
  BY <1>1, <1>2, <1>3, <1>4 DEF Promise!Delete, Queued
<1>5. CASE home[h].row = "deleted"
  <2>1. phase' = phase
    BY <1>2, <1>5
  <2> QED BY <1>2, <1>3, <1>5, <2>1 DEF Promise!Settle, Promise!vars
<1> QED BY <1>1, <1>4, <1>5

\* Steps that write neither the state of the row nor the broker.
LEMMA RowsRefine ==
    ASSUME IInv, NEW h \in Homes,
           \/ CommitProvision(h) \/ DeleteJob(h) \/ RescheduleProvision(h)
           \/ RescheduleCleanup(h)
    PROVE  UNCHANGED Promise!vars
<1> TypeOK /\ Rules(h) /\ "provision" \in Ops /\ "cleanup" \in Ops
  BY DEF IInv, Ops
<1>1. access' = access
  BY DEF CommitProvision, DeleteJob, RescheduleProvision, RescheduleCleanup
<1>2. \A g \in Homes : home'[g].row = home[g].row
  <2>1. home[h] \in HomeRow /\ \A s : [home[h] EXCEPT !.state = s].row = home[h].row
    BY DEF TypeOK, HomeRow
  <2>2. \/ home' = home
        \/ \E s : home' = [home EXCEPT ![h] = [home[h] EXCEPT !.state = s]]
    BY DEF CommitProvision, DeleteJob, RescheduleProvision, RescheduleCleanup
  <2> QED BY ZenonT(60), <2>1, <2>2 DEF TypeOK
<1>3. \A g \in Homes : Queued(g, "cleanup")' <=> Queued(g, "cleanup")
  <2>1. CASE RescheduleCleanup(h)
    <3>1. \A g \in Homes \ {h} : jobs'[g] = jobs[g]
      BY <2>1 DEF RescheduleCleanup, RewriteRow, TypeOK
    <3>2. Queued(h, "cleanup")
      BY <2>1 DEF RescheduleCleanup, Rescheduling, Rules, CleanupRule, Cleanup
    <3>3. jobs'[h]["cleanup"] = jobs[h]["cleanup"] \/ jobs'[h]["cleanup"].status = "pending"
      BY <2>1 DEF RescheduleCleanup, RewriteRow, TypeOK, JobRow
    <3> QED BY <3>1, <3>2, <3>3 DEF Queued, NoRow
  <2>2. CASE CommitProvision(h) \/ DeleteJob(h) \/ RescheduleProvision(h)
    <3>1. DeleteRow(h, "provision") \/ \E s \in {"pending", "failed"} : RewriteRow(h, "provision", s)
      BY <2>2 DEF CommitProvision, DeleteJob, RescheduleProvision
    <3>2. \/ jobs' = jobs
          \/ \E r : jobs' = [jobs EXCEPT ![h] = [jobs[h] EXCEPT !["provision"] = r]]
      BY <3>1 DEF DeleteRow, RewriteRow
    <3>3. \A g \in Homes : jobs'[g]["cleanup"] = jobs[g]["cleanup"]
      BY <3>2 DEF TypeOK
    <3> QED BY <3>3 DEF Queued
  <2> QED BY <2>1, <2>2
<1> QED BY <1>1, <1>2, <1>3, Mapped DEF Promise!vars

LEMMA StepRefines == IInv /\ [Next]_vars => [Promise!Next]_Promise!vars
<1> SUFFICES ASSUME IInv, [Next]_vars PROVE Promise!Next \/ UNCHANGED Promise!vars
  BY DEF Promise!vars
<1> TypeOK /\ (\A h \in Homes : Rules(h)) /\ "provision" \in Ops /\ "cleanup" \in Ops
  BY DEF IInv, Ops
<1>1. CASE UNCHANGED <<home, jobs, access>>
  BY <1>1 DEF Promise!vars
<1>2. ASSUME NEW h \in Homes, EnrollHome(h) PROVE Promise!Create(h)
  <2>1. \A g \in Homes : jobs'[g]["cleanup"] = jobs[g]["cleanup"]
    BY <1>2 DEF EnrollHome, EnqueueProvision, TypeOK
  <2> QED BY <1>2, <2>1 DEF EnrollHome, Promise!Create, TypeOK
<1>3. ASSUME NEW h \in Homes, DeleteHomeCommit(h)
      PROVE  Promise!Next \/ UNCHANGED Promise!vars
  <2>1. home[h].row # "none" /\ access' = access
    BY <1>3 DEF DeleteHomeCommit, Rules, HomeRule
  <2>2. CASE ScheduleHomeDeletion({h})
    BY <2>1, <2>2, ScheduleRefines DEF Promise!Next
  <2> QED BY <1>1, <1>3, <2>1, <2>2 DEF DeleteHomeCommit
<1>4. ASSUME NEW u \in Users, DeleteUser(u) PROVE Promise!Next
  <2>1. PICK H \in SUBSET Homes : /\ ScheduleHomeDeletion(H)
                                  /\ \A h \in H : home[h].row # "none"
    BY <1>4 DEF DeleteUser, Live
  <2>2. Promise!AskToDelete(H)
    BY <1>4, <2>1, ScheduleRefines DEF DeleteUser
  <2> QED BY <2>2 DEF Promise!Next
<1>5. ASSUME NEW S \in SUBSET (Homes \X Ops), RequeueStaleClaims(S) \/ ClaimJobs(S)
      PROVE  UNCHANGED Promise!vars
  <2>1. \A g \in Homes, o \in Ops : <<g, o>> \in S => Queued(g, o)
    <3> SUFFICES ASSUME NEW g \in Homes, NEW o \in Ops, <<g, o>> \in S PROVE Queued(g, o)
      OBVIOUS
    <3>1. jobs[<<g, o>>[1]][<<g, o>>[2]].status \in {"running", "pending"}
      BY <1>5 DEF RequeueStaleClaims, ClaimJobs
    <3> QED BY <3>1 DEF Queued, NoRow
  <2>2. \A g \in Homes, o \in Ops :
           IF <<g, o>> \in S THEN jobs'[g][o].status \in {"pending", "running"}
                             ELSE jobs'[g][o] = jobs[g][o]
    <3>1. CASE RequeueStaleClaims(S)
      <4>1. \A g \in Homes, o \in Ops : [jobs[g][o] EXCEPT !.status = "pending"].status = "pending"
        BY DEF TypeOK, JobRow
      <4> QED BY <3>1, <4>1 DEF RequeueStaleClaims
    <3>2. CASE ClaimJobs(S)
      BY <3>2 DEF ClaimJobs
    <3> QED BY <1>5, <3>1, <3>2
  <2>3. home' = home /\ access' = access
    BY <1>5 DEF RequeueStaleClaims, ClaimJobs
  <2>4. \A g \in Homes : Queued(g, "cleanup")' <=> Queued(g, "cleanup")
    <3> SUFFICES ASSUME NEW g \in Homes PROVE Queued(g, "cleanup")' <=> Queued(g, "cleanup")
      OBVIOUS
    <3>1. CASE <<g, "cleanup">> \in S
      BY <2>1, <2>2, <3>1 DEF Queued, NoRow
    <3>2. CASE <<g, "cleanup">> \notin S
      BY <2>2, <3>2 DEF Queued
    <3> QED BY <3>1, <3>2
  <2> QED BY <2>3, <2>4, Mapped DEF Promise!vars
<1>6. ASSUME NEW h \in Homes, NEW o \in Ops, ClearAccess(h, o) \/ ClearAccessFails(h, o)
      PROVE  Promise!Next \/ UNCHANGED Promise!vars
  <2>1. UNCHANGED <<home, jobs>> /\ (Provision(h).pc # "idle" \/ Cleanup(h).pc # "idle")
    BY <1>6 DEF ClearAccess, ClearAccessFails, Provision, Cleanup, Ops
  <2>2. PICK left \in SUBSET access[h] : access' = [access EXCEPT ![h] = left]
    BY <1>6 DEF ClearAccess, ClearAccessFails
  <2>3. left \in SUBSET Grants
    BY <2>2 DEF TypeOK
  <2> QED BY <2>1, <2>2, <2>3, AccessRefines DEF Promise!Next
<1>7. ASSUME NEW h \in Homes, GrantAccess(h) \/ GrantAccessFails(h)
      PROVE  Promise!Next \/ UNCHANGED Promise!vars
  <2>1. UNCHANGED <<home, jobs>> /\ Provision(h).pc # "idle"
    BY <1>7 DEF GrantAccess, GrantAccessFails, Provision
  <2>2. PICK left \in SUBSET Grants : access' = [access EXCEPT ![h] = left]
    BY <1>7 DEF GrantAccess, GrantAccessFails
  <2> QED BY <2>1, <2>2, AccessRefines DEF Promise!Next
<1>8. ASSUME NEW h \in Homes, HomeHandler(h) PROVE Promise!Next \/ UNCHANGED Promise!vars
  BY <1>1, <1>2, <1>3, <1>8 DEF HomeHandler, DeleteHomeCheck, Promise!Next, workVars
<1>9. ASSUME NEW u \in Users, UserHandler(u) PROVE Promise!Next \/ UNCHANGED Promise!vars
  BY <1>1, <1>4, <1>9 DEF UserHandler, EndSessions, workVars
<1>10. CASE \/ \E d \in Devices : DeviceHandler(d)
            \/ Reconnect \/ CrashAndRestart
  BY <1>1, <1>10 DEF DeviceHandler, EnrollDeviceCheck, EnrollDeviceCreate, EnrollDeviceCache,
     EnrollDeviceSubscribe, DeleteDevice, RemoveTrace, TriggerUpdateCheck,
     TriggerUpdatePublish, Reconnect, CrashAndRestart, workVars
<1>11. CASE Worker
  <2>1. ASSUME NEW h \in Homes, NEW o \in Ops, AnyTask(h, o)
        PROVE  Promise!Next \/ UNCHANGED Promise!vars
    BY <1>1, <1>6, <2>1 DEF AnyTask, LoadHome, LoadHomeFails, LastWriteFails
  <2>2. ASSUME NEW h \in Homes, ProvisionTask(h) PROVE Promise!Next \/ UNCHANGED Promise!vars
    BY <1>1, <1>7, <2>2, RowsRefine DEF ProvisionTask, CommitProvisionFails
  <2>3. ASSUME NEW h \in Homes, CleanupTask(h) PROVE Promise!Next \/ UNCHANGED Promise!vars
    BY <1>1, <2>3, CommitRefines, RowsRefine
       DEF CleanupTask, LoadDevices, LoadDevicesFails, SweepDevice, SweepDeviceFails,
           UncacheDevice, CommitCleanupFails, Promise!Next
  <2> QED BY <1>5, <1>11, <2>1, <2>2, <2>3 DEF Worker
<1>12. CASE UNCHANGED vars
  BY <1>1, <1>12 DEF vars
<1> QED BY <1>8, <1>9, <1>10, <1>11, <1>12 DEF Next

\* The handlers, the worker and its crashes keep the abstract promise about
\* homes and their access, for any number of homes, users and devices.
THEOREM Refinement == Spec => KeepsPromise
<1>1. Init => Promise!Init
  BY DEF Init, Promise!Init, NoHomeRow, Ops
<1> QED BY <1>1, StepRefines, Invariance, PTL DEF Spec, KeepsPromise, Promise!Spec
=============================================================================
