------------------------------ MODULE HomeJobs ------------------------------
(***************************************************************************)
(* The life of a home: its row in PostgreSQL, the queue of MQTT jobs that   *)
(* grants and revokes its access at the broker (internal/homejobs), the     *)
(* handlers that create and delete homes, devices and users                 *)
(* (internal/enrollment, internal/deletion, internal/admin), and what each  *)
(* of them leaves in Valkey and at the broker.                              *)
(*                                                                         *)
(* One backend process runs, as in docker-compose.yml: one job worker, one  *)
(* MQTT client and any number of request handlers.  Every database          *)
(* statement or transaction, every broker exchange and every Valkey         *)
(* pipeline is one step, so handlers, tasks and crashes interleave between  *)
(* them.  Time is left out: which jobs are due, and which claims have       *)
(* become stale, is a choice.                                               *)
(***************************************************************************)
EXTENDS Naturals, FiniteSets

CONSTANTS
    Users,                  \* rows of users that exist from the start
    Homes,                  \* rows of homes, created once each
    Devices,                \* rows of devices, created once each
    Owner,                  \* homes.user_id
    NoHome,                 \* no home: a device that is not created yet
    MaxProvisionAttempts,   \* maxProvisionAttempts (6 in the code)
    AttemptCap              \* bound: the attempts counter saturates here

ASSUME OwnerAssumption == Owner \in [Homes -> Users]
ASSUME NoHomeAssumption == NoHome \notin Homes
ASSUME AttemptAssumption ==
    /\ MaxProvisionAttempts \in Nat \ {0}
    /\ AttemptCap \in Nat
    /\ MaxProvisionAttempts <= AttemptCap

VARIABLES
    user,       \* users: the row, and whether the sessions are still there
    home,       \* homes: row, mqtt_provision_state, credentials present
    jobs,       \* home_mqtt_jobs: one row per home and operation at most
    task,       \* the goroutine processing a claimed job
    access,     \* broker: the home's dynamic-security client and role
    deleteReq,  \* deleteHome requests between the ownership check and the tx
    device,     \* devices: row and home_id
    enroll,     \* enrollDevice requests in flight
    removing,   \* deleteDevice requests in flight
    updating,   \* triggerDeviceUpdate requests in flight
    traces      \* what a device has outside PostgreSQL

workVars   == <<jobs, task, access>>
deviceVars == <<device, enroll, removing, updating, traces>>
vars == <<user, home, jobs, task, access, deleteReq, device, enroll, removing,
          updating, traces>>

-----------------------------------------------------------------------------
(* Rows and requests *)

Ops == {"provision", "cleanup"}

HomeStates == {"pending", "ready", "failed", "deleting"}

HomeRow == [row: {"none", "live", "deleted"}, state: HomeStates, creds: BOOLEAN]
NoHomeRow == [row |-> "none", state |-> "pending", creds |-> FALSE]

JobRow == [status: {"none", "pending", "running", "failed"}, attempts: 0..AttemptCap]
NoRow == [status |-> "none", attempts |-> 0]

\* owns: the row with this task's job id is still in the table; attempts,
\* named and devs are what the task read before (job.Attempts, whether
\* home.MQTTUsername was set, the devices of the home).
TaskPcs == {"idle", "load", "devices", "clear", "grant", "sweep", "commit",
            "uncache", "deleteJob", "reschedule", "rescheduleJob"}
Task == [pc: TaskPcs, owns: BOOLEAN, attempts: 0..AttemptCap, named: BOOLEAN,
         devs: SUBSET Devices, todo: SUBSET Devices]
IdleTask == [pc |-> "idle", owns |-> FALSE, attempts |-> 0, named |-> FALSE,
             devs |-> {}, todo |-> {}]

Grants == {"client", "role"}

\* meta: the cache entry and set memberships; subscription: the backend's own
\* MQTT subscriptions; retained: an OTA command kept by the broker.
Traces == {"meta", "subscription", "retained"}

\* late is history: the row was inserted when the deletion of its home was
\* already queued or over.
DeviceRow == [row: {"none", "live", "deleted"}, home: Homes \cup {NoHome}, late: BOOLEAN]
NoDeviceRow == [row |-> "none", home |-> NoHome, late |-> FALSE]
EnrollPcs == {"idle", "checked", "created", "cached"}

TypeOK ==
    /\ user \in [Users -> {"active", "deleted", "loggedOut"}]
    /\ home \in [Homes -> HomeRow]
    /\ jobs \in [Homes -> [Ops -> JobRow]]
    /\ task \in [Homes -> [Ops -> Task]]
    /\ access \in [Homes -> SUBSET Grants]
    /\ deleteReq \in SUBSET Homes
    /\ device \in [Devices -> DeviceRow]
    /\ enroll \in [Devices -> [pc: EnrollPcs, home: Homes \cup {NoHome}]]
    /\ removing \in [Devices -> {"idle"} \cup Traces]
    /\ updating \in SUBSET Devices
    /\ traces \in [Devices -> SUBSET Traces]

Init ==
    /\ user = [u \in Users |-> "active"]
    /\ home = [h \in Homes |-> NoHomeRow]
    /\ jobs = [h \in Homes |-> [o \in Ops |-> NoRow]]
    /\ task = [h \in Homes |-> [o \in Ops |-> IdleTask]]
    /\ access = [h \in Homes |-> {}]
    /\ deleteReq = {}
    /\ device = [d \in Devices |-> NoDeviceRow]
    /\ enroll = [d \in Devices |-> [pc |-> "idle", home |-> NoHome]]
    /\ removing = [d \in Devices |-> "idle"]
    /\ updating = {}
    /\ traces = [d \in Devices |-> {}]

Live(h) == home[h].row = "live"
HasSession(u) == user[u] # "loggedOut"

-----------------------------------------------------------------------------
(* Queueing jobs *)

\* upsertJob: a pending row with no attempts.
FreshRowMistyped == [status |-> "queued", attempts |-> 0]
FreshRow == [status |-> "pending", attempts |-> 0]

\* EnqueueProvision, inside enrollHome's transaction.
EnqueueProvision(h) == jobs' = [jobs EXCEPT ![h]["provision"] = FreshRow]

\* ReplaceWithCleanupJob: every row of the home goes, whatever its operation
\* and status, and one fresh cleanup row is inserted.
CleanupRowBesideOthers(h) == [jobs[h] EXCEPT !["cleanup"] = FreshRow]
ReplacedRows(h) ==
    [o \in Ops |-> IF o = "cleanup" THEN FreshRow ELSE NoRow]

\* ScheduleHomeDeletion for each home of H in one transaction.  Tasks in
\* flight keep running, but their job id is no longer in the table.
ScheduleHomeDeletion(H) ==
    /\ home' = [h \in Homes |-> IF h \in H /\ Live(h)
                                THEN [home[h] EXCEPT !.state = "deleting"]
                                ELSE home[h]]
    /\ jobs' = [h \in Homes |-> IF h \in H THEN ReplacedRows(h) ELSE jobs[h]]
    /\ task' = [h \in Homes |-> IF h \in H
                                THEN [o \in Ops |-> [task[h][o] EXCEPT !.owns = FALSE]]
                                ELSE task[h]]

-----------------------------------------------------------------------------
(* Handlers for homes and users *)

\* enrollHome: the row, its credentials and the provision job, in one tx.
EnrollHome(h) ==
    /\ HasSession(Owner[h])
    /\ home[h].row = "none"
    /\ home' = [home EXCEPT ![h] = [row |-> "live", state |-> "pending", creds |-> TRUE]]
    /\ EnqueueProvision(h)
    /\ UNCHANGED <<user, task, access, deleteReq, deviceVars>>

\* deleteHome loads the home first and schedules its deletion afterwards.
DeleteHomeCheck(h) ==
    /\ HasSession(Owner[h])
    /\ Live(h)
    /\ h \notin deleteReq
    /\ deleteReq' = deleteReq \cup {h}
    /\ UNCHANGED <<user, home, workVars, deviceVars>>

DeleteHomeCommit(h) ==
    /\ h \in deleteReq
    /\ deleteReq' = deleteReq \ {h}
    /\ \/ ScheduleHomeDeletion({h})
       \/ UNCHANGED <<home, jobs, task>>        \* the transaction failed: 500
    /\ UNCHANGED <<user, access, deviceVars>>

\* admin.deleteUser: ScheduleUserDeletion in one transaction ...
DeleteUser(u) ==
    /\ user[u] = "active"
    /\ user' = [user EXCEPT ![u] = "deleted"]
    /\ ScheduleHomeDeletion({h \in Homes : Owner[h] = u /\ Live(h)})
    /\ UNCHANGED <<access, deleteReq, deviceVars>>

\* ... and the user's sessions only after it.
EndSessions(u) ==
    /\ user[u] = "deleted"
    /\ user' = [user EXCEPT ![u] = "loggedOut"]
    /\ UNCHANGED <<home, workVars, deleteReq, deviceVars>>

-----------------------------------------------------------------------------
(* The worker: one batch at a time *)

SetTask(h, o, t) == task' = [task EXCEPT ![h][o] = t]
Goto(h, o, pc) == SetTask(h, o, [task[h][o] EXCEPT !.pc = pc])
EndTask(h, o) == SetTask(h, o, IdleTask)

\* runOnce waits for every goroutine of a batch before the next tick.
WorkerNeverWaits == TRUE
WorkerIdle == \A h \in Homes, o \in Ops : task[h][o].pc = "idle"

Bump(a) == IF a < AttemptCap THEN a + 1 ELSE AttemptCap

\* requeueStaleClaims: any rows still marked running may be old enough.
NothingGetsStale(S) == FALSE
RequeueStaleClaims(S) ==
    /\ WorkerIdle
    /\ S # {}
    /\ \A k \in S : jobs[k[1]][k[2]].status = "running"
    /\ jobs' = [h \in Homes |-> [o \in Ops |->
                    IF <<h, o>> \in S THEN [jobs[h][o] EXCEPT !.status = "pending"]
                                      ELSE jobs[h][o]]]
    /\ UNCHANGED <<user, home, task, access, deleteReq, deviceVars>>

\* claimJobs takes the rows that are due, and runOnce starts a goroutine for
\* each with the row as it was returned.
ClaimJobs(S) ==
    /\ WorkerIdle
    /\ S # {}
    /\ \A k \in S : jobs[k[1]][k[2]].status = "pending"
    /\ jobs' = [h \in Homes |-> [o \in Ops |->
                    IF <<h, o>> \in S
                    THEN [status |-> "running", attempts |-> Bump(jobs[h][o].attempts)]
                    ELSE jobs[h][o]]]
    /\ task' = [h \in Homes |-> [o \in Ops |->
                    IF <<h, o>> \in S
                    THEN [IdleTask EXCEPT !.pc = "load", !.owns = TRUE,
                                          !.attempts = Bump(jobs[h][o].attempts)]
                    ELSE task[h][o]]]
    /\ UNCHANGED <<user, home, access, deleteReq, deviceVars>>

\* The home is loaded Unscoped.  Rows of homes are never removed, so the
\* not-found branch of the code has no state to be taken from.
AfterLoad(h, o) ==
    IF o = "cleanup" THEN "devices"
    ELSE IF home[h].row = "deleted" \/ home[h].state = "deleting" THEN "deleteJob"
    ELSE IF ~home[h].creds THEN "reschedule"
    ELSE "clear"

LoadHome(h, o) ==
    /\ task[h][o].pc = "load"
    /\ SetTask(h, o, [task[h][o] EXCEPT !.pc = AfterLoad(h, o), !.named = home[h].creds])
    /\ UNCHANGED <<user, home, jobs, access, deleteReq, deviceVars>>

\* A failed query reschedules the job and leaves the home's row alone.
LoadHomeFails(h, o) ==
    /\ task[h][o].pc = "load"
    /\ Goto(h, o, "rescheduleJob")
    /\ UNCHANGED <<user, home, jobs, access, deleteReq, deviceVars>>

\* processCleanupJob reads the devices, the deleted ones too, before it
\* touches the broker: the snapshot it works from until the end.
LoadCachedDevices(h) ==
    LET t == task[h]["cleanup"]
        found == {d \in Devices : device[d].home = h /\ "meta" \in traces[d]}
    IN  /\ t.pc = "devices"
        /\ SetTask(h, "cleanup", [t EXCEPT !.pc = IF t.named THEN "clear" ELSE "sweep",
                                           !.devs = found, !.todo = found])
        /\ UNCHANGED <<user, home, jobs, access, deleteReq, deviceVars>>
LoadDevices(h) ==
    LET t == task[h]["cleanup"]
        found == {d \in Devices : device[d].home = h}
    IN  /\ t.pc = "devices"
        /\ SetTask(h, "cleanup", [t EXCEPT !.pc = IF t.named THEN "clear" ELSE "sweep",
                                           !.devs = found, !.todo = found])
        /\ UNCHANGED <<user, home, jobs, access, deleteReq, deviceVars>>

LoadDevicesFails(h) ==
    /\ task[h]["cleanup"].pc = "devices"
    /\ Goto(h, "cleanup", "reschedule")
    /\ UNCHANGED <<user, home, jobs, access, deleteReq, deviceVars>>

\* mqtt.CleanupHomeAccess: deleteClient and deleteRole in one exchange.  An
\* answer without error (or one that says there was nothing to delete) means
\* both are gone; an error or a timeout says nothing about either.
ClearAccess(h, o) ==
    /\ task[h][o].pc = "clear"
    /\ access' = [access EXCEPT ![h] = {}]
    /\ Goto(h, o, IF o = "provision" THEN "grant" ELSE "sweep")
    /\ UNCHANGED <<user, home, jobs, deleteReq, deviceVars>>

ClearErrorIgnored(h, o) ==
    /\ task[h][o].pc = "clear"
    /\ \E left \in SUBSET access[h] : access' = [access EXCEPT ![h] = left]
    /\ Goto(h, o, IF o = "provision" THEN "grant" ELSE "sweep")
    /\ UNCHANGED <<user, home, jobs, deleteReq, deviceVars>>
ClearAccessFails(h, o) ==
    /\ task[h][o].pc = "clear"
    /\ \E left \in SUBSET access[h] : access' = [access EXCEPT ![h] = left]
    /\ Goto(h, o, "reschedule")
    /\ UNCHANGED <<user, home, jobs, deleteReq, deviceVars>>

\* mqtt.ProvisionHomeAccess: on an error it tries to take back the client and
\* the role, each in an exchange of its own, and ignores how that went.
GrantAccess(h) ==
    /\ task[h]["provision"].pc = "grant"
    /\ access' = [access EXCEPT ![h] = Grants]
    /\ Goto(h, "provision", "commit")
    /\ UNCHANGED <<user, home, jobs, deleteReq, deviceVars>>

GrantErrorIgnored(h) ==
    /\ task[h]["provision"].pc = "grant"
    /\ \E left \in SUBSET Grants : access' = [access EXCEPT ![h] = left]
    /\ Goto(h, "provision", "commit")
    /\ UNCHANGED <<user, home, jobs, deleteReq, deviceVars>>
GrantAccessFails(h) ==
    /\ task[h]["provision"].pc = "grant"
    /\ \E left \in SUBSET Grants : access' = [access EXCEPT ![h] = left]
    /\ Goto(h, "provision", "reschedule")
    /\ UNCHANGED <<user, home, jobs, deleteReq, deviceVars>>

\* DELETE ... WHERE id = job.ID: no row, no effect.
DeleteByHome(h, o) == jobs' = [jobs EXCEPT ![h] = [p \in Ops |-> NoRow]]
DeleteRow(h, o) ==
    jobs' = IF task[h][o].owns THEN [jobs EXCEPT ![h][o] = NoRow] ELSE jobs

\* The state is written to any row that is not soft-deleted, whatever its
\* state has become since the job loaded it.
CommitProvision(h) ==
    /\ task[h]["provision"].pc = "commit"
    /\ home' = IF Live(h) THEN [home EXCEPT ![h].state = "ready"] ELSE home
    /\ DeleteRow(h, "provision")
    /\ EndTask(h, "provision")
    /\ UNCHANGED <<user, access, deleteReq, deviceVars>>

\* Without its commit the job stays running until its claim is stale.
CommitProvisionFails(h) ==
    /\ task[h]["provision"].pc = "commit"
    /\ EndTask(h, "provision")
    /\ UNCHANGED <<user, home, jobs, access, deleteReq, deviceVars>>

\* UnsubscribeDevice only logs an error; clearing the retained command must
\* succeed for the job to go on.
SweepDevice(h, d) ==
    LET t == task[h]["cleanup"]
    IN  /\ t.pc = "sweep"
        /\ d \in t.todo
        /\ \E kept \in SUBSET {"subscription"} :
              traces' = [traces EXCEPT ![d] = @ \ (({"subscription"} \ kept) \cup {"retained"})]
        /\ SetTask(h, "cleanup", [t EXCEPT !.todo = @ \ {d}])
        /\ UNCHANGED <<user, home, jobs, access, deleteReq, device, enroll, removing, updating>>

SweepDeviceFails(h, d) ==
    /\ task[h]["cleanup"].pc = "sweep"
    /\ d \in task[h]["cleanup"].todo
    /\ \E gone \in SUBSET {"subscription", "retained"} :
          traces' = [traces EXCEPT ![d] = @ \ gone]
    /\ Goto(h, "cleanup", "reschedule")
    /\ UNCHANGED <<user, home, jobs, access, deleteReq, device, enroll, removing, updating>>

\* One transaction: the devices of the snapshot, the credentials, the home
\* and the job.  The cache entries of those devices come afterwards.
CommitCleanup(h) ==
    LET t == task[h]["cleanup"]
    IN  /\ t.pc = "sweep"
        /\ t.todo = {}
        /\ device' = [d \in Devices |-> IF d \in t.devs
                                        THEN [device[d] EXCEPT !.row = "deleted"]
                                        ELSE device[d]]
        /\ home' = [home EXCEPT ![h] = [row |-> "deleted", state |-> "deleting",
                                        creds |-> FALSE]]
        /\ DeleteRow(h, "cleanup")
        /\ SetTask(h, "cleanup", IF t.devs = {} THEN IdleTask
                                 ELSE [t EXCEPT !.pc = "uncache", !.owns = FALSE,
                                                !.todo = t.devs])
        /\ UNCHANGED <<user, access, deleteReq, enroll, removing, updating, traces>>

CommitCleanupFails(h) ==
    /\ task[h]["cleanup"].pc = "sweep"
    /\ task[h]["cleanup"].todo = {}
    /\ Goto(h, "cleanup", "reschedule")
    /\ UNCHANGED <<user, home, jobs, access, deleteReq, deviceVars>>

\* state.RemoveDevices, device by device; a Valkey error is only logged.
UncacheDevice(h, d) ==
    LET t == task[h]["cleanup"]
    IN  /\ t.pc = "uncache"
        /\ d \in t.todo
        /\ \E gone \in SUBSET {"meta"} : traces' = [traces EXCEPT ![d] = @ \ gone]
        /\ SetTask(h, "cleanup", IF t.todo = {d} THEN IdleTask
                                 ELSE [t EXCEPT !.todo = @ \ {d}])
        /\ UNCHANGED <<user, home, jobs, access, deleteReq, device, enroll, removing, updating>>

DeleteJob(h) ==
    /\ task[h]["provision"].pc = "deleteJob"
    /\ DeleteRow(h, "provision")
    /\ EndTask(h, "provision")
    /\ UNCHANGED <<user, home, access, deleteReq, deviceVars>>

-----------------------------------------------------------------------------
(* Retrying *)

Rescheduling(h, o) == task[h][o].pc \in {"reschedule", "rescheduleJob"}

RewriteRow(h, o, status) ==
    jobs' = IF task[h][o].owns THEN [jobs EXCEPT ![h][o].status = status] ELSE jobs

\* rescheduleProvision gives up after maxProvisionAttempts.  It too writes
\* the state of any row that is not soft-deleted.
Exhausted(h) == task[h]["provision"].attempts >= MaxProvisionAttempts

RescheduleProvision(h) ==
    /\ Rescheduling(h, "provision")
    /\ home' = IF task[h]["provision"].pc = "reschedule" /\ Live(h)
               THEN [home EXCEPT ![h].state = IF Exhausted(h) THEN "failed" ELSE "pending"]
               ELSE home
    /\ RewriteRow(h, "provision", IF Exhausted(h) THEN "failed" ELSE "pending")
    /\ EndTask(h, "provision")
    /\ UNCHANGED <<user, access, deleteReq, deviceVars>>

\* rescheduleCleanup never gives up, and writes deleting to any row.
CleanupGivesUp(h) ==
    /\ Rescheduling(h, "cleanup")
    /\ home' = [home EXCEPT ![h].state = IF task[h]["cleanup"].pc = "reschedule"
                                         THEN "deleting" ELSE @]
    /\ RewriteRow(h, "cleanup", IF task[h]["cleanup"].attempts >= MaxProvisionAttempts
                                THEN "failed" ELSE "pending")
    /\ EndTask(h, "cleanup")
    /\ UNCHANGED <<user, access, deleteReq, deviceVars>>
RescheduleCleanup(h) ==
    /\ Rescheduling(h, "cleanup")
    /\ home' = [home EXCEPT ![h].state = IF task[h]["cleanup"].pc = "reschedule"
                                         THEN "deleting" ELSE @]
    /\ RewriteRow(h, "cleanup", "pending")
    /\ EndTask(h, "cleanup")
    /\ UNCHANGED <<user, access, deleteReq, deviceVars>>

\* The last write of a task may fail as well; then its row stays running.
LastWriteFails(h, o) ==
    /\ Rescheduling(h, o) \/ task[h][o].pc = "deleteJob"
    /\ EndTask(h, o)
    /\ UNCHANGED <<user, home, jobs, access, deleteReq, deviceVars>>

-----------------------------------------------------------------------------
(* Handlers for devices *)

AllowsDeviceProvisioning(h) == home[h].state \in {"pending", "ready"}

\* enrollDevice checks the home ...
EnrollDeviceCheck(d, h) ==
    /\ HasSession(Owner[h])
    /\ enroll[d].pc = "idle"
    /\ device[d].row = "none"
    /\ Live(h)
    /\ AllowsDeviceProvisioning(h)
    /\ home[h].creds
    /\ enroll' = [enroll EXCEPT ![d] = [pc |-> "checked", home |-> h]]
    /\ UNCHANGED <<user, home, workVars, deleteReq, device, removing, updating, traces>>

\* ... inserts the device without looking at the home again ...
Going(h) == jobs[h]["cleanup"] # NoRow \/ home[h].row = "deleted"

EnrollDeviceCreate(d) ==
    /\ enroll[d].pc = "checked"
    /\ \/ /\ device' = [device EXCEPT ![d] = [row |-> "live", home |-> enroll[d].home,
                                              late |-> Going(enroll[d].home)]]
          /\ enroll' = [enroll EXCEPT ![d].pc = "created"]
       \/ /\ enroll' = [enroll EXCEPT ![d] = [pc |-> "idle", home |-> NoHome]]
          /\ UNCHANGED device                   \* the insert failed: 500
    /\ UNCHANGED <<user, home, workVars, deleteReq, removing, updating, traces>>

\* ... caches it, and subscribes to it; neither reports an error.
EnrollDeviceCache(d) ==
    /\ enroll[d].pc = "created"
    /\ \E put \in SUBSET {"meta"} : traces' = [traces EXCEPT ![d] = @ \cup put]
    /\ enroll' = [enroll EXCEPT ![d].pc = "cached"]
    /\ UNCHANGED <<user, home, workVars, deleteReq, device, removing, updating>>

EnrollDeviceSubscribe(d) ==
    /\ enroll[d].pc = "cached"
    /\ \E put \in SUBSET {"subscription"} : traces' = [traces EXCEPT ![d] = @ \cup put]
    /\ enroll' = [enroll EXCEPT ![d] = [pc |-> "idle", home |-> NoHome]]
    /\ UNCHANGED <<user, home, workVars, deleteReq, device, removing, updating>>

DeleteRowLast(d) ==
    /\ device[d].row = "live"
    /\ HasSession(Owner[device[d].home])
    /\ removing[d] = "idle"
    /\ removing' = [removing EXCEPT ![d] = "subscription"]
    /\ UNCHANGED <<user, home, workVars, deleteReq, device, enroll, updating, traces>>
\* deleteDevice soft-deletes the row, then removes one trace after another.
DeleteDevice(d) ==
    /\ device[d].row = "live"
    /\ HasSession(Owner[device[d].home])
    /\ removing[d] = "idle"
    /\ device' = [device EXCEPT ![d].row = "deleted"]
    /\ removing' = [removing EXCEPT ![d] = "subscription"]
    /\ UNCHANGED <<user, home, workVars, deleteReq, enroll, updating, traces>>

RemoveTrace(d) ==
    /\ removing[d] # "idle"
    /\ \E gone \in SUBSET {removing[d]} : traces' = [traces EXCEPT ![d] = @ \ gone]
    /\ removing' = [removing EXCEPT ![d] = CASE @ = "subscription" -> "retained"
                                             [] @ = "retained"     -> "meta"
                                             [] OTHER              -> "idle"]
    /\ UNCHANGED <<user, home, workVars, deleteReq, device, enroll, updating>>

\* triggerDeviceUpdate loads the device, then publishes a retained command.
TriggerUpdateCheck(d) ==
    /\ device[d].row = "live"
    /\ HasSession(Owner[device[d].home])
    /\ updating' = updating \cup {d}
    /\ UNCHANGED <<user, home, workVars, deleteReq, device, enroll, removing, traces>>

TriggerUpdatePublish(d) ==
    /\ d \in updating
    /\ updating' = updating \ {d}
    /\ \E put \in SUBSET {"retained"} : traces' = [traces EXCEPT ![d] = @ \cup put]
    /\ UNCHANGED <<user, home, workVars, deleteReq, device, enroll, removing>>

-----------------------------------------------------------------------------
(* Crashes and reconnections *)

\* A new session at the broker starts without subscriptions; connectHandler
\* takes the devices from Valkey and ignores what it could not subscribe to.
SessionWith(meta, subs) == [d \in Devices |->
    (traces[d] \cap {"retained"}) \cup {t \in {"meta"} : d \in meta}
                                  \cup {t \in {"subscription"} : d \in subs}]
Cached == {d \in Devices : "meta" \in traces[d]}

Reconnect ==
    /\ \E subs \in SUBSET Cached : traces' = SessionWith(Cached, subs)
    /\ UNCHANGED <<user, home, workVars, deleteReq, device, enroll, removing, updating>>

\* The process dies with every task and request in it and starts again:
\* SyncDevices caches the devices that are not deleted, as far as Valkey lets
\* it, and removes none; then the broker is connected.
CrashAndRestart ==
    /\ task' = [h \in Homes |-> [o \in Ops |-> IdleTask]]
    /\ deleteReq' = {}
    /\ enroll' = [d \in Devices |-> [pc |-> "idle", home |-> NoHome]]
    /\ removing' = [d \in Devices |-> "idle"]
    /\ updating' = {}
    /\ \E put \in SUBSET {d \in Devices : device[d].row = "live"} :
          \E subs \in SUBSET (Cached \cup put) : traces' = SessionWith(Cached \cup put, subs)
    /\ UNCHANGED <<user, home, jobs, access, device>>

-----------------------------------------------------------------------------

HomeHandler(h) == EnrollHome(h) \/ DeleteHomeCheck(h) \/ DeleteHomeCommit(h)

UserHandler(u) == DeleteUser(u) \/ EndSessions(u)

DeviceHandler(d) ==
    \/ \E h \in Homes : EnrollDeviceCheck(d, h)
    \/ EnrollDeviceCreate(d) \/ EnrollDeviceCache(d) \/ EnrollDeviceSubscribe(d)
    \/ DeleteDevice(d) \/ RemoveTrace(d)
    \/ TriggerUpdateCheck(d) \/ TriggerUpdatePublish(d)

ProvisionTask(h) ==
    \/ GrantAccess(h) \/ GrantAccessFails(h)
    \/ CommitProvision(h) \/ CommitProvisionFails(h)
    \/ DeleteJob(h) \/ RescheduleProvision(h)

CleanupTask(h) ==
    \/ LoadDevices(h) \/ LoadDevicesFails(h)
    \/ \E d \in Devices : SweepDevice(h, d) \/ SweepDeviceFails(h, d) \/ UncacheDevice(h, d)
    \/ CommitCleanup(h) \/ CommitCleanupFails(h)
    \/ RescheduleCleanup(h)

AnyTask(h, o) ==
    \/ LoadHome(h, o) \/ LoadHomeFails(h, o)
    \/ ClearAccess(h, o) \/ ClearAccessFails(h, o)
    \/ LastWriteFails(h, o)

Worker ==
    \/ \E S \in SUBSET (Homes \X Ops) : RequeueStaleClaims(S) \/ ClaimJobs(S)
    \/ \E h \in Homes : ProvisionTask(h) \/ CleanupTask(h) \/ \E o \in Ops : AnyTask(h, o)

Next ==
    \/ \E h \in Homes : HomeHandler(h)
    \/ \E u \in Users : UserHandler(u)
    \/ \E d \in Devices : DeviceHandler(d)
    \/ Worker
    \/ Reconnect
    \/ CrashAndRestart

Spec == Init /\ [][Next]_vars

-----------------------------------------------------------------------------
(* Safety *)

\* The access of a home that is gone is gone: whatever crashed, failed or
\* was retried, a soft-deleted home has neither client nor role at the
\* broker.  (processCleanupJob revokes before it deletes, and nothing may
\* provision a home again behind its back.)
NoAccessAfterDeletion ==
    \A h \in Homes : home[h].row = "deleted" => access[h] = {}

\* What the UI and enrollDevice take "ready" to mean: the broker knows the
\* home's client and role, unless a deletion is already queued.
ReadyMeansAccess ==
    \A h \in Homes :
        Live(h) /\ home[h].state = "ready" /\ jobs[h]["cleanup"] = NoRow
            => access[h] = Grants /\ jobs[h]["provision"] = NoRow

\* homejobs.go:157, deletion.go:40: no crash, stale claim or replaced row takes a
\* live home's row away.  A home that is being deleted has its cleanup row, which is
\* never given up (DeletionStaysQueued).  A pending home has a row of either kind: its
\* provision row, which may be one given up (GivenUpUnread), or, when a late write has
\* put "pending" over "deleting", the cleanup row of its deletion.
NoForgottenHome ==
    \A h \in Homes : Live(h) =>
        /\ home[h].state = "pending" => jobs[h] # [o \in Ops |-> NoRow]
        /\ home[h].state = "deleting" => jobs[h]["cleanup"] # NoRow

\* The two jobs of a home exclude each other, as rows and as goroutines.
OneJobPerHome ==
    \A h \in Homes :
        /\ jobs[h]["provision"] = NoRow \/ jobs[h]["cleanup"] = NoRow
        /\ task[h]["provision"].pc = "idle" \/ task[h]["cleanup"].pc = "idle"

\* Once a deletion is queued its row survives every outcome of every task
\* until the home is soft-deleted, and never is marked failed.
DeletionStaysQueued ==
    [][\A h \in Homes : Live(h) /\ jobs[h]["cleanup"] # NoRow =>
          \/ home[h].row' = "deleted"
          \/ jobs[h]["cleanup"].status' \in {"pending", "running"}]_vars

\* Deletion is final: no late write of a task in flight brings the row, its
\* credentials or its access back.
DeletionIsFinal ==
    [][\A h \in Homes : home[h].row = "deleted" =>
          home[h]' = home[h] /\ access[h]' = {}]_vars

\* The abstract specification: a home is live, its deletion is on its way or
\* done, and its access at the broker follows (HomeAccess).
Promise == INSTANCE HomeAccess WITH
    phase   <- [h \in Homes |-> home[h].row],
    granted <- access,
    ending  <- {h \in Homes : jobs[h]["cleanup"] # NoRow}

\* Every step of the handlers, the worker and a crash is a step of the promise
\* or leaves it alone.
KeepsPromise == Promise!Spec

\* A live device that the rest of the system can see (the cache feeds SYNC,
\* EXECUTE and the resubscription after a reconnect) stays visible as long as
\* no deletion of its home is queued, through restarts and late steps of older
\* tasks, and only the loss of the broker session may cost its subscription.
LiveDeviceStaysReachable ==
    [][\A d \in Devices :
          /\ device[d].row = "live"
          /\ {"meta", "subscription"} \subseteq traces[d]
          /\ jobs[device[d].home]["cleanup"] = NoRow
          => /\ "meta" \in traces[d]'
             /\ "subscription" \in traces[d]' \/ Reconnect \/ CrashAndRestart]_vars

\* A deletion takes every device with it that was there when it was queued,
\* though it works from a snapshot and through crashes, failed transactions and
\* second deletions: a device that outlives its home was inserted afterwards, by
\* a request that had looked at the home before.
DeletionTakesDevices ==
    \A d \in Devices :
        device[d].row = "live" /\ home[device[d].home].row = "deleted" => device[d].late

\* What deletion_test.go says of a home being deleted, of the home itself and
\* not of the value of its state column: once its deletion is queued it
\* accepts no device.  The code does not keep this: see README.
DeletingHomeRejectsDevices ==
    [][\A d \in Devices, h \in Homes :
          enroll[d].pc = "idle" /\ enroll[d]' = [pc |-> "checked", home |-> h]
          => jobs[h]["cleanup"] = NoRow]_vars

\* What the UI says when it asks to confirm the deletion of a home: its
\* devices disappear.  None may stay live in a home that is gone with no
\* cleanup left to remove it.  The code does not keep this: see README.
DeletedHomeHasNoDevices ==
    \A d \in Devices :
        device[d].row = "live" /\ home[device[d].home].row = "deleted"
            => jobs[device[d].home]["cleanup"] # NoRow

-----------------------------------------------------------------------------
(* Liveness *)

\* A goroutine never stops in the middle, and the ticker never does: a row that
\* is stale or due again and again is in the end requeued or claimed (claims go
\* by next_run_at).  PostgreSQL, Valkey and, for revoking, the broker may fail
\* any number of times, but not every time; granting may fail every time.  A
\* conjunct joins steps of the two operations where one task takes the one and
\* the other task the other: that asks less than a conjunct for each.
JobSets(h) == {S \in SUBSET (Homes \X Ops) : \E o \in Ops : <<h, o>> \in S}

Fairness ==
    \A h \in Homes :
        /\ SF_vars(\E S \in JobSets(h) : RequeueStaleClaims(S))
        /\ SF_vars(\E S \in JobSets(h) : ClaimJobs(S))
        /\ SF_vars(\E o \in Ops : LoadHome(h, o))
        /\ SF_vars(LoadDevices(h) \/ GrantAccess(h) \/ GrantAccessFails(h))
        /\ SF_vars(\E o \in Ops : ClearAccess(h, o))
        /\ SF_vars(CommitProvision(h) \/ CommitCleanup(h))
        /\ SF_vars(DeleteJob(h) \/ RescheduleProvision(h) \/ RescheduleCleanup(h))
        /\ \A d \in Devices : SF_vars(SweepDevice(h, d)) /\ SF_vars(UncacheDevice(h, d))

FairSpec == Spec /\ Fairness

\* A home whose deletion was queued is deleted in the end, through crashes,
\* broker failures and repeated requests.
DeletionCompletes ==
    \A h \in Homes : (Live(h) /\ jobs[h]["cleanup"] # NoRow) ~> (home[h].row = "deleted")

\* homejobs.go:232, :359: the last attempt could not read the home.  Its row is
\* marked failed and, with no home at hand, the home's state is not written.
GivenUpUnread(h) ==
    task[h]["provision"].pc = "rescheduleJob" /\ task[h]["provision"].owns /\ Exhausted(h)

\* homejobs.go:341: a queued provision job does not leave its home "being
\* prepared" for ever: the home becomes ready or failed or is deleted, through
\* crashes, stale claims and retries.  The one exception is named: a home whose
\* last attempt ended in GivenUpUnread stays pending, and no job is left for it.
ProvisionSettles ==
    \A h \in Homes :
        Live(h) /\ home[h].state = "pending" /\ jobs[h]["provision"].status \in {"pending", "running"}
            ~> home[h].state # "pending" \/ GivenUpUnread(h)

=============================================================================
