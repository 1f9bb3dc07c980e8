------------------------------ MODULE Rollout ------------------------------
(***************************************************************************)
(* Staged firmware rollouts of one product (internal/ota/rollout.go): the   *)
(* admin uploads a version and starts a rollout, the worker publishes one   *)
(* batch after the other as retained MQTT commands, the devices flash and   *)
(* report what they run, and the status handler records it.                 *)
(*                                                                         *)
(* The worker, the status handler (messages are delivered one at a time)    *)
(* and a request are goroutines; every database statement or transaction    *)
(* and every exchange with the broker is a step of its own, so they come in *)
(* between each other.  Reads that only refuse a request are part of the    *)
(* step that goes on.  Time is left out: when a due batch is picked up is a *)
(* choice.  The counts of pending and of sent entries are one step: no      *)
(* entry becomes pending again, so counting one after the other gives what  *)
(* counting both at the moment of one of them would.                        *)
(***************************************************************************)
EXTENDS Integers, Sequences, FiniteSets

CONSTANTS
    Devices,        \* rows of devices of the product
    NoDevice,
    Versions,       \* firmware versions
    Uploads,        \* the versions the admin uploads
    Factory,        \* the version the devices leave the factory with
    NoVersion,      \* no version: nothing uploaded, nothing reported yet
    NoCommand,      \* no retained command
    Percentages,    \* the batch percentages the admin asks for
    Asked,          \* the devices whose owners ask for an update
    Removed,        \* the devices whose owners delete them
    ReadsFail,      \* whether a query of the database may fail
    MaxRollouts,    \* bound: rollouts created
    MailBound       \* bound: status messages of a device under way

ASSUME VersionAssumption ==
    /\ Uploads \subseteq Versions /\ Factory \in Versions /\ NoVersion \notin Versions
ASSUME DeviceAssumption ==
    /\ IsFiniteSet(Devices) /\ NoDevice \notin Devices
    /\ Asked \subseteq Devices /\ Removed \subseteq Devices
ASSUME BatchAssumption == Percentages \subseteq 1..100
ASSUME BoundAssumption == MaxRollouts \in Nat /\ MailBound \in Nat /\ ReadsFail \in BOOLEAN

VARIABLES
    product,    \* products.firmware_version
    rollout,    \* firmware_rollouts
    entry,      \* firmware_rollout_devices
    row,        \* devices: the row
    known,      \* the version last reported (presence, devices.firmware_version)
    retained,   \* broker: the retained command of a device
    device,     \* the devices: what they run, what they will flash, and the
                \* status of theirs that the broker retains
    ran,        \* history: every version a device has run
    told,       \* history: the commands ever published, and for which device
    mail,       \* status messages on their way to the backend
    handler,    \* the status message being handled
    worker,     \* the rollout worker
    admin,      \* a rolloutFirmware request
    asking      \* a triggerDeviceUpdate request

tables == <<product, rollout, entry, row, known>>
field  == <<device, ran, mail>>
broker == <<retained, told>>
vars   == <<tables, broker, field, handler, worker, admin, asking>>

-----------------------------------------------------------------------------
(* Rows, commands and goroutines *)

Rollouts == 1..MaxRollouts

RolloutRow == [status: {"none", "pending", "running", "completed", "cancelled", "failed"},
               target: Versions \cup {NoVersion}, percentage: 0..100, due: BOOLEAN]
NoRollout == [status |-> "none", target |-> NoVersion, percentage |-> 0, due |-> FALSE]

EntryStates == {"none", "pending", "sent", "updated", "cancelled"}
Entry == [state: EntryStates, batch: Nat]
NoEntry == [state |-> "none", batch |-> 0]

\* version and url of the payload, and its rollout_id (0 when a user asked).
Command == [version: Versions, image: Versions, by: Rollouts \cup {0}]
ASSUME CommandAssumption == NoCommand \notin Command

Counts == [pending: BOOLEAN, sent: BOOLEAN]
Uncounted == [pending |-> FALSE, sent |-> FALSE]

IdleHandler == [pc |-> "idle", d |-> NoDevice, ver |-> NoVersion, todo |-> {}, r |-> 0,
                cleared |-> FALSE, counts |-> Uncounted]
Handler == [pc: {"idle", "product", "clear", "matches", "each", "mark",
                 "count", "write"},
            d: Devices \cup {NoDevice}, ver: Versions \cup {NoVersion},
            todo: SUBSET Rollouts, r: Rollouts \cup {0}, cleared: BOOLEAN, counts: Counts]

\* batch is 0 while the worker only refreshes a rollout's completion.
IdleWorker == [pc |-> "idle", due |-> {}, r |-> 0, batch |-> 0, todo |-> {}, d |-> NoDevice,
               image |-> NoVersion, counts |-> Uncounted]
Worker == [pc: {"idle", "next", "targets", "product", "each", "note", "publish",
                "mark", "count", "write", "fail"},
           due: SUBSET Rollouts, r: Rollouts \cup {0}, batch: Nat, todo: SUBSET Devices,
           d: Devices \cup {NoDevice}, image: Versions \cup {NoVersion}, counts: Counts]

IdleAdmin == [pc |-> "idle", target |-> NoVersion, todo |-> {}, r |-> 0, clearing |-> {},
              d |-> NoDevice]
Admin == [pc: {"idle", "eligible", "active", "cancel", "targets", "clear", "mark", "create"},
          target: Versions \cup {NoVersion}, todo: SUBSET Rollouts, r: Rollouts \cup {0},
          clearing: SUBSET Devices, d: Devices \cup {NoDevice}]

IdleAsking == [pc |-> "idle", d |-> NoDevice, ver |-> NoVersion, r |-> 0]
Asking == [pc: {"idle", "publish", "find", "mark"}, d: Devices \cup {NoDevice},
           ver: Versions \cup {NoVersion}, r: Rollouts \cup {0}]

TypeOK ==
    /\ product \in Versions \cup {NoVersion}
    /\ rollout \in [Rollouts -> RolloutRow]
    /\ entry \in [Rollouts -> [Devices -> Entry]]
    /\ \A r \in Rollouts, d \in Devices : entry[r][d].state = "none" <=> entry[r][d].batch = 0
    /\ row \in [Devices -> {"live", "deleting", "deleted"}]
    /\ known \in [Devices -> Versions \cup {NoVersion}]
    /\ retained \in [Devices -> Command \cup {NoCommand}]
    /\ device \in [Devices -> [runs: Versions, queued: Command \cup {NoCommand},
                            said: Versions \cup {NoVersion}]]
    /\ ran \in [Devices -> SUBSET Versions]
    /\ told \in SUBSET (Devices \X Command)
    /\ mail \in [Devices -> Seq(Versions)]
    /\ handler \in Handler
    /\ worker \in Worker
    /\ admin \in Admin
    /\ asking \in Asking

Init ==
    /\ product = NoVersion
    /\ rollout = [r \in Rollouts |-> NoRollout]
    /\ entry = [r \in Rollouts |-> [d \in Devices |-> NoEntry]]
    /\ row = [d \in Devices |-> "live"]
    /\ known = [d \in Devices |-> NoVersion]
    /\ retained = [d \in Devices |-> NoCommand]
    /\ device = [d \in Devices |-> [runs |-> Factory, queued |-> NoCommand, said |-> NoVersion]]
    /\ ran = [d \in Devices |-> {Factory}]
    /\ told = {}
    /\ mail = [d \in Devices |-> <<>>]
    /\ handler = IdleHandler
    /\ worker = IdleWorker
    /\ admin = IdleAdmin
    /\ asking = IdleAsking

Active(r) == rollout[r].status \in {"pending", "running"}
In(r, states) == {d \in Devices : entry[r][d].state \in states}
CountsOf(r) == [pending |-> In(r, {"pending"}) # {}, sent |-> In(r, {"sent"}) # {}]

\* UPDATE ... WHERE rollout_id = r AND device_id = d: no row, no effect.
SetEntry(r, d, state) ==
    entry' = IF entry[r][d] = NoEntry THEN entry ELSE [entry EXCEPT ![r][d].state = state]

\* A publish that reports an error may have reached the broker or not.
Publish(d, c) ==
    /\ retained' = [retained EXCEPT ![d] = c]
    /\ told' = IF c = NoCommand THEN told ELSE told \cup {<<d, c>>}
PublishFails(d, c) == Publish(d, c) \/ UNCHANGED broker

\* A write whose error the code drops.
Attempted(write, old) == write \/ UNCHANGED old

-----------------------------------------------------------------------------
(* The admin *)

adminOnly == <<known, row, field, handler, worker, asking>>

\* uploadFirmware: any version, an older one too.
UploadFirmware(v) ==
    /\ product' = v
    /\ UNCHANGED <<rollout, entry, broker, admin, adminOnly>>

AdminAt(pc) == admin.pc = pc
AdminGoto(pc) == admin' = [admin EXCEPT !.pc = pc]
GiveUpRollout == admin' = IdleAdmin

\* rolloutFirmware works with the product as it was when the request began.
\* MaxRollouts bounds the requests: there is none when every id is taken.
StartRollout ==
    /\ AdminAt("idle")
    /\ \E r \in Rollouts : rollout[r] = NoRollout
    /\ product # NoVersion
    /\ admin' = [IdleAdmin EXCEPT !.pc = "eligible", !.target = product]
    /\ UNCHANGED <<product, rollout, entry, broker, adminOnly>>

Eligible(v) == {d \in Devices : row[d] = "live" /\ known[d] # v}

CheckEligible ==
    /\ AdminAt("eligible")
    /\ IF Eligible(admin.target) # {} THEN AdminGoto("active") ELSE GiveUpRollout
    /\ UNCHANGED <<product, rollout, entry, broker, adminOnly>>

LoadActive ==
    /\ AdminAt("active")
    /\ LET active == {r \in Rollouts : Active(r)}
       IN  admin' = [admin EXCEPT !.pc = IF active = {} THEN "create" ELSE "cancel",
                                  !.todo = active]
    /\ UNCHANGED <<product, rollout, entry, broker, adminOnly>>

CancelRollout(r) ==
    /\ AdminAt("cancel")
    /\ r \in admin.todo
    /\ rollout' = [rollout EXCEPT ![r].status = "cancelled", ![r].due = FALSE]
    /\ admin' = [admin EXCEPT !.pc = "targets", !.r = r, !.todo = @ \ {r}]
    /\ UNCHANGED <<product, entry, broker, adminOnly>>

\* clearRetainedForRollout, device by device; done with the last one, the
\* request goes on to the next active rollout or to the new one.
Clearing(S) ==
    admin' = [admin EXCEPT !.clearing = S, !.d = NoDevice,
                           !.pc = IF S # {} THEN "clear"
                                  ELSE IF admin.todo # {} THEN "cancel" ELSE "create"]

LoadCancelled ==
    /\ AdminAt("targets")
    /\ \/ Clearing(In(admin.r, {"pending", "sent"}))
       \/ ReadsFail /\ Clearing({})
    /\ UNCHANGED <<product, rollout, entry, broker, adminOnly>>

ClearCancelled(d) ==
    /\ AdminAt("clear")
    /\ d \in admin.clearing
    /\ \/ /\ Publish(d, NoCommand)
          /\ admin' = [admin EXCEPT !.pc = "mark", !.d = d]
       \/ /\ PublishFails(d, NoCommand)
          /\ Clearing(admin.clearing \ {d})
    /\ UNCHANGED <<product, rollout, entry, adminOnly>>

MarkCancelled ==
    /\ AdminAt("mark")
    /\ Attempted(SetEntry(admin.r, admin.d, "cancelled"), entry)
    /\ Clearing(admin.clearing \ {admin.d})
    /\ UNCHANGED <<product, rollout, broker, adminOnly>>

\* batchSize, with the percentage rounded up, and the batch of each position.
BatchSizeOneMore(total, percentage) == (total * percentage) \div 100 + 1
BatchSize(total, percentage) == (total * percentage + 99) \div 100
BatchNumberFromZero(idx, size) == idx \div size
BatchNumber(idx, size) == (idx \div size) + 1

\* The devices in the order of a hash: any order.
Orders(S) == {f \in [S -> 0..(Cardinality(S) - 1)] : \A x, y \in S : f[x] = f[y] => x = y}

\* One transaction; the devices are read again in it.
NewEntries(E, order, size) ==
    [d \in Devices |-> IF d \in E THEN [state |-> "pending",
                                        batch |-> BatchNumber(order[d], size)]
                       ELSE NoEntry]

CreateRollout(r) ==
    LET E == Eligible(admin.target)
    IN  /\ AdminAt("create")
        /\ E # {}
        /\ rollout[r] = NoRollout
        /\ \A q \in Rollouts : q < r => rollout[q] # NoRollout
        /\ \E order \in Orders(E), percentage \in Percentages :
              /\ rollout' = [rollout EXCEPT ![r] = [status |-> "pending", target |-> admin.target,
                                                    percentage |-> percentage, due |-> TRUE]]
              /\ entry' = [entry EXCEPT ![r] =
                              NewEntries(E, order, BatchSize(Cardinality(E), percentage))]
        /\ GiveUpRollout
        /\ UNCHANGED <<product, broker, adminOnly>>

\* Nothing to do any more, or a failed statement: the cancellations stay.
RolloutRequestFails ==
    /\ admin.pc \in {"active", "cancel", "create"}
    /\ GiveUpRollout
    /\ UNCHANGED <<product, rollout, entry, broker, adminOnly>>

-----------------------------------------------------------------------------
(* The worker *)

workerOnly == <<product, row, known, field, handler, admin, asking>>

WorkerAt(pc) == worker.pc = pc
WorkerGoto(pc) == worker' = [worker EXCEPT !.pc = pc]

\* processDueRollouts: the rows that are due at this tick, one after another.
LoadDue(S) ==
    /\ WorkerAt("idle")
    /\ S # {}
    /\ \A r \in S : Active(r) /\ rollout[r].due
    /\ worker' = [IdleWorker EXCEPT !.pc = "next", !.due = S]
    /\ UNCHANGED <<rollout, entry, broker, workerOnly>>

EndRollout == worker' = IF worker.due = {} THEN IdleWorker
                        ELSE [IdleWorker EXCEPT !.pc = "next", !.due = worker.due]

FirstPendingAny(r, d) == entry[r][d].state = "pending"
FirstPending(r, d) ==
    /\ entry[r][d].state = "pending"
    /\ \A e \in In(r, {"pending"}) : entry[r][d].batch <= entry[r][e].batch

\* The batch of the first pending entry.  No entry, and every other error of
\* the query too, leads to refreshRolloutCompletion.
LoadFirstPending(r) ==
    /\ WorkerAt("next")
    /\ r \in worker.due
    /\ \/ \E d \in Devices :
             /\ FirstPending(r, d)
             /\ worker' = [worker EXCEPT !.pc = "targets", !.due = @ \ {r}, !.r = r,
                                         !.batch = entry[r][d].batch]
       \/ /\ In(r, {"pending"}) = {} \/ ReadsFail
          /\ worker' = [worker EXCEPT !.pc = "count", !.due = @ \ {r}, !.r = r]
    /\ UNCHANGED <<rollout, entry, broker, workerOnly>>

\* The join takes the rows of deleted devices too.
LoadTargets ==
    /\ WorkerAt("targets")
    /\ worker' = [worker EXCEPT !.pc = "product",
                     !.todo = {d \in In(worker.r, {"pending"}) :
                                  entry[worker.r][d].batch = worker.batch}]
    /\ UNCHANGED <<rollout, entry, broker, workerOnly>>

\* The URLs are those of the product's version at this moment.
LoadProduct ==
    /\ WorkerAt("product")
    /\ worker' = [worker EXCEPT !.pc = IF worker.todo = {} THEN "count" ELSE "each",
                                !.image = product]
    /\ UNCHANGED <<rollout, entry, broker, workerOnly>>

CheckTarget(d) ==
    /\ WorkerAt("each")
    /\ d \in worker.todo
    /\ worker' = [worker EXCEPT !.d = d, !.pc = IF known[d] = rollout[worker.r].target
                                                THEN "note" ELSE "publish"]
    /\ UNCHANGED <<rollout, entry, broker, workerOnly>>

EndTarget ==
    LET rest == worker.todo \ {worker.d}
    IN  worker' = [worker EXCEPT !.todo = rest, !.d = NoDevice,
                                 !.pc = IF rest = {} THEN "count" ELSE "each"]

NoteUpdated ==
    /\ WorkerAt("note")
    /\ SetEntry(worker.r, worker.d, "updated")
    /\ EndTarget
    /\ UNCHANGED <<rollout, broker, workerOnly>>

OwnCommand == [version |-> rollout[worker.r].target, image |-> worker.image, by |-> worker.r]

SentWithoutAnswer ==
    /\ WorkerAt("publish")
    /\ PublishFails(worker.d, OwnCommand) /\ WorkerGoto("mark")
    /\ UNCHANGED <<rollout, entry, workerOnly>>

PublishTarget ==
    /\ WorkerAt("publish")
    /\ \/ Publish(worker.d, OwnCommand) /\ WorkerGoto("mark")
       \/ PublishFails(worker.d, OwnCommand) /\ WorkerGoto("fail")
    /\ UNCHANGED <<rollout, entry, workerOnly>>

\* The state is written whatever it has become since the batch was read.
MarkSent ==
    /\ WorkerAt("mark")
    /\ SetEntry(worker.r, worker.d, "sent")
    /\ EndTarget
    /\ UNCHANGED <<rollout, broker, workerOnly>>

\* The errors of the counts are dropped: a failed count is zero.
Counted(r, c) ==
    /\ c \in Counts
    /\ c.pending = CountsOf(r).pending \/ (ReadsFail /\ ~c.pending)
    /\ c.sent = CountsOf(r).sent \/ (ReadsFail /\ ~c.sent)

CountEntries ==
    /\ WorkerAt("count")
    /\ \E c \in Counts :
          Counted(worker.r, c) /\ worker' = [worker EXCEPT !.pc = "write", !.counts = c]
    /\ UNCHANGED <<rollout, entry, broker, workerOnly>>

\* Written whatever the rollout has become: running or completed.
FinishedWhenNoneSent(c) == IF ~c.sent THEN "completed" ELSE "running"
Finished(c) == IF ~c.pending /\ ~c.sent THEN "completed" ELSE "running"

WriteRollout ==
    /\ WorkerAt("write")
    /\ rollout' = [rollout EXCEPT ![worker.r].status = Finished(worker.counts),
                                  ![worker.r].due = worker.batch # 0 /\ worker.counts.pending]
    /\ EndRollout
    /\ UNCHANGED <<entry, broker, workerOnly>>

\* A failed statement ends the batch, and the rollout is marked failed.
StatementFails ==
    /\ worker.pc \in {"targets", "product", "note", "mark", "write"}
    /\ WorkerGoto("fail")
    /\ UNCHANGED <<rollout, entry, broker, workerOnly>>

FailRollout ==
    /\ WorkerAt("fail")
    /\ Attempted(rollout' = [rollout EXCEPT ![worker.r].status = "failed"], rollout)
    /\ EndRollout
    /\ UNCHANGED <<entry, broker, workerOnly>>

-----------------------------------------------------------------------------
(* The status handler *)

handlerOnly == <<product, row, field, worker, admin, asking>>

HandlerAt(pc) == handler.pc = pc
HandlerGoto(pc) == handler' = [handler EXCEPT !.pc = pc]

\* messagePubHandler: SetDevicePresence first; an error there is dropped.
ReceiveStatus(d) ==
    /\ HandlerAt("idle")
    /\ mail[d] # <<>>
    /\ mail' = [mail EXCEPT ![d] = Tail(@)]
    /\ Attempted(known' = [known EXCEPT ![d] = Head(mail[d])], known)
    /\ handler' = [IdleHandler EXCEPT !.pc = "product", !.d = d, !.ver = Head(mail[d])]
    /\ UNCHANGED <<product, rollout, entry, row, broker, device, ran, worker, admin, asking>>

\* HandleDeviceStatusUpdate: the product's version against the one reported.
CheckProduct ==
    /\ HandlerAt("product")
    /\ \/ HandlerGoto(IF row[handler.d] = "live" /\ product = handler.ver
                      THEN "clear" ELSE "matches")
       \/ ReadsFail /\ HandlerGoto("matches")
    /\ UNCHANGED <<rollout, entry, known, broker, handlerOnly>>

ClearForProduct ==
    /\ HandlerAt("clear")
    /\ \/ /\ Publish(handler.d, NoCommand)
          /\ handler' = [handler EXCEPT !.pc = "matches", !.cleared = TRUE]
       \/ PublishFails(handler.d, NoCommand) /\ HandlerGoto("matches")
    /\ UNCHANGED <<rollout, entry, known, handlerOnly>>

\* The active rollouts that still wait for this device.
Matching(d) == {r \in Rollouts : Active(r) /\ entry[r][d].state \in {"pending", "sent"}}

Remaining(S) == handler' = IF S = {} THEN IdleHandler
                           ELSE [handler EXCEPT !.pc = "each", !.todo = S, !.r = 0]

LoadMatches ==
    /\ HandlerAt("matches")
    /\ Remaining(Matching(handler.d)) \/ (ReadsFail /\ Remaining({}))
    /\ UNCHANGED <<rollout, entry, known, broker, handlerOnly>>

EveryReport(r) == TRUE
Reached(r) == handler.ver = rollout[r].target

SkipMatch(r) ==
    /\ HandlerAt("each")
    /\ r \in handler.todo
    /\ ~Reached(r)
    /\ Remaining(handler.todo \ {r})
    /\ UNCHANGED <<rollout, entry, known, broker, handlerOnly>>

\* The command is cleared once for all matches.
ClearForMatch(r) ==
    /\ HandlerAt("each")
    /\ r \in handler.todo
    /\ Reached(r) /\ ~handler.cleared
    /\ \E done \in BOOLEAN :
          /\ IF done THEN Publish(handler.d, NoCommand) ELSE PublishFails(handler.d, NoCommand)
          /\ handler' = [handler EXCEPT !.pc = "mark", !.r = r, !.todo = @ \ {r},
                                        !.cleared = done]
    /\ UNCHANGED <<rollout, entry, known, handlerOnly>>

MarkUpdated(r) ==
    /\ \/ HandlerAt("mark") /\ r = handler.r
       \/ HandlerAt("each") /\ r \in handler.todo /\ Reached(r) /\ handler.cleared
    /\ Attempted(SetEntry(r, handler.d, "updated"), entry)
    /\ handler' = [handler EXCEPT !.pc = "count", !.r = r, !.todo = @ \ {r}]
    /\ UNCHANGED <<rollout, known, broker, handlerOnly>>

\* refreshRolloutCompletion: next_batch_at is set to NULL in every case.
CountForRefresh ==
    /\ HandlerAt("count")
    /\ \E c \in Counts :
          Counted(handler.r, c) /\ handler' = [handler EXCEPT !.pc = "write", !.counts = c]
    /\ UNCHANGED <<rollout, entry, known, broker, handlerOnly>>

WriteRefresh ==
    /\ HandlerAt("write")
    /\ Attempted(rollout' = [rollout EXCEPT ![handler.r].status = Finished(handler.counts),
                                            ![handler.r].due = FALSE], rollout)
    /\ Remaining(handler.todo)
    /\ UNCHANGED <<entry, known, broker, handlerOnly>>

-----------------------------------------------------------------------------
(* A user asks for the update of one device *)

askingOnly == <<product, rollout, row, known, field, handler, worker, admin>>

\* triggerDeviceUpdate: device, product and presence are read ...
AskForUpdate(d) ==
    /\ asking = IdleAsking
    /\ row[d] = "live"
    /\ product # NoVersion /\ known[d] # product
    /\ asking' = [IdleAsking EXCEPT !.pc = "publish", !.d = d, !.ver = product]
    /\ UNCHANGED <<entry, broker, askingOnly>>

\* ... then the command is published ...
PublishAsked ==
    LET c == [version |-> asking.ver, image |-> asking.ver, by |-> 0]
    IN  /\ asking.pc = "publish"
        /\ \/ Publish(asking.d, c) /\ asking' = [asking EXCEPT !.pc = "find"]
           \/ PublishFails(asking.d, c) /\ asking' = IdleAsking
        /\ UNCHANGED <<entry, askingOnly>>

\* ... and MarkDeviceRolloutSent looks for the newest active rollout in which
\* the device is pending, whatever its target ...
FindPendingEntry ==
    LET waiting == {r \in Rollouts : Active(r) /\ entry[r][asking.d].state = "pending"}
    IN  /\ asking.pc = "find"
        /\ \/ \E r \in waiting : /\ \A q \in waiting : q <= r
                                 /\ asking' = [asking EXCEPT !.pc = "mark", !.r = r]
           \/ (waiting = {} \/ ReadsFail) /\ asking' = IdleAsking
        /\ UNCHANGED <<entry, broker, askingOnly>>

\* ... to mark it sent there.
MarkAskedSent ==
    /\ asking.pc = "mark"
    /\ Attempted(SetEntry(asking.r, asking.d, "sent"), entry)
    /\ asking' = IdleAsking
    /\ UNCHANGED <<broker, askingOnly>>

-----------------------------------------------------------------------------
(* Devices *)

deviceOnly == <<tables, handler, worker, admin, asking>>

\* The firmware_update topic: a command for another version is kept for
\* flashing, an empty payload clears what was kept.
DeviceReceives(d) ==
    /\ device[d].queued # retained[d]
    /\ retained[d] # NoCommand => retained[d].version # device[d].runs
    /\ device' = [device EXCEPT ![d].queued = retained[d]]
    /\ UNCHANGED <<broker, ran, mail, deviceOnly>>

\* The device boots the image; what it had kept is dropped only if it now
\* runs the version it was told.
DeviceFlashes(d) ==
    LET c == device[d].queued
    IN  /\ c # NoCommand
        /\ c.version # device[d].runs
        /\ device' = [device EXCEPT ![d] =
               [@ EXCEPT !.runs = c.image,
                         !.queued = IF c.version = c.image THEN NoCommand ELSE c]]
        /\ ran' = [ran EXCEPT ![d] = @ \cup {c.image}]
        /\ UNCHANGED <<broker, mail, deviceOnly>>

\* The birth message of a connection: online_ and the version, retained.  One
\* that is lost is one that was not sent.
DeviceReports(d) ==
    /\ Len(mail[d]) < MailBound
    /\ mail' = [mail EXCEPT ![d] = Append(@, device[d].runs)]
    /\ device' = [device EXCEPT ![d].said = device[d].runs]
    /\ UNCHANGED <<broker, ran, deviceOnly>>

\* The broker delivers the retained status again when the backend subscribes
\* again, however old it is; "offline" may have replaced it.
BrokerRepeats(d) ==
    /\ Len(mail[d]) < MailBound
    /\ device[d].said # NoVersion
    /\ mail' = [mail EXCEPT ![d] = Append(@, device[d].said)]
    /\ UNCHANGED <<broker, device, ran, deviceOnly>>

\* deleteDevice: the row, then the retained command.
DeleteDevice(d) ==
    /\ row[d] = "live"
    /\ row' = [row EXCEPT ![d] = "deleting"]
    /\ UNCHANGED <<product, rollout, entry, known, broker, field, handler, worker, admin, asking>>

ClearDeleted(d) ==
    /\ row[d] = "deleting"
    /\ row' = [row EXCEPT ![d] = "deleted"]
    /\ PublishFails(d, NoCommand)
    /\ UNCHANGED <<product, rollout, entry, known, field, handler, worker, admin, asking>>

-----------------------------------------------------------------------------

\* The process dies and starts again; rollouts that are due are found again.
CrashAndRestart ==
    /\ handler' = IdleHandler
    /\ worker' = IdleWorker
    /\ admin' = IdleAdmin
    /\ asking' = IdleAsking
    /\ mail' = [d \in Devices |-> <<>>]
    /\ row' = [d \in Devices |-> IF row[d] = "deleting" THEN "deleted" ELSE row[d]]
    /\ UNCHANGED <<product, rollout, entry, known, broker, device, ran>>

AdminStep ==
    \/ \E v \in Uploads : UploadFirmware(v)
    \/ StartRollout \/ CheckEligible \/ LoadActive \/ LoadCancelled \/ MarkCancelled
    \/ RolloutRequestFails
    \/ \E r \in Rollouts : CancelRollout(r) \/ CreateRollout(r)
    \/ \E d \in Devices : ClearCancelled(d)

WorkerStep ==
    \/ \E S \in SUBSET Rollouts : LoadDue(S)
    \/ \E r \in Rollouts : LoadFirstPending(r)
    \/ LoadTargets \/ LoadProduct
    \/ \E d \in Devices : CheckTarget(d)
    \/ NoteUpdated \/ PublishTarget \/ MarkSent
    \/ CountEntries \/ WriteRollout \/ StatementFails \/ FailRollout

HandlerStep ==
    \/ \E d \in Devices : ReceiveStatus(d)
    \/ CheckProduct \/ ClearForProduct \/ LoadMatches
    \/ \E r \in Rollouts : SkipMatch(r) \/ ClearForMatch(r) \/ MarkUpdated(r)
    \/ CountForRefresh \/ WriteRefresh

UserStep ==
    \/ \E d \in Asked : AskForUpdate(d)
    \/ PublishAsked \/ FindPendingEntry \/ MarkAskedSent
    \/ \E d \in Removed : DeleteDevice(d) \/ ClearDeleted(d)

FieldStep ==
    \E d \in Devices : DeviceReceives(d) \/ DeviceFlashes(d) \/ DeviceReports(d) \/ BrokerRepeats(d)

Next == AdminStep \/ WorkerStep \/ HandlerStep \/ UserStep \/ FieldStep \/ CrashAndRestart

Spec == Init /\ [][Next]_vars

-----------------------------------------------------------------------------
(* Safety *)

\* "updated" is never recorded without the device having run the rollout's
\* target, whatever is reported late, lost or overwritten.
UpdatedWasRun ==
    \A r \in Rollouts, d \in Devices :
        entry[r][d].state = "updated" => rollout[r].target \in ran[d]

\* "sent" is never recorded for a device without a command of the rollout, or
\* one that its owner asked for.
CommandedBy(d, r) == \E c \in Command : <<d, c>> \in told /\ c.by = r
SentWasCommanded ==
    \A r \in Rollouts : \A d \in In(r, {"sent"}) : CommandedBy(d, r) \/ CommandedBy(d, 0)

\* A rollout that counts as completed has no device left that it never
\* commanded, as long as the queries that count do not fail (their errors are
\* dropped, and a failed count is zero).
CompletedHasNoPending ==
    \A r \in Rollouts :
        ~ReadsFail /\ rollout[r].status = "completed" => In(r, {"pending"}) = {}

\* Batches go out in order: when a command of a rollout appears, no device of
\* an earlier batch of it still waits for its own.
BatchesInOrder ==
    [][\A d \in Devices, r \in Rollouts :
          retained[d]' # retained[d] /\ retained[d]' # NoCommand /\ retained[d]'.by = r
          => \A e \in In(r, {"pending"}) : entry[r][d].batch <= entry[r][e].batch]_vars

\* The abstract specification: what a rollout does to its devices, whoever does
\* it (Campaign).
Promise == INSTANCE Campaign WITH
    target <- [r \in Rollouts |-> rollout[r].target],
    share  <- [r \in Rollouts |-> rollout[r].percentage],
    batch  <- [r \in Rollouts |-> [d \in Devices |-> entry[r][d].batch]],
    state  <- [r \in Rollouts |-> [d \in Devices |-> entry[r][d].state]],
    order  <- retained

\* Every step of the worker, the handler, the requests, the devices and a crash
\* is a step of the promise or leaves it alone.
KeepsCampaign == Promise!Spec

\* What DEPLOYMENT.md says of a staged rollout, batch after batch at the
\* chosen interval: while a rollout is active and has devices left to command,
\* and nobody is working on it, its next batch is scheduled.  The code does
\* not keep this: see README.
NextBatchIsScheduled ==
    \A r \in Rollouts :
        /\ Active(r) /\ In(r, {"pending"}) # {}
        /\ handler.pc = "idle" /\ worker.pc = "idle"
        => rollout[r].due

\* What DEPLOYMENT.md says of devices that are offline for a while: a command
\* that was sent for an active rollout stays at the broker until the device
\* has run the version.  The code does not keep this: see README.
CommandNotLost ==
    \A r \in Rollouts, d \in Devices :
        /\ Active(r) /\ entry[r][d].state = "sent" /\ row[d] = "live"
        /\ rollout[r].target \notin ran[d]
        /\ handler.pc = "idle" /\ admin.pc = "idle"
        => retained[d] # NoCommand

=============================================================================
