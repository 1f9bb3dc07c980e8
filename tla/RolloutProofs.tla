--------------------------- MODULE RolloutProofs ---------------------------
(***************************************************************************)
(* Proofs of the safety properties of Rollout, for every set of devices and *)
(* versions, every percentage and any number of rollouts.                   *)
(***************************************************************************)
EXTENDS Rollout, FiniteSetTheorems, TLAPS

-----------------------------------------------------------------------------
(* What the goroutines hold: part of every inductive argument below *)

Exists(r) == rollout[r].status # "none"

\* A rollout that exists has a target, and so has the product by then.
RowRule ==
    /\ \A r \in Rollouts : Exists(r) <=> rollout[r].target # NoVersion
    /\ (\E r \in Rollouts : Exists(r)) \/ admin.pc # "idle" => product # NoVersion

\* The rollouts and devices a goroutine works on exist.
WorkerRule ==
    /\ \A r \in worker.due : Exists(r)
    /\ worker.pc \notin {"idle", "next"} => worker.r \in Rollouts /\ Exists(worker.r)
    /\ worker.pc \in {"note", "publish", "mark"} => worker.d \in Devices
    /\ worker.pc \in {"each", "note", "publish", "mark"} => worker.image # NoVersion

HandlerRule ==
    /\ handler.pc # "idle" => handler.d \in Devices /\ handler.ver # NoVersion
    /\ \A r \in handler.todo : Exists(r)
    /\ handler.pc \in {"mark", "count", "write"} => handler.r \in Rollouts /\ Exists(handler.r)

AdminRule ==
    /\ admin.pc # "idle" => admin.target # NoVersion
    /\ \A r \in admin.todo : Exists(r)

AskingRule ==
    /\ asking.pc # "idle" => asking.d \in Devices /\ asking.ver # NoVersion
    /\ asking.pc = "mark" => asking.r \in Rollouts /\ Exists(asking.r)

Refs == RowRule /\ WorkerRule /\ HandlerRule /\ AdminRule /\ AskingRule

-----------------------------------------------------------------------------
(* Types *)

LEMMA TypeInit == Init => TypeOK
BY VersionAssumption, DeviceAssumption
   DEF Init, TypeOK, RolloutRow, NoRollout, Entry, EntryStates, NoEntry, Handler, IdleHandler,
       Worker, IdleWorker, Admin, IdleAdmin, Asking, IdleAsking, Counts, Uncounted

\* A batch number is positive.
LEMMA BatchPositive ==
    ASSUME NEW n \in Nat \ {0}, NEW p \in Percentages, NEW i \in Nat
    PROVE  BatchNumber(i, BatchSize(n, p)) \in Nat \ {0}
<1>1. p \in 1..100
  BY BatchAssumption
<1>2. n * p \in Nat \ {0}
  BY <1>1
<1>3. BatchSize(n, p) \in Nat \ {0}
  BY <1>2 DEF BatchSize
<1>4. ASSUME NEW s \in Nat \ {0} PROVE i \div s \in Nat
  OBVIOUS
<1> QED BY <1>3, <1>4 DEF BatchNumber

\* The entries of a new rollout.
LEMMA NewEntriesType ==
    ASSUME NEW E \in SUBSET Devices, E # {}, NEW order \in Orders(E), NEW p \in Percentages,
           NEW size, size = BatchSize(Cardinality(E), p)
    PROVE  /\ NewEntries(E, order, size) \in [Devices -> Entry]
           /\ \A d \in Devices : /\ NewEntries(E, order, size)[d].state \in {"none", "pending"}
                                 /\ \/ NewEntries(E, order, size)[d].state = "none"
                                       /\ NewEntries(E, order, size)[d].batch = 0
                                    \/ NewEntries(E, order, size)[d].state = "pending"
                                       /\ NewEntries(E, order, size)[d].batch # 0
<1>1. Cardinality(E) \in Nat \ {0}
  BY DeviceAssumption, FS_Subset, FS_CardinalityType, FS_EmptySet
<1>2. \A d \in E : order[d] \in Nat
  BY <1>1 DEF Orders
<1>3. \A d \in E : BatchNumber(order[d], size) \in Nat \ {0}
  BY <1>1, <1>2, BatchPositive
<1> QED BY <1>3 DEF NewEntries, Entry, EntryStates, NoEntry

\* Writing a state into an entry that exists.
LEMMA SetEntryType ==
    ASSUME TypeOK, NEW r \in Rollouts \cup {0}, NEW d \in Devices \cup {NoDevice},
           NEW s \in {"sent", "updated", "cancelled"},
           SetEntry(r, d, s)
    PROVE  /\ entry' \in [Rollouts -> [Devices -> Entry]]
           /\ \A q \in Rollouts, e \in Devices : entry'[q][e].state = "none" <=> entry'[q][e].batch = 0
           /\ \A q \in Rollouts, e \in Devices :
                 /\ entry'[q][e].batch = entry[q][e].batch
                 /\ \/ entry'[q][e].state = entry[q][e].state
                    \/ <<q, e>> = <<r, d>> /\ entry'[q][e].state = s /\ entry[q][e].state # "none"
<1>1. CASE UNCHANGED entry
  BY <1>1 DEF TypeOK
<1>2. CASE r \notin Rollouts \/ d \notin Devices
  <2>1. CASE r \notin Rollouts
    BY <1>1, <2>1, Zenon DEF SetEntry, TypeOK
  <2>2. CASE r \in Rollouts /\ d \notin Devices
    <3> DEFINE one == [entry[r] EXCEPT ![d].state = s]
    <3>1. entry[r] \in [Devices -> Entry]
      BY <2>2 DEF TypeOK
    <3>2. one = entry[r]
      <4> DEFINE f == entry[r]
      <4>1. [f EXCEPT ![d].state = s] = f
        <5> HIDE DEF f
        <5> QED BY <2>2, <3>1, Zenon DEF f
      <4> QED BY <4>1
    <3>3. entry' = entry \/ entry' = [entry EXCEPT ![r] = one]
      BY Zenon DEF SetEntry
    <3> HIDE DEF one
    <3>4. entry' = entry
      BY <3>2, <3>3 DEF TypeOK
    <3> QED BY <1>1, <3>4
  <2> QED BY <1>2, <2>1, <2>2
<1>3. CASE r \in Rollouts /\ d \in Devices /\ entry[r][d] # NoEntry
  <2> DEFINE old == entry[r][d]
             new == [old EXCEPT !.state = s]
  <2>1. old \in Entry /\ (old.state = "none" <=> old.batch = 0)
    BY <1>3 DEF TypeOK
  <2>2. entry' = [entry EXCEPT ![r][d] = new]
    BY <1>3 DEF SetEntry
  <2>3. new \in Entry /\ new.batch = old.batch /\ new.state = s
    BY <2>1 DEF Entry, EntryStates
  <2>4. old.state # "none"
    BY <1>3, <2>1 DEF Entry, NoEntry
  <2>5. /\ entry' \in [Rollouts -> [Devices -> Entry]]
        /\ \A q \in Rollouts, e \in Devices :
              entry'[q][e] = IF q = r /\ e = d THEN new ELSE entry[q][e]
    <3> HIDE DEF new, old
    <3> QED BY <1>3, <2>2, <2>3 DEF TypeOK
  <2>6. \A q \in Rollouts, e \in Devices :
           entry'[q][e].state = "none" <=> entry'[q][e].batch = 0
    <3>1. \A q \in Rollouts, e \in Devices : entry[q][e].state = "none" <=> entry[q][e].batch = 0
      BY DEF TypeOK
    <3>2. new.state # "none" /\ new.batch # 0
      BY <2>1, <2>3, <2>4
    <3> HIDE DEF new, old
    <3> QED BY <2>5, <3>1, <3>2
  <2> QED BY <1>3, <2>3, <2>4, <2>5, <2>6
<1> QED BY <1>1, <1>2, <1>3 DEF SetEntry

\* Writing the status and the schedule of a rollout, or the status alone.
LEMMA SetStatusType ==
    ASSUME TypeOK, NEW r \in Rollouts \cup {0}, NEW b \in BOOLEAN,
           NEW s \in {"running", "completed", "cancelled", "failed"},
           \/ rollout' = [rollout EXCEPT ![r].status = s, ![r].due = b]
           \/ rollout' = [rollout EXCEPT ![r].status = s]
    PROVE  /\ rollout' \in [Rollouts -> RolloutRow]
           /\ \A q \in Rollouts : /\ rollout'[q].target = rollout[q].target
                                 /\ rollout'[q].percentage = rollout[q].percentage
           /\ \A q \in Rollouts : q # r => rollout'[q] = rollout[q]
           /\ r \in Rollouts => rollout'[r].status = s
<1>1. CASE r \notin Rollouts
  BY <1>1, Zenon DEF TypeOK
<1>2. CASE r \in Rollouts
  <2> DEFINE old == rollout[r]
             one == [old EXCEPT !.status = s]
             two == [one EXCEPT !.due = b]
  <2>1. old \in RolloutRow
    BY <1>2 DEF TypeOK
  <2>2. /\ one \in RolloutRow /\ one.status = s
        /\ one.target = old.target /\ one.percentage = old.percentage
    <3> HIDE DEF old
    <3> QED BY <2>1 DEF RolloutRow
  <2>3. /\ two \in RolloutRow /\ two.status = s
        /\ two.target = old.target /\ two.percentage = old.percentage
    <3> HIDE DEF one
    <3> QED BY <2>2 DEF RolloutRow
  <2>4. rollout' = [rollout EXCEPT ![r] = two] \/ rollout' = [rollout EXCEPT ![r] = one]
    BY <1>2, Zenon DEF TypeOK
  <2> HIDE DEF one, two
  <2> QED BY ZenonT(60), <1>2, <2>2, <2>3, <2>4 DEF TypeOK
<1> QED BY <1>1, <1>2

\* A step that changes the record of one goroutine only.
LEMMA AdminFrame ==
    ASSUME TypeOK, UNCHANGED <<product, rollout, entry, broker, adminOnly>>, admin' \in Admin
    PROVE  TypeOK'
BY DEF TypeOK, adminOnly, broker, field

LEMMA WorkerFrame ==
    ASSUME TypeOK, UNCHANGED <<rollout, entry, broker, workerOnly>>, worker' \in Worker
    PROVE  TypeOK'
BY DEF TypeOK, workerOnly, broker, field

LEMMA HandlerFrame ==
    ASSUME TypeOK, UNCHANGED <<rollout, entry, known, broker, handlerOnly>>, handler' \in Handler
    PROVE  TypeOK'
BY DEF TypeOK, handlerOnly, broker, field

\* A publish, or one that may have failed, for a device or for none.
LEMMA PublishType ==
    ASSUME TypeOK, NEW d \in Devices \cup {NoDevice}, NEW c,
           c = NoCommand \/ (c \in Command /\ d \in Devices),
           Publish(d, c) \/ PublishFails(d, c)
    PROVE  /\ retained' \in [Devices -> Command \cup {NoCommand}]
           /\ told' \in SUBSET (Devices \X Command)
           /\ told \subseteq told'
<1>1. CASE UNCHANGED broker
  BY <1>1 DEF TypeOK, broker
<1>2. CASE Publish(d, c)
  <2>1. retained' \in [Devices -> Command \cup {NoCommand}]
    BY <1>2 DEF TypeOK, Publish
  <2>2. CASE c = NoCommand
    BY <1>2, <2>1, <2>2 DEF TypeOK, Publish
  <2>3. CASE c # NoCommand
    <3>1. told' = told \cup {<<d, c>>} /\ <<d, c>> \in Devices \X Command
      BY <1>2, <2>3 DEF Publish
    <3> QED BY <2>1, <3>1 DEF TypeOK
  <2> QED BY <2>2, <2>3
<1> QED BY <1>1, <1>2 DEF PublishFails

\* The steps of the admin ...
LEMMA AdminTypes == ASSUME TypeOK, AdminStep PROVE TypeOK'
<1>1. ASSUME NEW v \in Uploads, UploadFirmware(v) PROVE TypeOK'
  BY <1>1, VersionAssumption DEF TypeOK, UploadFirmware, adminOnly, broker, field
<1>2. CASE StartRollout
  BY <1>2 DEF TypeOK, StartRollout, IdleAdmin, Admin, adminOnly, broker, field
<1>3. CASE CheckEligible
  <2>1. admin' \in Admin
    <3>1. AdminGoto("active") \/ GiveUpRollout
      BY <1>3, Zenon DEF CheckEligible
    <3>2. admin \in Admin
      BY DEF TypeOK
    <3> QED BY <3>1, <3>2 DEF AdminGoto, GiveUpRollout, IdleAdmin, Admin
  <2>2. UNCHANGED <<product, rollout, entry, broker, adminOnly>>
    BY <1>3, Zenon DEF CheckEligible
  <2> QED BY <2>1, <2>2, AdminFrame
<1>4. CASE LoadActive
  BY <1>4 DEF TypeOK, LoadActive, Admin, adminOnly, broker, field
<1>5. ASSUME NEW r \in Rollouts, CancelRollout(r) PROVE TypeOK'
  <2>1. rollout' \in [Rollouts -> RolloutRow]
    BY <1>5, SetStatusType DEF CancelRollout
  <2>2. admin' \in Admin
    BY <1>5 DEF TypeOK, CancelRollout, Admin
  <2> QED BY <1>5, <2>1, <2>2 DEF TypeOK, CancelRollout, adminOnly, broker, field
<1>6. ASSUME NEW S \in SUBSET Devices, Clearing(S) PROVE admin' \in Admin
  BY <1>6 DEF TypeOK, Clearing, Admin
<1>7. CASE LoadCancelled
  BY <1>6, <1>7 DEF TypeOK, LoadCancelled, In, adminOnly, broker, field
<1>8. ASSUME NEW d \in Devices, ClearCancelled(d) PROVE TypeOK'
  <2>1. admin' \in Admin
    <3>1. admin.clearing \ {d} \in SUBSET Devices
      BY DEF TypeOK, Admin
    <3>2. CASE admin' = [admin EXCEPT !.pc = "mark", !.d = d]
      BY <3>2 DEF TypeOK, Admin
    <3> QED BY <1>6, <1>8, <3>1, <3>2 DEF ClearCancelled
  <2>2. retained' \in [Devices -> Command \cup {NoCommand}] /\ told' \in SUBSET (Devices \X Command)
    BY <1>8, PublishType DEF ClearCancelled
  <2> QED BY <1>8, <2>1, <2>2 DEF TypeOK, ClearCancelled, adminOnly, field
<1>9. CASE MarkCancelled
  <2>1. admin' \in Admin
    <3>1. admin.clearing \ {admin.d} \in SUBSET Devices
      BY DEF TypeOK, Admin
    <3> QED BY <1>6, <1>9, <3>1 DEF MarkCancelled
  <2>2. CASE UNCHANGED entry
    BY <1>9, <2>1, <2>2 DEF TypeOK, MarkCancelled, adminOnly, broker, field
  <2>3. CASE SetEntry(admin.r, admin.d, "cancelled")
    <3>1. admin.r \in Rollouts \cup {0} /\ admin.d \in Devices \cup {NoDevice}
      BY DEF TypeOK, Admin
    <3>2. /\ entry' \in [Rollouts -> [Devices -> Entry]]
          /\ \A q \in Rollouts, e \in Devices : entry'[q][e].state = "none" <=> entry'[q][e].batch = 0
      BY <2>3, <3>1, SetEntryType
    <3>3. UNCHANGED <<product, rollout, broker, adminOnly>>
      BY <1>9, Zenon DEF MarkCancelled
    <3> QED BY <2>1, <3>2, <3>3 DEF TypeOK, adminOnly, broker, field
  <2> QED BY <1>9, <2>2, <2>3 DEF MarkCancelled, Attempted
<1>10. CASE RolloutRequestFails
  BY <1>10 DEF TypeOK, RolloutRequestFails, GiveUpRollout, IdleAdmin, Admin, adminOnly,
               broker, field
<1>11. ASSUME NEW r \in Rollouts, CreateRollout(r) PROVE TypeOK'
  <2> DEFINE E == Eligible(admin.target)
  <2>1. PICK order \in Orders(E), p \in Percentages :
           entry' = [entry EXCEPT ![r] = NewEntries(E, order, BatchSize(Cardinality(E), p))]
    BY <1>11 DEF CreateRollout
  <2> DEFINE new == NewEntries(E, order, BatchSize(Cardinality(E), p))
  <2>2. /\ new \in [Devices -> Entry]
        /\ \A d \in Devices : new[d].state = "none" <=> new[d].batch = 0
    <3>1. E \in SUBSET Devices /\ E # {}
      BY <1>11 DEF CreateRollout, Eligible
    <3> HIDE DEF E
    <3> QED BY <3>1, NewEntriesType
  <2>3. entry' = [entry EXCEPT ![r] = new]
    BY <2>1
  <2> HIDE DEF new
  <2>4. /\ entry' \in [Rollouts -> [Devices -> Entry]]
        /\ \A q \in Rollouts, d \in Devices : entry'[q][d].state = "none" <=> entry'[q][d].batch = 0
    BY <2>2, <2>3 DEF TypeOK
  <2>5. rollout' \in [Rollouts -> RolloutRow]
    <3>1. PICK percentage \in Percentages :
             rollout' = [rollout EXCEPT ![r] = [status |-> "pending", target |-> admin.target,
                                                percentage |-> percentage, due |-> TRUE]]
      BY <1>11, Zenon DEF CreateRollout
    <3>2. percentage \in 0..100
      BY BatchAssumption
    <3> QED BY <3>1, <3>2 DEF TypeOK, RolloutRow, Admin
  <2>6. admin' \in Admin
    BY <1>11 DEF CreateRollout, GiveUpRollout, IdleAdmin, Admin
  <2> QED BY <1>11, <2>4, <2>5, <2>6 DEF TypeOK, CreateRollout, adminOnly, broker, field
<1> QED BY <1>1, <1>2, <1>3, <1>4, <1>5, <1>7, <1>8, <1>9, <1>10, <1>11 DEF AdminStep

\* ... of the worker ...
LEMMA WorkerTypes == ASSUME TypeOK, Refs, WorkerStep PROVE TypeOK'
<1>0. /\ worker \in Worker /\ rollout \in [Rollouts -> RolloutRow] /\ product \in Versions \cup {NoVersion}
      /\ worker.r \in Rollouts \cup {0} /\ worker.d \in Devices \cup {NoDevice}
  BY DEF TypeOK, Worker
<1>1. ASSUME NEW S \in SUBSET Rollouts, LoadDue(S) PROVE TypeOK'
  <2>1. worker' \in Worker
    BY <1>1 DEF LoadDue, IdleWorker, Counts, Uncounted, Worker
  <2> QED BY <1>1, <2>1, WorkerFrame DEF LoadDue
<1>2. ASSUME NEW r \in Rollouts, LoadFirstPending(r) PROVE TypeOK'
  <2>1. \A d \in Devices : entry[r][d].batch \in Nat
    BY DEF TypeOK, Entry
  <2>2. worker' \in Worker
    BY ZenonT(60), <1>0, <1>2, <2>1 DEF LoadFirstPending, Worker
  <2>3. UNCHANGED <<rollout, entry, broker, workerOnly>>
    BY <1>2, Zenon DEF LoadFirstPending
  <2> QED BY <2>2, <2>3, WorkerFrame
<1>3. CASE LoadTargets
  <2>1. worker' \in Worker
    BY <1>0, <1>3 DEF LoadTargets, In, Worker
  <2> QED BY <1>3, <2>1, WorkerFrame DEF LoadTargets
<1>4. CASE LoadProduct
  <2>1. worker' \in Worker
    BY <1>0, <1>4 DEF LoadProduct, Worker
  <2> QED BY <1>4, <2>1, WorkerFrame DEF LoadProduct
<1>5. ASSUME NEW d \in Devices, CheckTarget(d) PROVE TypeOK'
  <2>1. worker' \in Worker
    BY <1>0, <1>5 DEF CheckTarget, Worker
  <2> QED BY <1>5, <2>1, WorkerFrame DEF CheckTarget
<1>6. ASSUME EndTarget \/ EndRollout \/ \E pc \in {"fail", "mark"} : WorkerGoto(pc)
      PROVE  worker' \in Worker
  <2>1. CASE EndTarget
    BY <1>0, <2>1 DEF EndTarget, Worker
  <2>2. CASE EndRollout
    BY <1>0, <2>2 DEF EndRollout, IdleWorker, Counts, Uncounted, Worker
  <2>3. CASE \E pc \in {"fail", "mark"} : WorkerGoto(pc)
    BY <1>0, <2>3 DEF WorkerGoto, Worker
  <2> QED BY <1>6, <2>1, <2>2, <2>3
<1>7. CASE NoteUpdated \/ MarkSent
  <2>1. /\ worker' \in Worker
        /\ UNCHANGED <<rollout, broker, workerOnly>>
        /\ SetEntry(worker.r, worker.d, "updated") \/ SetEntry(worker.r, worker.d, "sent")
    BY <1>6, <1>7 DEF NoteUpdated, MarkSent
  <2>2. /\ entry' \in [Rollouts -> [Devices -> Entry]]
        /\ \A q \in Rollouts, e \in Devices : entry'[q][e].state = "none" <=> entry'[q][e].batch = 0
    BY <1>0, <2>1, SetEntryType
  <2> QED BY <2>1, <2>2 DEF TypeOK, workerOnly, broker, field
<1>8. CASE PublishTarget
  <2>1. worker' \in Worker /\ UNCHANGED <<rollout, entry, workerOnly>>
    BY <1>6, <1>8 DEF PublishTarget
  <2>2. Publish(worker.d, OwnCommand) \/ PublishFails(worker.d, OwnCommand)
    BY <1>8 DEF PublishTarget
  <2>3. /\ retained' \in [Devices -> Command \cup {NoCommand}]
        /\ told' \in SUBSET (Devices \X Command)
    <3>1. WorkerAt("publish")
      BY <1>8 DEF PublishTarget
    <3>2. worker.d \in Devices /\ OwnCommand \in Command
      BY <1>0, <3>1 DEF Refs, WorkerRule, RowRule, WorkerAt, OwnCommand, Command, Worker, RolloutRow
    <3> QED BY <2>2, <3>2, PublishType
  <2> QED BY <2>1, <2>3 DEF TypeOK, workerOnly, field
<1>9. CASE CountEntries
  <2>1. worker' \in Worker
    BY <1>0, <1>9 DEF CountEntries, Counted, Counts, Worker
  <2> QED BY <1>9, <2>1, WorkerFrame DEF CountEntries
<1>10. CASE WriteRollout
  <2>1. rollout' \in [Rollouts -> RolloutRow]
    BY <1>0, <1>10, SetStatusType DEF WriteRollout, Finished
  <2> QED BY <1>6, <1>10, <2>1 DEF WriteRollout, TypeOK, workerOnly, broker, field
<1>11. CASE StatementFails
  BY <1>6, <1>11, WorkerFrame DEF StatementFails
<1>12. CASE FailRollout
  <2>1. rollout' \in [Rollouts -> RolloutRow]
    BY <1>0, <1>12, SetStatusType DEF FailRollout, Attempted
  <2> QED BY <1>6, <1>12, <2>1 DEF FailRollout, TypeOK, workerOnly, broker, field
<1> QED BY <1>1, <1>2, <1>3, <1>4, <1>5, <1>7, <1>8, <1>9, <1>10, <1>11, <1>12 DEF WorkerStep

\* ... of the status handler ...
LEMMA HandlerTypes == ASSUME TypeOK, Refs, HandlerStep PROVE TypeOK'
<1>0. /\ handler \in Handler
      /\ handler.r \in Rollouts \cup {0} /\ handler.d \in Devices \cup {NoDevice}
  BY DEF TypeOK, Handler
<1>1. ASSUME NEW d \in Devices, ReceiveStatus(d) PROVE TypeOK'
  <2>1. mail[d] \in Seq(Versions) /\ mail[d] # <<>>
    BY <1>1 DEF TypeOK, ReceiveStatus
  <2>2. Head(mail[d]) \in Versions /\ Tail(mail[d]) \in Seq(Versions)
    BY <2>1
  <2>3. mail' = [mail EXCEPT ![d] = Tail(mail[d])]
    BY <1>1, Zenon DEF ReceiveStatus, TypeOK
  <2>4. known' = [known EXCEPT ![d] = Head(mail[d])] \/ known' = known
    BY <1>1, Zenon DEF ReceiveStatus, Attempted
  <2>5. handler' = [IdleHandler EXCEPT !.pc = "product", !.d = d, !.ver = Head(mail[d])]
    BY <1>1, Zenon DEF ReceiveStatus
  <2>6. UNCHANGED <<product, rollout, entry, row, broker, device, ran, worker, admin, asking>>
    BY <1>1, Zenon DEF ReceiveStatus
  <2> DEFINE ver == Head(mail[d])
             rest == Tail(mail[d])
  <2>7. handler' \in Handler
    <3>1. ver \in Versions /\ handler' = [IdleHandler EXCEPT !.pc = "product", !.d = d, !.ver = ver]
      BY <2>2, <2>5
    <3> HIDE DEF ver
    <3> QED BY <3>1 DEF IdleHandler, Counts, Uncounted, Handler
  <2>8. mail' \in [Devices -> Seq(Versions)] /\ known' \in [Devices -> Versions \cup {NoVersion}]
    <3>1. /\ ver \in Versions /\ rest \in Seq(Versions)
          /\ mail' = [mail EXCEPT ![d] = rest]
          /\ known' = [known EXCEPT ![d] = ver] \/ known' = known
      BY <2>2, <2>3, <2>4
    <3> HIDE DEF ver, rest
    <3> QED BY <3>1 DEF TypeOK
  <2> QED BY <2>6, <2>7, <2>8 DEF TypeOK, broker
<1>2. ASSUME \E pc \in {"clear", "matches"} : HandlerGoto(pc) PROVE handler' \in Handler
  BY <1>0, <1>2 DEF HandlerGoto, Handler
<1>3. CASE CheckProduct
  <2>1. handler' \in Handler
    BY <1>2, <1>3 DEF CheckProduct
  <2>2. UNCHANGED <<rollout, entry, known, broker, handlerOnly>>
    BY <1>3, Zenon DEF CheckProduct
  <2> QED BY <2>1, <2>2, HandlerFrame
<1>4. ASSUME Publish(handler.d, NoCommand) \/ PublishFails(handler.d, NoCommand),
             UNCHANGED <<rollout, entry, known, handlerOnly>>, handler' \in Handler
      PROVE  TypeOK'
  BY <1>0, <1>4, PublishType DEF TypeOK, handlerOnly, field
<1>5. CASE ClearForProduct
  <2>1. handler' \in Handler
    BY <1>0, <1>5 DEF ClearForProduct, HandlerGoto, Handler
  <2> QED BY <1>4, <1>5, <2>1 DEF ClearForProduct
<1>6. ASSUME NEW S \in SUBSET Rollouts, Remaining(S) PROVE handler' \in Handler
  BY <1>0, <1>6 DEF Remaining, IdleHandler, Counts, Uncounted, Handler
<1>7. CASE LoadMatches
  <2>1. handler' \in Handler
    BY <1>6, <1>7 DEF LoadMatches, Matching
  <2> QED BY <1>7, <2>1, HandlerFrame DEF LoadMatches
<1>8. ASSUME NEW r \in Rollouts, SkipMatch(r) PROVE TypeOK'
  <2>1. handler' \in Handler
    BY <1>0, <1>6, <1>8 DEF SkipMatch, Handler
  <2> QED BY <1>8, <2>1, HandlerFrame DEF SkipMatch
<1>9. ASSUME NEW r \in Rollouts, ClearForMatch(r) PROVE TypeOK'
  <2>1. handler' \in Handler
    <3>1. PICK done \in BOOLEAN :
             handler' = [handler EXCEPT !.pc = "mark", !.r = r, !.todo = @ \ {r}, !.cleared = done]
      BY <1>9, Zenon DEF ClearForMatch
    <3> QED BY <1>0, <3>1 DEF Handler
  <2> QED BY <1>4, <1>9, <2>1 DEF ClearForMatch
<1>10. ASSUME NEW r \in Rollouts, MarkUpdated(r) PROVE TypeOK'
  <2>1. handler' \in Handler
    BY <1>0, <1>10 DEF MarkUpdated, Handler
  <2>2. entry' = entry \/ SetEntry(r, handler.d, "updated")
    BY <1>10, Zenon DEF MarkUpdated, Attempted
  <2>3. /\ entry' \in [Rollouts -> [Devices -> Entry]]
        /\ \A q \in Rollouts, e \in Devices : entry'[q][e].state = "none" <=> entry'[q][e].batch = 0
    <3>1. CASE UNCHANGED entry
      BY <3>1 DEF TypeOK
    <3> QED BY <1>0, <2>2, <3>1, SetEntryType
  <2>4. UNCHANGED <<rollout, known, broker, handlerOnly>>
    BY <1>10, Zenon DEF MarkUpdated
  <2> QED BY <2>1, <2>3, <2>4 DEF TypeOK, handlerOnly, broker, field
<1>11. CASE CountForRefresh
  <2>1. handler' \in Handler
    BY <1>0, <1>11 DEF CountForRefresh, Counted, Counts, Handler
  <2> QED BY <1>11, <2>1, HandlerFrame DEF CountForRefresh
<1>12. CASE WriteRefresh
  <2>1. handler' \in Handler
    <3>1. handler.todo \in SUBSET Rollouts
      BY <1>0 DEF Handler
    <3> QED BY <1>6, <1>12, <3>1 DEF WriteRefresh
  <2>2. rollout' \in [Rollouts -> RolloutRow]
    <3>1. CASE UNCHANGED rollout
      BY <3>1 DEF TypeOK
    <3>2. CASE rollout' = [rollout EXCEPT ![handler.r].status = Finished(handler.counts),
                                          ![handler.r].due = FALSE]
      BY <1>0, <3>2, SetStatusType DEF Finished
    <3> QED BY <1>12, <3>1, <3>2 DEF WriteRefresh, Attempted
  <2> QED BY <1>12, <2>1, <2>2 DEF WriteRefresh, TypeOK, handlerOnly, broker, field
<1> QED BY <1>1, <1>3, <1>5, <1>7, <1>8, <1>9, <1>10, <1>11, <1>12 DEF HandlerStep

\* ... and those of the users, the devices and a crash.
LEMMA OtherTypes == ASSUME TypeOK, Refs, UserStep \/ FieldStep \/ CrashAndRestart PROVE TypeOK'
<1>0. /\ asking \in Asking
      /\ asking.r \in Rollouts \cup {0} /\ asking.d \in Devices \cup {NoDevice}
  BY DEF TypeOK, Asking
<1>1. ASSUME NEW d \in Devices, AskForUpdate(d) PROVE TypeOK'
  <2>1. asking' \in Asking
    BY <1>1 DEF AskForUpdate, IdleAsking, Asking, TypeOK
  <2> QED BY <1>1, <2>1 DEF AskForUpdate, TypeOK, askingOnly, broker, field
<1>2. CASE PublishAsked
  <2> DEFINE c == [version |-> asking.ver, image |-> asking.ver, by |-> 0]
  <2>1. asking.pc = "publish" /\ UNCHANGED <<entry, askingOnly>>
    BY <1>2 DEF PublishAsked
  <2>2. c \in Command /\ asking.d \in Devices
    BY <1>0, <2>1 DEF Refs, AskingRule, Asking, Command
  <2>3. Publish(asking.d, c) \/ PublishFails(asking.d, c)
    BY <1>2 DEF PublishAsked
  <2>4. asking' \in Asking
    BY <1>0, <1>2 DEF PublishAsked, IdleAsking, Asking
  <2> HIDE DEF c
  <2> QED BY <2>1, <2>2, <2>3, <2>4, PublishType DEF TypeOK, askingOnly, field
<1>3. CASE FindPendingEntry
  <2>1. asking' \in Asking
    <3>1. CASE asking' = IdleAsking
      BY <3>1 DEF IdleAsking, Asking
    <3>2. CASE \E r \in Rollouts : asking' = [asking EXCEPT !.pc = "mark", !.r = r]
      BY <1>0, <3>2 DEF Asking
    <3> QED BY <1>3, <3>1, <3>2 DEF FindPendingEntry
  <2>2. UNCHANGED <<entry, broker, askingOnly>>
    BY <1>3, Zenon DEF FindPendingEntry
  <2> QED BY <2>1, <2>2 DEF TypeOK, askingOnly, broker, field
<1>4. CASE MarkAskedSent
  <2>1. asking' \in Asking
    BY <1>4 DEF MarkAskedSent, IdleAsking, Asking
  <2>2. entry' = entry \/ SetEntry(asking.r, asking.d, "sent")
    BY <1>4, Zenon DEF MarkAskedSent, Attempted
  <2>3. /\ entry' \in [Rollouts -> [Devices -> Entry]]
        /\ \A q \in Rollouts, e \in Devices : entry'[q][e].state = "none" <=> entry'[q][e].batch = 0
    <3>1. CASE UNCHANGED entry
      BY <3>1 DEF TypeOK
    <3> QED BY <1>0, <2>2, <3>1, SetEntryType
  <2>4. UNCHANGED <<broker, askingOnly>>
    BY <1>4, Zenon DEF MarkAskedSent
  <2> QED BY <2>1, <2>3, <2>4 DEF TypeOK, askingOnly, broker, field
<1>5. ASSUME NEW d \in Devices, DeleteDevice(d) PROVE TypeOK'
  BY <1>5 DEF DeleteDevice, TypeOK, broker, field
<1>6. ASSUME NEW d \in Devices, ClearDeleted(d) PROVE TypeOK'
  <2>1. row' \in [Devices -> {"live", "deleting", "deleted"}]
    BY <1>6 DEF ClearDeleted, TypeOK
  <2>2. retained' \in [Devices -> Command \cup {NoCommand}] /\ told' \in SUBSET (Devices \X Command)
    BY <1>6, PublishType DEF ClearDeleted
  <2> QED BY <1>6, <2>1, <2>2 DEF ClearDeleted, TypeOK, field
<1> DEFINE Device == [runs: Versions, queued: Command \cup {NoCommand},
                      said: Versions \cup {NoVersion}]
<1>7. ASSUME NEW d \in Devices, DeviceReceives(d) \/ DeviceFlashes(d) \/ DeviceReports(d)
      PROVE  device' \in [Devices -> Device]
  <2> DEFINE old == device[d]
  <2>1. old \in Device /\ retained[d] \in Command \cup {NoCommand}
    BY DEF TypeOK
  <2>2. CASE DeviceReceives(d)
    <3>1. [old EXCEPT !.queued = retained[d]] \in Device
      <4> HIDE DEF old
      <4> QED BY <2>1
    <3>2. device' = [device EXCEPT ![d] = [old EXCEPT !.queued = retained[d]]]
      BY <2>2, Zenon DEF DeviceReceives
    <3> QED BY <3>1, <3>2 DEF TypeOK
  <2>3. CASE DeviceFlashes(d)
    <3> DEFINE c == old.queued
               q == IF c.version = c.image THEN NoCommand ELSE c
               new == [old EXCEPT !.runs = c.image, !.queued = q]
    <3>1. c \in Command
      BY <2>1, <2>3 DEF DeviceFlashes
    <3>2. c.image \in Versions /\ q \in Command \cup {NoCommand}
      BY <3>1 DEF Command
    <3>3. new \in Device
      <4> HIDE DEF c, q, old
      <4> QED BY <2>1, <3>2
    <3>4. device' = [device EXCEPT ![d] = new]
      BY <2>3, Zenon DEF DeviceFlashes
    <3> HIDE DEF new
    <3> QED BY <3>3, <3>4 DEF TypeOK
  <2>4. CASE DeviceReports(d)
    <3>1. [old EXCEPT !.said = old.runs] \in Device
      <4> HIDE DEF old
      <4> QED BY <2>1
    <3>2. device' = [device EXCEPT ![d] = [old EXCEPT !.said = old.runs]]
      BY <2>4, Zenon DEF DeviceReports
    <3> QED BY <3>1, <3>2 DEF TypeOK
  <2> QED BY <1>7, <2>2, <2>3, <2>4
<1>8. ASSUME NEW d \in Devices, DeviceReceives(d) PROVE TypeOK'
  BY <1>7, <1>8 DEF DeviceReceives, TypeOK, deviceOnly, broker, tables
<1>9. ASSUME NEW d \in Devices, DeviceFlashes(d) PROVE TypeOK'
  <2>1. device[d].queued.image \in Versions
    BY <1>9 DEF DeviceFlashes, TypeOK, Command
  <2>2. ran' = [ran EXCEPT ![d] = ran[d] \cup {device[d].queued.image}]
    BY <1>9, Zenon DEF DeviceFlashes
  <2>3. ran' \in [Devices -> SUBSET Versions]
    BY <2>1, <2>2 DEF TypeOK
  <2>4. UNCHANGED <<broker, mail, deviceOnly>>
    BY <1>9, Zenon DEF DeviceFlashes
  <2> QED BY <1>7, <1>9, <2>3, <2>4 DEF TypeOK, deviceOnly, broker, tables
<1>10. ASSUME NEW d \in Devices, NEW v \in Versions, mail' = [mail EXCEPT ![d] = Append(@, v)]
       PROVE  mail' \in [Devices -> Seq(Versions)]
  <2>1. Append(mail[d], v) \in Seq(Versions)
    BY DEF TypeOK
  <2> QED BY <1>10, <2>1 DEF TypeOK
<1>11. ASSUME NEW d \in Devices, DeviceReports(d) PROVE TypeOK'
  <2>1. mail' \in [Devices -> Seq(Versions)]
    <3>1. device[d].runs \in Versions
      BY DEF TypeOK
    <3> QED BY <1>10, <1>11, <3>1 DEF DeviceReports
  <2> QED BY <1>7, <1>11, <2>1 DEF DeviceReports, TypeOK, deviceOnly, broker, tables
<1>12. ASSUME NEW d \in Devices, BrokerRepeats(d) PROVE TypeOK'
  <2>1. mail' \in [Devices -> Seq(Versions)]
    <3>1. device[d].said \in Versions
      BY <1>12 DEF BrokerRepeats, TypeOK
    <3> QED BY <1>10, <1>12, <3>1 DEF BrokerRepeats
  <2> QED BY <1>12, <2>1 DEF BrokerRepeats, TypeOK, deviceOnly, broker, tables
<1>13. CASE CrashAndRestart
  <2>1. /\ handler' \in Handler /\ worker' \in Worker /\ admin' \in Admin /\ asking' \in Asking
    BY <1>13 DEF CrashAndRestart, IdleHandler, Handler, IdleWorker, Worker, IdleAdmin, Admin,
                 IdleAsking, Asking, Counts, Uncounted
  <2>2. mail' \in [Devices -> Seq(Versions)] /\ row' \in [Devices -> {"live", "deleting", "deleted"}]
    BY <1>13 DEF CrashAndRestart, TypeOK
  <2> QED BY <1>13, <2>1, <2>2 DEF CrashAndRestart, TypeOK, broker
<1> QED BY <1>1, <1>2, <1>3, <1>4, <1>5, <1>6, <1>8, <1>9, <1>11, <1>12, <1>13, DeviceAssumption
        DEF UserStep, FieldStep

-----------------------------------------------------------------------------
(* Who writes what *)

LEMMA Writers ==
    ASSUME Next
    PROVE  /\ UNCHANGED product \/ \E v \in Uploads : UploadFirmware(v)
           /\ \/ UNCHANGED rollout
              \/ \E r \in Rollouts : CancelRollout(r) \/ CreateRollout(r)
              \/ WriteRollout \/ FailRollout \/ WriteRefresh
           /\ \/ UNCHANGED entry
              \/ \E r \in Rollouts : CreateRollout(r) \/ MarkUpdated(r)
              \/ MarkCancelled \/ NoteUpdated \/ MarkSent \/ MarkAskedSent
           /\ UNCHANGED known \/ \E d \in Devices : ReceiveStatus(d)
           /\ \/ UNCHANGED <<ran, device>>
              \/ \E d \in Devices : DeviceReceives(d) \/ DeviceFlashes(d) \/ DeviceReports(d)
           /\ \/ UNCHANGED mail
              \/ \E d \in Devices : ReceiveStatus(d) \/ DeviceReports(d) \/ BrokerRepeats(d)
              \/ CrashAndRestart
           /\ UNCHANGED worker \/ WorkerStep \/ CrashAndRestart
           /\ UNCHANGED handler \/ HandlerStep \/ CrashAndRestart
           /\ UNCHANGED admin \/ AdminStep \/ CrashAndRestart
           /\ UNCHANGED asking \/ UserStep \/ CrashAndRestart
<1>1. CASE AdminStep
  <2>1. UNCHANGED <<known, field, handler, worker, asking>>
    BY <1>1, Zenon
       DEF AdminStep, UploadFirmware, StartRollout, CheckEligible, LoadActive, LoadCancelled,
           MarkCancelled, RolloutRequestFails, CancelRollout, CreateRollout, ClearCancelled,
           adminOnly
  <2>2. \/ \E v \in Uploads : UploadFirmware(v) /\ UNCHANGED <<rollout, entry>>
        \/ \E r \in Rollouts : CreateRollout(r) /\ UNCHANGED product
        \/ \E r \in Rollouts : CancelRollout(r) /\ UNCHANGED <<product, entry>>
        \/ MarkCancelled /\ UNCHANGED <<product, rollout>>
        \/ UNCHANGED <<product, rollout, entry>>
    BY <1>1, Zenon
       DEF AdminStep, UploadFirmware, StartRollout, CheckEligible, LoadActive, LoadCancelled,
           MarkCancelled, RolloutRequestFails, CancelRollout, CreateRollout, ClearCancelled
  <2> QED BY <1>1, <2>1, <2>2, Zenon DEF field
<1>2. CASE WorkerStep
  <2>1. UNCHANGED workerOnly
    BY <1>2, Zenon
       DEF WorkerStep, LoadDue, LoadFirstPending, LoadTargets, LoadProduct, CheckTarget,
           NoteUpdated, PublishTarget, MarkSent, CountEntries, WriteRollout, StatementFails,
           FailRollout
  <2>2. \/ NoteUpdated /\ UNCHANGED rollout
        \/ MarkSent /\ UNCHANGED rollout
        \/ WriteRollout /\ UNCHANGED entry
        \/ FailRollout /\ UNCHANGED entry
        \/ UNCHANGED <<rollout, entry>>
    BY <1>2, Zenon
       DEF WorkerStep, LoadDue, LoadFirstPending, LoadTargets, LoadProduct, CheckTarget,
           NoteUpdated, PublishTarget, MarkSent, CountEntries, WriteRollout, StatementFails,
           FailRollout
  <2> QED BY <1>2, <2>1, <2>2, Zenon DEF workerOnly, field
<1>3. CASE HandlerStep
  <2>1. UNCHANGED <<product, ran, device, worker, admin, asking>>
    BY <1>3, Zenon
       DEF HandlerStep, ReceiveStatus, CheckProduct, ClearForProduct, LoadMatches, SkipMatch,
           ClearForMatch, MarkUpdated, CountForRefresh, WriteRefresh, handlerOnly, field
  <2>2. \/ \E d \in Devices : ReceiveStatus(d) /\ UNCHANGED <<rollout, entry>>
        \/ \E r \in Rollouts : MarkUpdated(r) /\ UNCHANGED <<rollout, known, mail>>
        \/ WriteRefresh /\ UNCHANGED <<entry, known, mail>>
        \/ UNCHANGED <<rollout, entry, known, mail>>
    BY <1>3, Zenon
       DEF HandlerStep, ReceiveStatus, CheckProduct, ClearForProduct, LoadMatches, SkipMatch,
           ClearForMatch, MarkUpdated, CountForRefresh, WriteRefresh, handlerOnly, field
  <2> QED BY <1>3, <2>1, <2>2, Zenon
<1>4. CASE UserStep
  <2>1. UNCHANGED <<product, rollout, known, field, handler, worker, admin>>
    BY <1>4, Zenon
       DEF UserStep, AskForUpdate, PublishAsked, FindPendingEntry, MarkAskedSent, DeleteDevice,
           ClearDeleted, askingOnly
  <2>2. MarkAskedSent \/ UNCHANGED entry
    BY <1>4, Zenon
       DEF UserStep, AskForUpdate, PublishAsked, FindPendingEntry, MarkAskedSent, DeleteDevice,
           ClearDeleted
  <2> QED BY <1>4, <2>1, <2>2, Zenon DEF field
<1>5. CASE FieldStep
  <2>1. PICK d \in Devices :
           DeviceReceives(d) \/ DeviceFlashes(d) \/ DeviceReports(d) \/ BrokerRepeats(d)
    BY <1>5, Zenon DEF FieldStep
  <2>2. UNCHANGED deviceOnly
    BY <2>1, Zenon DEF DeviceReceives, DeviceFlashes, DeviceReports, BrokerRepeats
  <2>3. \/ DeviceReceives(d) /\ UNCHANGED mail
        \/ DeviceFlashes(d) /\ UNCHANGED mail
        \/ DeviceReports(d)
        \/ BrokerRepeats(d) /\ UNCHANGED <<ran, device>>
    BY <2>1, Zenon DEF DeviceReceives, DeviceFlashes, BrokerRepeats
  <2> QED BY <2>2, <2>3, Zenon DEF deviceOnly, tables
<1>6. CASE CrashAndRestart
  <2>1. UNCHANGED <<product, rollout, entry, known, device, ran>>
    BY <1>6, Zenon DEF CrashAndRestart
  <2> QED BY <1>6, <2>1, Zenon
<1> QED BY <1>1, <1>2, <1>3, <1>4, <1>5, <1>6, Zenon DEF Next

\* A rollout that exists goes on existing, with its target.
LEMMA RowsStay ==
    ASSUME TypeOK, Refs, Next
    PROVE  /\ \A r \in Rollouts : Exists(r) => Exists(r)' /\ rollout'[r].target = rollout[r].target
           /\ \A r \in Rollouts : Exists(r)' <=> rollout'[r].target # NoVersion
           /\ product # NoVersion => product' # NoVersion
           /\ (\E r \in Rollouts : Exists(r)') => product' # NoVersion
<1>1. product # NoVersion => product' # NoVersion
  BY Writers, VersionAssumption DEF UploadFirmware
<1>2. ASSUME NEW r \in Rollouts, Exists(r), NEW b \in BOOLEAN,
             NEW s \in {"running", "completed", "cancelled", "failed"},
             \/ rollout' = [rollout EXCEPT ![r].status = s, ![r].due = b]
             \/ rollout' = [rollout EXCEPT ![r].status = s]
      PROVE  \A q \in Rollouts : (Exists(q) <=> Exists(q)') /\ rollout'[q].target = rollout[q].target
  BY <1>2, SetStatusType DEF Exists
<1>3. CASE \A q \in Rollouts : (Exists(q) <=> Exists(q)') /\ rollout'[q].target = rollout[q].target
  BY <1>1, <1>3 DEF Refs, RowRule
<1>4. CASE UNCHANGED rollout
  BY <1>3, <1>4 DEF Exists
<1>5. ASSUME NEW r \in Rollouts, CancelRollout(r)
      PROVE  \A q \in Rollouts : (Exists(q) <=> Exists(q)') /\ rollout'[q].target = rollout[q].target
  <2>1. Exists(r)
    BY <1>5 DEF CancelRollout, Refs, AdminRule
  <2>2. rollout' = [rollout EXCEPT ![r].status = "cancelled", ![r].due = FALSE]
    BY <1>5, Zenon DEF CancelRollout
  <2> QED BY <1>2, <2>1, <2>2
<1>6. ASSUME WriteRollout \/ FailRollout
      PROVE  \A q \in Rollouts : (Exists(q) <=> Exists(q)') /\ rollout'[q].target = rollout[q].target
  <2>1. worker.r \in Rollouts /\ Exists(worker.r)
    BY <1>6 DEF WriteRollout, FailRollout, WorkerAt, Refs, WorkerRule
  <2>2. CASE WriteRollout
    <3> DEFINE b == worker.batch # 0 /\ worker.counts.pending
    <3>1. rollout' = [rollout EXCEPT ![worker.r].status = Finished(worker.counts),
                                     ![worker.r].due = b]
      BY <2>2, Zenon DEF WriteRollout
    <3>2. b \in BOOLEAN /\ Finished(worker.counts) \in {"running", "completed"}
      BY DEF TypeOK, Worker, Counts, Finished
    <3> HIDE DEF b
    <3> QED BY <1>2, <2>1, <3>1, <3>2
  <2>3. CASE FailRollout
    <3>1. UNCHANGED rollout \/ rollout' = [rollout EXCEPT ![worker.r].status = "failed"]
      BY <2>3, Zenon DEF FailRollout, Attempted
    <3>2. CASE UNCHANGED rollout
      BY <3>2 DEF Exists
    <3> QED BY <1>2, <2>1, <3>1, <3>2
  <2> QED BY <1>6, <2>2, <2>3
<1>7. ASSUME WriteRefresh
      PROVE  \A q \in Rollouts : (Exists(q) <=> Exists(q)') /\ rollout'[q].target = rollout[q].target
  <2>1. handler.r \in Rollouts /\ Exists(handler.r)
    BY <1>7 DEF WriteRefresh, HandlerAt, Refs, HandlerRule
  <2>2. \/ UNCHANGED rollout
        \/ rollout' = [rollout EXCEPT ![handler.r].status = Finished(handler.counts),
                                      ![handler.r].due = FALSE]
    BY <1>7, Zenon DEF WriteRefresh, Attempted
  <2>3. Finished(handler.counts) \in {"running", "completed"}
    BY DEF Finished
  <2>4. CASE UNCHANGED rollout
    BY <2>4 DEF Exists
  <2> QED BY <1>2, <2>1, <2>2, <2>3, <2>4
<1>8. ASSUME NEW r \in Rollouts, CreateRollout(r)
      PROVE  /\ \A q \in Rollouts : Exists(q) => Exists(q)' /\ rollout'[q].target = rollout[q].target
             /\ \A q \in Rollouts : Exists(q)' <=> rollout'[q].target # NoVersion
             /\ product # NoVersion
  <2>1. rollout[r] = NoRollout /\ admin.pc # "idle" /\ admin.target # NoVersion
    BY <1>8 DEF CreateRollout, AdminAt, Refs, AdminRule
  <2>2. PICK percentage \in Percentages :
           rollout' = [rollout EXCEPT ![r] = [status |-> "pending", target |-> admin.target,
                                              percentage |-> percentage, due |-> TRUE]]
    BY <1>8, Zenon DEF CreateRollout
  <2> QED BY <2>1, <2>2 DEF TypeOK, NoRollout, Exists, Refs, RowRule
<1> QED BY <1>1, <1>3, <1>4, <1>5, <1>6, <1>7, <1>8, Writers

\* The entries of a rollout that exists keep their batches, and none of them
\* becomes pending.
LEMMA EntriesStay ==
    ASSUME TypeOK, Refs, Next
    PROVE  \A q \in Rollouts, d \in Devices :
              Exists(q) => /\ entry'[q][d].batch = entry[q][d].batch
                           /\ entry'[q][d].state = "pending" => entry[q][d].state = "pending"
<1> DEFINE Kept == \A q \in Rollouts, d \in Devices :
              Exists(q) => /\ entry'[q][d].batch = entry[q][d].batch
                           /\ entry'[q][d].state = "pending" => entry[q][d].state = "pending"
<1>1. ASSUME NEW r \in Rollouts \cup {0}, NEW d \in Devices \cup {NoDevice},
             NEW s \in {"sent", "updated", "cancelled"}, SetEntry(r, d, s)
      PROVE  Kept
  BY <1>1, SetEntryType
<1>2. CASE UNCHANGED entry
  BY <1>2
<1>3. ASSUME NEW r \in Rollouts, CreateRollout(r) PROVE Kept
  <2>1. ~Exists(r)
    BY <1>3 DEF CreateRollout, NoRollout, Exists
  <2>2. \E new : entry' = [entry EXCEPT ![r] = new]
    BY <1>3, Zenon DEF CreateRollout
  <2> QED BY <2>1, <2>2 DEF TypeOK
<1>4. /\ worker.r \in Rollouts \cup {0} /\ worker.d \in Devices \cup {NoDevice}
      /\ handler.d \in Devices \cup {NoDevice}
      /\ admin.r \in Rollouts \cup {0} /\ admin.d \in Devices \cup {NoDevice}
      /\ asking.r \in Rollouts \cup {0} /\ asking.d \in Devices \cup {NoDevice}
  BY DEF TypeOK, Worker, Handler, Admin, Asking
<1>5. CASE MarkCancelled
  BY <1>1, <1>2, <1>4, <1>5, Zenon DEF MarkCancelled, Attempted
<1>6. CASE NoteUpdated \/ MarkSent
  BY <1>1, <1>4, <1>6, Zenon DEF NoteUpdated, MarkSent
<1>7. ASSUME NEW r \in Rollouts, MarkUpdated(r) PROVE Kept
  BY <1>1, <1>2, <1>4, <1>7, Zenon DEF MarkUpdated, Attempted
<1>8. CASE MarkAskedSent
  BY <1>1, <1>2, <1>4, <1>8, Zenon DEF MarkAskedSent, Attempted
<1> QED BY <1>2, <1>3, <1>5, <1>6, <1>7, <1>8, Writers

-----------------------------------------------------------------------------
(* What the goroutines hold goes on to exist *)

LEMMA WorkerRefs == ASSUME TypeOK, Refs, Next PROVE WorkerRule'
<1>0. /\ worker \in Worker /\ WorkerRule /\ worker.due \in SUBSET Rollouts
      /\ worker.todo \in SUBSET Devices
  BY DEF TypeOK, Refs, Worker
<1>1. /\ \A r \in Rollouts : Exists(r) => Exists(r)'
      /\ \A r \in Rollouts : Exists(r) => product # NoVersion
  BY RowsStay DEF Refs, RowRule
<1>2. CASE UNCHANGED worker
  BY <1>0, <1>1, <1>2 DEF WorkerRule
<1>3. CASE CrashAndRestart
  BY <1>3 DEF CrashAndRestart, IdleWorker, WorkerRule
<1>4. ASSUME NEW S \in SUBSET Rollouts, LoadDue(S) PROVE WorkerRule'
  <2>1. \A r \in S : Exists(r)
    BY <1>4 DEF LoadDue, Active, Exists
  <2>2. worker' = [IdleWorker EXCEPT !.pc = "next", !.due = S]
    BY <1>4, Zenon DEF LoadDue
  <2> QED BY <1>1, <2>1, <2>2 DEF IdleWorker, WorkerRule
<1>5. ASSUME NEW r \in Rollouts, LoadFirstPending(r) PROVE WorkerRule'
  <2>1. r \in worker.due
    BY <1>5, Zenon DEF LoadFirstPending
  <2>2. /\ worker'.pc \in {"targets", "count"} /\ worker'.r = r /\ worker'.due = worker.due \ {r}
    BY <1>0, <1>5 DEF LoadFirstPending, Worker
  <2> QED BY <1>0, <1>1, <2>1, <2>2 DEF WorkerRule
<1>6. CASE EndRollout
  BY <1>0, <1>1, <1>6 DEF EndRollout, IdleWorker, WorkerRule
<1>7. ASSUME worker.pc \notin {"idle", "next"},
             worker'.due = worker.due, worker'.r = worker.r,
             worker'.pc \notin {"note", "publish", "mark"} \/ worker'.d \in Devices,
             worker'.pc \in {"each", "note", "publish", "mark"} => worker'.image # NoVersion
      PROVE  WorkerRule'
  BY <1>0, <1>1, <1>7 DEF WorkerRule
<1>8. CASE LoadTargets
  <2>1. /\ worker.pc = "targets" /\ worker'.pc = "product"
        /\ worker'.due = worker.due /\ worker'.r = worker.r
    BY <1>0, <1>8 DEF LoadTargets, WorkerAt, Worker
  <2> QED BY <1>7, <2>1
<1>9. CASE LoadProduct
  <2>1. /\ worker.pc = "product" /\ worker'.pc \in {"count", "each"}
        /\ worker'.due = worker.due /\ worker'.r = worker.r /\ worker'.image = product
    BY <1>0, <1>9 DEF LoadProduct, WorkerAt, Worker
  <2>2. product # NoVersion
    BY <1>0, <1>1, <2>1 DEF WorkerRule
  <2> QED BY <1>7, <2>1, <2>2
<1>10. ASSUME NEW d \in Devices, CheckTarget(d) PROVE WorkerRule'
  <2>1. /\ worker.pc = "each" /\ worker'.pc \in {"note", "publish"} /\ worker'.d = d
        /\ worker'.due = worker.due /\ worker'.r = worker.r /\ worker'.image = worker.image
    BY <1>0, <1>10 DEF CheckTarget, WorkerAt, Worker
  <2> QED BY <1>0, <1>7, <2>1 DEF WorkerRule
<1>11. ASSUME EndTarget, worker.pc \in {"note", "mark"} PROVE WorkerRule'
  <2>1. /\ worker'.pc \in {"count", "each"}
        /\ worker'.due = worker.due /\ worker'.r = worker.r /\ worker'.image = worker.image
    BY <1>0, <1>11 DEF EndTarget, Worker
  <2> QED BY <1>0, <1>7, <1>11, <2>1 DEF WorkerRule
<1>12. CASE NoteUpdated \/ MarkSent
  BY <1>11, <1>12 DEF NoteUpdated, MarkSent, WorkerAt
<1>13. ASSUME worker.pc \notin {"idle", "next"}, WorkerGoto("fail") PROVE WorkerRule'
  BY <1>0, <1>7, <1>13 DEF WorkerGoto, Worker
<1>14. CASE PublishTarget
  <2>1. worker.pc = "publish" /\ (WorkerGoto("mark") \/ WorkerGoto("fail"))
    BY <1>14 DEF PublishTarget, WorkerAt
  <2>2. CASE WorkerGoto("mark")
    <3>1. /\ worker'.due = worker.due /\ worker'.r = worker.r /\ worker'.d = worker.d
          /\ worker'.image = worker.image
      BY <1>0, <2>2 DEF WorkerGoto, Worker
    <3> QED BY <1>0, <1>7, <2>1, <3>1 DEF WorkerRule
  <2> QED BY <1>13, <2>1, <2>2
<1>15. CASE CountEntries
  <2>1. /\ worker.pc = "count" /\ worker'.pc = "write"
        /\ worker'.due = worker.due /\ worker'.r = worker.r
    BY <1>0, <1>15 DEF CountEntries, WorkerAt, Worker
  <2> QED BY <1>7, <2>1
<1>16. CASE StatementFails
  BY <1>13, <1>16 DEF StatementFails
<1>17. CASE WorkerStep
  BY <1>4, <1>5, <1>6, <1>8, <1>9, <1>10, <1>12, <1>14, <1>15, <1>16, <1>17
     DEF WorkerStep, WriteRollout, FailRollout
<1> QED BY <1>2, <1>3, <1>17, Writers

\* What a step of the status handler does to its record, in terms of the rules.
LEMMA HandlerMoves ==
    ASSUME TypeOK, Refs, HandlerStep
    PROVE  \/ \E d \in Devices : /\ ReceiveStatus(d)
                                 /\ handler'.pc = "product" /\ handler'.d = d
                                 /\ handler'.ver = Head(mail[d]) /\ handler'.todo = {}
           \/ handler'.pc = "idle" /\ handler'.todo = {}
           \/ /\ handler.pc # "idle" /\ handler'.d = handler.d /\ handler'.ver = handler.ver
              /\ \A r \in handler'.todo : Exists(r)
              /\ \/ handler'.pc \in {"product", "clear", "matches", "each"}
                 \/ /\ handler'.pc \in {"mark", "count"}
                    /\ handler'.r \in Rollouts /\ Exists(handler'.r)
                    /\ handler'.pc = "mark" => handler.ver = rollout[handler'.r].target
                 \/ /\ CountForRefresh /\ handler.pc = "count" /\ handler'.pc = "write"
                    /\ handler'.r = handler.r
<1>0. handler \in Handler /\ HandlerRule /\ handler.todo \in SUBSET Rollouts
  BY DEF TypeOK, Refs, Handler
<1> DEFINE Stays == handler.pc # "idle" /\ handler'.d = handler.d /\ handler'.ver = handler.ver
<1>1. ASSUME NEW d \in Devices, ReceiveStatus(d)
      PROVE  /\ handler'.pc = "product" /\ handler'.d = d /\ handler'.ver = Head(mail[d])
             /\ handler'.todo = {}
  <2>1. handler' = [IdleHandler EXCEPT !.pc = "product", !.d = d, !.ver = Head(mail[d])]
    BY <1>1, Zenon DEF ReceiveStatus
  <2> QED BY <2>1 DEF IdleHandler
<1>2. ASSUME CheckProduct \/ ClearForProduct
      PROVE  Stays /\ handler'.todo = handler.todo /\ handler'.pc \in {"clear", "matches"}
  <2>1. handler.pc # "idle"
    BY <1>2 DEF CheckProduct, ClearForProduct, HandlerAt
  <2>2. \/ \E pc \in {"clear", "matches"} : handler' = [handler EXCEPT !.pc = pc]
        \/ handler' = [handler EXCEPT !.pc = "matches", !.cleared = TRUE]
    BY <1>2 DEF CheckProduct, ClearForProduct, HandlerGoto
  <2> QED BY <1>0, <2>1, <2>2 DEF Handler
<1>3. ASSUME NEW S, handler.pc # "idle", Remaining(S)
      PROVE  \/ handler'.pc = "idle" /\ handler'.todo = {}
             \/ Stays /\ handler'.pc = "each" /\ handler'.todo = S
  BY <1>0, <1>3 DEF Remaining, IdleHandler, Handler
<1>4. CASE LoadMatches
  <2>1. \A r \in Matching(handler.d) : Exists(r)
    BY DEF Matching, Active, Exists
  <2>2. handler.pc # "idle" /\ (Remaining(Matching(handler.d)) \/ Remaining({}))
    BY <1>4 DEF LoadMatches, HandlerAt
  <2>3. CASE Remaining(Matching(handler.d))
    BY <1>3, <2>1, <2>2, <2>3
  <2>4. CASE Remaining({})
    BY <1>3, <2>2, <2>4
  <2> QED BY <2>2, <2>3, <2>4
<1>5. ASSUME NEW r \in Rollouts, SkipMatch(r)
      PROVE  handler.pc # "idle" /\ Remaining(handler.todo \ {r})
  BY <1>5 DEF SkipMatch, HandlerAt
<1>6. ASSUME WriteRefresh PROVE handler.pc # "idle" /\ Remaining(handler.todo)
  BY <1>6 DEF WriteRefresh, HandlerAt
<1>7. \A r \in handler.todo : Exists(r)
  BY <1>0 DEF HandlerRule
<1>8. CASE WriteRefresh \/ \E r \in Rollouts : SkipMatch(r)
  <2>1. PICK S \in SUBSET handler.todo : handler.pc # "idle" /\ Remaining(S)
    BY <1>5, <1>6, <1>8
  <2> QED BY <1>3, <1>7, <2>1
<1>9. ASSUME NEW r \in Rollouts, ClearForMatch(r) \/ MarkUpdated(r)
      PROVE  /\ Stays /\ handler'.r = r /\ Exists(r)
             /\ \A q \in handler'.todo : Exists(q)
             /\ handler'.pc \in {"mark", "count"}
             /\ handler'.pc = "mark" => handler.ver = rollout[r].target
  <2>1. CASE ClearForMatch(r)
    <3>1. /\ handler.pc = "each" /\ r \in handler.todo /\ handler.ver = rollout[r].target
          /\ \E done \in BOOLEAN :
                handler' = [handler EXCEPT !.pc = "mark", !.r = r, !.todo = @ \ {r},
                                           !.cleared = done]
      BY <2>1, Zenon DEF ClearForMatch, HandlerAt, Reached
    <3>2. Stays /\ handler'.r = r /\ handler'.pc = "mark" /\ handler'.todo = handler.todo \ {r}
      BY <1>0, <3>1 DEF Handler
    <3> QED BY <1>7, <3>1, <3>2
  <2>2. CASE MarkUpdated(r)
    <3>1. handler' = [handler EXCEPT !.pc = "count", !.r = r, !.todo = @ \ {r}]
      BY <2>2, Zenon DEF MarkUpdated
    <3>2. (handler.pc = "mark" /\ r = handler.r) \/ (handler.pc = "each" /\ r \in handler.todo)
      <4>1. \/ HandlerAt("mark") /\ r = handler.r
            \/ HandlerAt("each") /\ r \in handler.todo /\ Reached(r) /\ handler.cleared
        BY <2>2, Zenon DEF MarkUpdated
      <4> QED BY <4>1 DEF HandlerAt
    <3>3. Stays /\ handler'.r = r /\ handler'.pc = "count" /\ handler'.todo = handler.todo \ {r}
      BY <1>0, <3>1, <3>2 DEF Handler
    <3> QED BY <1>0, <1>7, <3>2, <3>3 DEF HandlerRule
  <2> QED BY <1>9, <2>1, <2>2
<1>10. ASSUME CountForRefresh
       PROVE  /\ Stays /\ handler.pc = "count" /\ handler'.pc = "write"
              /\ handler'.r = handler.r /\ handler'.todo = handler.todo
  BY <1>0, <1>10 DEF CountForRefresh, HandlerAt, Handler
<1>11. CASE \E d \in Devices : ReceiveStatus(d)
  BY <1>1, <1>11
<1>12. CASE CheckProduct \/ ClearForProduct
  BY <1>2, <1>7, <1>12
<1>13. CASE \E r \in Rollouts : ClearForMatch(r) \/ MarkUpdated(r)
  BY <1>9, <1>13
<1>14. CASE CountForRefresh
  BY <1>7, <1>10, <1>14
<1> QED BY <1>4, <1>8, <1>11, <1>12, <1>13, <1>14 DEF HandlerStep

LEMMA HandlerRefs == ASSUME TypeOK, Refs, Next PROVE HandlerRule'
<1>0. HandlerRule /\ handler.todo \in SUBSET Rollouts
  BY DEF TypeOK, Refs, Handler
<1>1. \A r \in Rollouts : Exists(r) => Exists(r)'
  BY RowsStay
<1>2. CASE UNCHANGED handler
  BY <1>0, <1>1, <1>2 DEF HandlerRule
<1>3. CASE CrashAndRestart
  BY <1>3 DEF CrashAndRestart, IdleHandler, HandlerRule
<1>4. CASE HandlerStep
  <2>1. handler'.todo \in SUBSET Rollouts
    <3>1. TypeOK'
      BY <1>4, HandlerTypes
    <3> QED BY <3>1 DEF TypeOK, Handler
  <2>2. ASSUME NEW d \in Devices, ReceiveStatus(d) PROVE Head(mail[d]) # NoVersion
    <3>1. mail[d] \in Seq(Versions) /\ mail[d] # <<>>
      BY <2>2 DEF TypeOK, ReceiveStatus
    <3> QED BY <3>1, VersionAssumption
  <2> QED BY <1>0, <1>1, <1>4, <2>1, <2>2, HandlerMoves DEF HandlerRule
<1> QED BY <1>2, <1>3, <1>4, Writers

LEMMA AdminRefs ==
    ASSUME TypeOK, Refs, Next
    PROVE  AdminRule' /\ (admin'.pc # "idle" => product' # NoVersion)
<1>0. /\ admin \in Admin /\ AdminRule /\ admin.todo \in SUBSET Rollouts
      /\ admin.pc # "idle" => product # NoVersion
  BY DEF TypeOK, Refs, RowRule, Admin
<1>1. /\ \A r \in Rollouts : Exists(r) => Exists(r)'
      /\ product # NoVersion => product' # NoVersion
  BY RowsStay
<1> DEFINE Goal == AdminRule' /\ (admin'.pc # "idle" => product' # NoVersion)
<1>2. ASSUME admin.pc # "idle", admin'.target = admin.target,
             admin'.todo \subseteq admin.todo
      PROVE  Goal
  BY <1>0, <1>1, <1>2 DEF AdminRule
<1>3. CASE UNCHANGED admin
  BY <1>0, <1>1, <1>3 DEF AdminRule
<1>4. CASE admin' = IdleAdmin
  BY <1>4 DEF IdleAdmin, AdminRule
<1>5. CASE CrashAndRestart
  BY <1>4, <1>5 DEF CrashAndRestart
<1>6. CASE StartRollout
  <2>1. admin' = [IdleAdmin EXCEPT !.pc = "eligible", !.target = product] /\ product # NoVersion
        /\ product' = product
    BY <1>6, Zenon DEF StartRollout
  <2> QED BY <2>1 DEF IdleAdmin, AdminRule
<1>7. CASE CheckEligible
  <2>1. admin.pc = "eligible" /\ (AdminGoto("active") \/ GiveUpRollout)
    BY <1>7, Zenon DEF CheckEligible, AdminAt
  <2>2. CASE AdminGoto("active")
    BY <1>0, <1>2, <2>1, <2>2 DEF AdminGoto, Admin
  <2> QED BY <1>4, <2>1, <2>2 DEF GiveUpRollout
<1>8. CASE LoadActive
  <2> DEFINE active == {r \in Rollouts : Active(r)}
  <2>1. /\ admin.pc = "active" /\ admin'.todo = active /\ admin'.target = admin.target
    BY <1>0, <1>8 DEF LoadActive, AdminAt, Admin
  <2>2. \A r \in active : Exists(r)
    BY DEF Active, Exists
  <2> QED BY <1>0, <1>1, <2>1, <2>2 DEF AdminRule
<1>9. ASSUME NEW r \in Rollouts, CancelRollout(r) PROVE Goal
  <2>1. admin.pc = "cancel" /\ admin'.target = admin.target /\ admin'.todo \subseteq admin.todo
    BY <1>0, <1>9 DEF CancelRollout, AdminAt, Admin
  <2> QED BY <1>2, <2>1
<1>10. ASSUME NEW S, Clearing(S), admin.pc # "idle" PROVE Goal
  <2>1. admin'.target = admin.target /\ admin'.todo = admin.todo
    BY <1>0, <1>10 DEF Clearing, Admin
  <2> QED BY <1>2, <1>10, <2>1
<1>11. CASE LoadCancelled \/ MarkCancelled
  <2>1. admin.pc # "idle" /\ \E S \in SUBSET Devices : Clearing(S)
    <3>1. In(admin.r, {"pending", "sent"}) \in SUBSET Devices
          /\ admin.clearing \ {admin.d} \in SUBSET Devices /\ {} \in SUBSET Devices
      BY <1>0 DEF In, Admin
    <3> QED BY <1>11, <3>1 DEF LoadCancelled, MarkCancelled, AdminAt
  <2> QED BY <1>10, <2>1
<1>12. ASSUME NEW d \in Devices, ClearCancelled(d) PROVE Goal
  <2>1. /\ admin.pc = "clear"
        /\ admin' = [admin EXCEPT !.pc = "mark", !.d = d] \/ Clearing(admin.clearing \ {d})
    BY <1>12, Zenon DEF ClearCancelled, AdminAt
  <2>2. CASE admin' = [admin EXCEPT !.pc = "mark", !.d = d]
    BY <1>0, <1>2, <2>1, <2>2 DEF Admin
  <2> QED BY <1>10, <2>1, <2>2
<1>13. CASE RolloutRequestFails \/ \E r \in Rollouts : CreateRollout(r)
  BY <1>4, <1>13, Zenon DEF RolloutRequestFails, CreateRollout, GiveUpRollout
<1>14. ASSUME NEW v \in Uploads, UploadFirmware(v) PROVE UNCHANGED admin
  BY <1>14, Zenon DEF UploadFirmware
<1>15. CASE AdminStep
  BY <1>3, <1>6, <1>7, <1>8, <1>9, <1>11, <1>12, <1>13, <1>14, <1>15 DEF AdminStep
<1> QED BY <1>3, <1>5, <1>15, Writers

LEMMA AskingRefs == ASSUME TypeOK, Refs, Next PROVE AskingRule'
<1>0. asking \in Asking /\ AskingRule
  BY DEF TypeOK, Refs
<1>1. \A r \in Rollouts : Exists(r) => Exists(r)'
  BY RowsStay
<1>2. CASE UNCHANGED asking
  BY <1>0, <1>1, <1>2 DEF AskingRule
<1>3. CASE asking' = IdleAsking
  BY <1>3 DEF IdleAsking, AskingRule
<1>4. ASSUME NEW d \in Devices, AskForUpdate(d) PROVE AskingRule'
  <2>1. asking' = [IdleAsking EXCEPT !.pc = "publish", !.d = d, !.ver = product]
        /\ product # NoVersion
    BY <1>4, Zenon DEF AskForUpdate
  <2> QED BY <2>1 DEF IdleAsking, AskingRule
<1>5. CASE PublishAsked
  <2>1. asking.pc = "publish" /\ (asking' = [asking EXCEPT !.pc = "find"] \/ asking' = IdleAsking)
    BY <1>5, Zenon DEF PublishAsked
  <2>2. CASE asking' = [asking EXCEPT !.pc = "find"]
    BY <1>0, <2>1, <2>2 DEF AskingRule, Asking
  <2> QED BY <1>3, <2>1, <2>2
<1>6. CASE FindPendingEntry
  <2>1. /\ asking.pc = "find"
        /\ \/ asking' = IdleAsking
           \/ \E r \in Rollouts : Active(r) /\ asking' = [asking EXCEPT !.pc = "mark", !.r = r]
    BY <1>6 DEF FindPendingEntry
  <2>2. ASSUME NEW r \in Rollouts, Active(r), asking' = [asking EXCEPT !.pc = "mark", !.r = r]
        PROVE  AskingRule'
    <3>1. Exists(r)'
      BY <1>1, <2>2 DEF Active, Exists
    <3> QED BY <1>0, <2>1, <2>2, <3>1 DEF AskingRule, Asking
  <2> QED BY <1>3, <2>1, <2>2
<1>7. CASE MarkAskedSent \/ CrashAndRestart
  BY <1>3, <1>7 DEF MarkAskedSent, CrashAndRestart
<1>8. ASSUME NEW d \in Devices, DeleteDevice(d) \/ ClearDeleted(d) PROVE UNCHANGED asking
  BY <1>8, Zenon DEF DeleteDevice, ClearDeleted
<1> QED BY <1>2, <1>4, <1>5, <1>6, <1>7, <1>8, DeviceAssumption, Writers DEF UserStep

LEMMA RefsInit == Init => Refs
BY DEF Init, Refs, RowRule, WorkerRule, HandlerRule, AdminRule, AskingRule, NoRollout, Exists,
       IdleWorker, IdleHandler, IdleAdmin, IdleAsking

LEMMA TypeRefsStep == TypeOK /\ Refs /\ [Next]_vars => TypeOK' /\ Refs'
<1> SUFFICES ASSUME TypeOK, Refs, [Next]_vars PROVE TypeOK' /\ Refs'
  OBVIOUS
<1>1. CASE Next
  <2>1. TypeOK'
    BY <1>1, AdminTypes, WorkerTypes, HandlerTypes, OtherTypes DEF Next
  <2>2. RowRule'
    BY <1>1, RowsStay, AdminRefs DEF RowRule, Exists
  <2> QED BY <1>1, <2>1, <2>2, WorkerRefs, HandlerRefs, AdminRefs, AskingRefs DEF Refs
<1>2. CASE UNCHANGED vars
  <2>1. TypeOK'
    BY <1>2 DEF vars, tables, broker, field, TypeOK
  <2>2. Refs'
    BY <1>2 DEF vars, tables, broker, field, Refs, RowRule, WorkerRule, HandlerRule, AdminRule,
                AskingRule, Exists
  <2> QED BY <2>1, <2>2
<1> QED BY <1>1, <1>2

\* Every variable has its type, and what a goroutine works on exists.
THEOREM TypeCorrect == Spec => []TypeOK
<1>1. Init => TypeOK /\ Refs
  BY TypeInit, RefsInit
<1> QED BY <1>1, TypeRefsStep, PTL DEF Spec

-----------------------------------------------------------------------------
(* "updated" means that the device ran the target *)

\* What is known or under way of a device's version, it ran once.
RanRule ==
    /\ \A d \in Devices : /\ device[d].runs \in ran[d]
                          /\ device[d].said # NoVersion => device[d].said \in ran[d]
                          /\ known[d] # NoVersion => known[d] \in ran[d]
    /\ \A d \in Devices : \A i \in 1..Len(mail[d]) : mail[d][i] \in ran[d]
    /\ handler.pc # "idle" => handler.ver \in ran[handler.d]

\* The worker and the status handler write "updated" only for what was run.
UpdatedRule ==
    /\ UpdatedWasRun
    /\ handler.pc = "mark" => handler.ver = rollout[handler.r].target
    /\ worker.pc = "note" => rollout[worker.r].target \in ran[worker.d]

\* The history only grows, and with it goes what the device runs and said.
LEMMA RanGrows ==
    ASSUME TypeOK, RanRule, Next
    PROVE  \A d \in Devices : /\ ran[d] \subseteq ran'[d]
                              /\ device'[d].runs \in ran'[d]
                              /\ device'[d].said # NoVersion => device'[d].said \in ran'[d]
<1> DEFINE Goal == \A d \in Devices :
              /\ ran[d] \subseteq ran'[d]
              /\ device'[d].runs \in ran'[d]
              /\ device'[d].said # NoVersion => device'[d].said \in ran'[d]
<1>1. CASE UNCHANGED <<ran, device>>
  BY <1>1 DEF RanRule
<1>2. ASSUME NEW d \in Devices, DeviceReceives(d) \/ DeviceFlashes(d) \/ DeviceReports(d)
      PROVE  Goal
  <2> DEFINE old == device[d]
  <2>1. old \in [runs: Versions, queued: Command \cup {NoCommand}, said: Versions \cup {NoVersion}]
    BY DEF TypeOK
  <2>2. CASE DeviceReceives(d)
    <3>1. device' = [device EXCEPT ![d] = [old EXCEPT !.queued = retained[d]]] /\ ran' = ran
      BY <2>2, Zenon DEF DeviceReceives
    <3>2. /\ [old EXCEPT !.queued = retained[d]].runs = old.runs
          /\ [old EXCEPT !.queued = retained[d]].said = old.said
      <4> HIDE DEF old
      <4> QED BY <2>1
    <3> QED BY <3>1, <3>2 DEF TypeOK, RanRule
  <2>3. CASE DeviceFlashes(d)
    <3> DEFINE c == old.queued
               q == IF c.version = c.image THEN NoCommand ELSE c
               new == [old EXCEPT !.runs = c.image, !.queued = q]
    <3>1. /\ device' = [device EXCEPT ![d] = new]
          /\ ran' = [ran EXCEPT ![d] = ran[d] \cup {c.image}]
      BY <2>3, Zenon DEF DeviceFlashes
    <3>2. new.runs = c.image /\ new.said = old.said
      <4> HIDE DEF c, q, old
      <4> QED BY <2>1
    <3> HIDE DEF new, c
    <3> QED BY <3>1, <3>2 DEF TypeOK, RanRule
  <2>4. CASE DeviceReports(d)
    <3>1. device' = [device EXCEPT ![d] = [old EXCEPT !.said = old.runs]] /\ ran' = ran
      BY <2>4, Zenon DEF DeviceReports, broker
    <3>2. /\ [old EXCEPT !.said = old.runs].runs = old.runs
          /\ [old EXCEPT !.said = old.runs].said = old.runs
      <4> HIDE DEF old
      <4> QED BY <2>1
    <3> QED BY <3>1, <3>2 DEF TypeOK, RanRule
  <2> QED BY <1>2, <2>2, <2>3, <2>4
<1>3. \/ UNCHANGED <<ran, device>>
      \/ \E d \in Devices : DeviceReceives(d) \/ DeviceFlashes(d) \/ DeviceReports(d)
  BY Writers, Zenon
<1> QED BY <1>1, <1>2, <1>3

LEMMA RanStep == ASSUME TypeOK, Refs, RanRule, Next PROVE RanRule'
<1>0. /\ \A d \in Devices : mail[d] \in Seq(Versions)
      /\ \A d \in Devices : ran[d] \subseteq ran'[d]
      /\ mail \in [Devices -> Seq(Versions)] /\ known \in [Devices -> Versions \cup {NoVersion}]
  BY RanGrows DEF TypeOK
<1>1. ASSUME NEW d \in Devices, ReceiveStatus(d)
      PROVE  mail[d] # <<>> /\ Head(mail[d]) \in ran[d] /\ Len(mail[d]) \in Nat \ {0}
  <2>1. mail[d] # <<>>
    BY <1>1 DEF ReceiveStatus
  <2>2. Head(mail[d]) = mail[d][1] /\ Len(mail[d]) \in Nat \ {0}
    BY <1>0, <2>1
  <2> QED BY <2>1, <2>2 DEF RanRule
<1>2. \A d \in Devices : known'[d] # NoVersion => known'[d] \in ran'[d]
  <2>1. CASE UNCHANGED known
    BY <1>0, <2>1 DEF RanRule
  <2>2. ASSUME NEW d \in Devices, ReceiveStatus(d)
        PROVE  \A e \in Devices : known'[e] # NoVersion => known'[e] \in ran'[e]
    <3>1. known' = [known EXCEPT ![d] = Head(mail[d])] \/ known' = known
      BY <2>2, Zenon DEF ReceiveStatus, Attempted
    <3> QED BY <1>0, <1>1, <2>1, <2>2, <3>1 DEF RanRule
  <2> QED BY <2>1, <2>2, Writers
<1>3. \A d \in Devices : \A i \in 1..Len(mail'[d]) : mail'[d][i] \in ran'[d]
  <2> DEFINE Goal == \A d \in Devices : \A i \in 1..Len(mail'[d]) : mail'[d][i] \in ran'[d]
  <2>1. CASE UNCHANGED mail
    BY <1>0, <2>1 DEF RanRule
  <2>2. ASSUME NEW d \in Devices, ReceiveStatus(d) PROVE Goal
    <3>1. mail' = [mail EXCEPT ![d] = Tail(mail[d])]
      BY <2>2, Zenon DEF ReceiveStatus
    <3>2. \A i \in 1..Len(Tail(mail[d])) : Tail(mail[d])[i] \in ran[d]
      <4>1. /\ Len(Tail(mail[d])) = Len(mail[d]) - 1
            /\ \A i \in 1..Len(mail[d]) - 1 : Tail(mail[d])[i] = mail[d][i + 1]
        BY <1>0, <1>1, <2>2
      <4> QED BY <1>1, <2>2, <4>1 DEF RanRule
    <3> DEFINE rest == Tail(mail[d])
    <3>3. mail' = [mail EXCEPT ![d] = rest] /\ \A i \in 1..Len(rest) : rest[i] \in ran[d]
      BY <3>1, <3>2
    <3> HIDE DEF rest
    <3> QED BY <1>0, <3>3 DEF RanRule
  <2>3. ASSUME NEW d \in Devices, NEW v \in ran[d], mail' = [mail EXCEPT ![d] = Append(@, v)]
        PROVE  Goal
    <3>1. v \in Versions
      BY DEF TypeOK
    <3> DEFINE more == Append(mail[d], v)
    <3>2. \A i \in 1..Len(more) : more[i] \in ran[d]
      <4>1. /\ Len(more) = Len(mail[d]) + 1 /\ more[Len(mail[d]) + 1] = v
            /\ \A i \in 1..Len(mail[d]) : more[i] = mail[d][i]
        BY <1>0, <3>1
      <4>2. Len(mail[d]) \in Nat
        BY <1>0
      <4> HIDE DEF more
      <4> QED BY <4>1, <4>2 DEF RanRule
    <3>3. mail' = [mail EXCEPT ![d] = more]
      BY <2>3
    <3> HIDE DEF more
    <3> QED BY <1>0, <3>2, <3>3 DEF RanRule
  <2>4. ASSUME NEW d \in Devices, DeviceReports(d) \/ BrokerRepeats(d) PROVE Goal
    <3>1. \E v \in ran[d] : mail' = [mail EXCEPT ![d] = Append(@, v)]
      BY <2>4 DEF DeviceReports, BrokerRepeats, RanRule
    <3> QED BY <2>3, <3>1
  <2>5. CASE CrashAndRestart
    <3>1. mail' = [d \in Devices |-> <<>>]
      BY <2>5, Zenon DEF CrashAndRestart
    <3> QED BY <3>1
  <2> QED BY <2>1, <2>2, <2>4, <2>5, Writers
<1>4. handler'.pc # "idle" => handler'.ver \in ran'[handler'.d]
  <2>1. handler.pc # "idle" => handler.d \in Devices
    BY DEF Refs, HandlerRule
  <2>2. CASE UNCHANGED handler
    BY <1>0, <2>1, <2>2 DEF RanRule
  <2>3. CASE HandlerStep
    BY <1>0, <1>1, <2>1, <2>3, HandlerMoves DEF RanRule
  <2>4. CASE CrashAndRestart
    BY <2>4 DEF CrashAndRestart, IdleHandler
  <2> QED BY <2>2, <2>3, <2>4, Writers
<1> QED BY <1>2, <1>3, <1>4, RanGrows DEF RanRule

\* What a step of the worker that goes on with one device knows of it.
LEMMA WorkerNotes ==
    ASSUME TypeOK, Refs, RanRule, UpdatedRule, Next, worker'.pc = "note"
    PROVE  rollout'[worker'.r].target \in ran'[worker'.d]
<1>0. worker \in Worker /\ worker' \in Worker
  BY TypeRefsStep DEF TypeOK
<1>1. /\ \A d \in Devices : ran[d] \subseteq ran'[d]
      /\ \A r \in Rollouts : Exists(r) => rollout'[r].target = rollout[r].target
  BY RanGrows, RowsStay
<1>2. CASE UNCHANGED worker
  <2>1. worker.pc = "note" /\ worker.r \in Rollouts /\ Exists(worker.r) /\ worker.d \in Devices
    BY <1>2 DEF Refs, WorkerRule
  <2> QED BY <1>1, <1>2, <2>1 DEF UpdatedRule
<1>3. ASSUME NEW d \in Devices, CheckTarget(d) PROVE rollout'[worker'.r].target \in ran'[worker'.d]
  <2>1. /\ worker.pc = "each" /\ worker'.r = worker.r /\ worker'.d = d
        /\ known[d] = rollout[worker.r].target
    BY <1>0, <1>3 DEF CheckTarget, WorkerAt, Worker
  <2>2. worker.r \in Rollouts /\ Exists(worker.r) /\ rollout[worker.r].target # NoVersion
    BY <2>1 DEF Refs, WorkerRule, RowRule
  <2> QED BY <1>1, <2>1, <2>2 DEF RanRule
<1>4. ASSUME WorkerStep, \A d \in Devices : ~CheckTarget(d) PROVE FALSE
  <2>1. ~EndTarget /\ ~EndRollout
    <3>1. ASSUME NEW S, worker' = [IdleWorker EXCEPT !.pc = "next", !.due = S] PROVE FALSE
      BY <3>1 DEF IdleWorker
    <3>2. worker' # IdleWorker
      BY DEF IdleWorker
    <3>3. ~EndTarget
      BY <1>0 DEF EndTarget, Worker
    <3> QED BY <3>1, <3>2, <3>3 DEF EndRollout
  <2>2. \A pc : WorkerGoto(pc) => pc = "note"
    BY <1>0 DEF WorkerGoto, Worker
  <2>3. ~ \E S \in SUBSET Rollouts : LoadDue(S)
    <3>1. ASSUME NEW S, worker' = [IdleWorker EXCEPT !.pc = "next", !.due = S] PROVE FALSE
      BY <3>1 DEF IdleWorker
    <3> QED BY <3>1, Zenon DEF LoadDue
  <2>4. ~ \E r \in Rollouts : LoadFirstPending(r)
    BY <1>0 DEF LoadFirstPending, Worker
  <2>5. ~LoadTargets /\ ~LoadProduct /\ ~CountEntries
    BY <1>0 DEF LoadTargets, LoadProduct, CountEntries, Worker
  <2>6. ~NoteUpdated /\ ~MarkSent /\ ~WriteRollout /\ ~FailRollout
    BY <2>1, Zenon DEF NoteUpdated, MarkSent, WriteRollout, FailRollout
  <2>7. ~PublishTarget /\ ~StatementFails
    BY <2>2 DEF PublishTarget, StatementFails
  <2> QED BY <1>4, <2>3, <2>4, <2>5, <2>6, <2>7 DEF WorkerStep
<1>5. CASE CrashAndRestart
  BY <1>5 DEF CrashAndRestart, IdleWorker
<1> QED BY <1>2, <1>3, <1>4, <1>5, Writers

\* Who writes "updated" and "sent" into an entry.
LEMMA EntryWrites ==
    ASSUME TypeOK, Next, NEW r \in Rollouts, NEW d \in Devices,
           entry'[r][d].state \in {"updated", "sent"}
    PROVE  \/ entry[r][d].state = entry'[r][d].state
           \/ /\ entry'[r][d].state = "updated"
              /\ \/ worker.pc = "note" /\ worker.r = r /\ worker.d = d
                 \/ MarkUpdated(r) /\ handler.d = d
           \/ /\ entry'[r][d].state = "sent"
              /\ \/ worker.pc = "mark" /\ worker.r = r /\ worker.d = d
                 \/ asking.pc = "mark" /\ asking.d = d
<1> DEFINE was == entry[r][d].state
           is == entry'[r][d].state
<1>1. ASSUME NEW q \in Rollouts \cup {0}, NEW e \in Devices \cup {NoDevice},
             NEW s \in {"sent", "updated", "cancelled"}, SetEntry(q, e, s)
      PROVE  is = was \/ (q = r /\ e = d /\ is = s)
  BY <1>1, SetEntryType
<1>2. CASE UNCHANGED entry
  BY <1>2
<1>3. ASSUME NEW q \in Rollouts, CreateRollout(q) PROVE is = was
  <2> DEFINE E == Eligible(admin.target)
  <2>1. PICK order \in Orders(E), p \in Percentages :
           entry' = [entry EXCEPT ![q] = NewEntries(E, order, BatchSize(Cardinality(E), p))]
    BY <1>3 DEF CreateRollout
  <2> DEFINE new == NewEntries(E, order, BatchSize(Cardinality(E), p))
  <2>2. new[d].state \in {"none", "pending"}
    <3>1. E \in SUBSET Devices /\ E # {}
      BY <1>3 DEF CreateRollout, Eligible
    <3> HIDE DEF E
    <3> QED BY <3>1, NewEntriesType
  <2>3. entry' = [entry EXCEPT ![q] = new]
    BY <2>1
  <2> HIDE DEF new
  <2> QED BY <2>2, <2>3 DEF TypeOK
<1>4. /\ worker.r \in Rollouts \cup {0} /\ worker.d \in Devices \cup {NoDevice}
      /\ handler.d \in Devices \cup {NoDevice}
      /\ admin.r \in Rollouts \cup {0} /\ admin.d \in Devices \cup {NoDevice}
      /\ asking.r \in Rollouts \cup {0} /\ asking.d \in Devices \cup {NoDevice}
  BY DEF TypeOK, Worker, Handler, Admin, Asking
<1>5. CASE MarkCancelled
  <2>1. SetEntry(admin.r, admin.d, "cancelled") \/ UNCHANGED entry
    BY <1>5, Zenon DEF MarkCancelled, Attempted
  <2> QED BY <1>1, <1>2, <1>4, <2>1
<1>6. CASE NoteUpdated
  <2>1. worker.pc = "note" /\ SetEntry(worker.r, worker.d, "updated")
    BY <1>6, Zenon DEF NoteUpdated, WorkerAt
  <2> QED BY <1>1, <1>4, <2>1
<1>7. CASE MarkSent
  <2>1. worker.pc = "mark" /\ SetEntry(worker.r, worker.d, "sent")
    BY <1>7, Zenon DEF MarkSent, WorkerAt
  <2> QED BY <1>1, <1>4, <2>1
<1>8. ASSUME NEW q \in Rollouts, MarkUpdated(q)
      PROVE  is = was \/ (is = "updated" /\ MarkUpdated(r) /\ handler.d = d)
  <2>1. SetEntry(q, handler.d, "updated") \/ UNCHANGED entry
    BY <1>8, Zenon DEF MarkUpdated, Attempted
  <2> QED BY <1>1, <1>2, <1>4, <1>8, <2>1
<1>9. CASE MarkAskedSent
  <2>1. asking.pc = "mark" /\ (SetEntry(asking.r, asking.d, "sent") \/ UNCHANGED entry)
    BY <1>9, Zenon DEF MarkAskedSent, Attempted
  <2> QED BY <1>1, <1>2, <1>4, <2>1
<1>10. \/ UNCHANGED entry
       \/ \E q \in Rollouts : CreateRollout(q) \/ MarkUpdated(q)
       \/ MarkCancelled \/ NoteUpdated \/ MarkSent \/ MarkAskedSent
  BY Writers, Zenon
<1> QED BY <1>2, <1>3, <1>5, <1>6, <1>7, <1>8, <1>9, <1>10

LEMMA UpdatedStep == ASSUME TypeOK, Refs, RanRule, UpdatedRule, Next PROVE UpdatedRule'
<1>1. /\ \A d \in Devices : ran[d] \subseteq ran'[d]
      /\ \A r \in Rollouts : Exists(r) => rollout'[r].target = rollout[r].target
  BY RanGrows, RowsStay
<1>2. ASSUME NEW r \in Rollouts, NEW d \in Devices, entry'[r][d].state = "updated"
      PROVE  rollout'[r].target \in ran'[d]
  <2>1. rollout[r].target \in ran[d] => Exists(r)
    <3>1. ran[d] \in SUBSET Versions
      BY DEF TypeOK
    <3> QED BY <3>1, VersionAssumption DEF Refs, RowRule
  <2>2. CASE entry[r][d].state = "updated"
    BY <1>1, <2>1, <2>2 DEF UpdatedRule, UpdatedWasRun
  <2>3. CASE worker.pc = "note" /\ worker.r = r /\ worker.d = d
    BY <1>1, <2>1, <2>3 DEF UpdatedRule
  <2>4. CASE MarkUpdated(r) /\ handler.d = d
    <3>1. \/ handler.pc = "mark" /\ r = handler.r
          \/ handler.pc = "each" /\ handler.ver = rollout[r].target
      <4>1. \/ HandlerAt("mark") /\ r = handler.r
            \/ HandlerAt("each") /\ r \in handler.todo /\ Reached(r) /\ handler.cleared
        BY <2>4, Zenon DEF MarkUpdated
      <4> QED BY <4>1, Zenon DEF HandlerAt, Reached
    <3> QED BY <1>1, <2>1, <2>4, <3>1 DEF UpdatedRule, RanRule
  <2> QED BY <1>2, <2>2, <2>3, <2>4, EntryWrites
<1>3. handler'.pc = "mark" => handler'.ver = rollout'[handler'.r].target
  <2>1. CASE UNCHANGED handler
    BY <1>1, <2>1 DEF UpdatedRule, Refs, HandlerRule
  <2>2. CASE HandlerStep
    BY <1>1, <2>2, HandlerMoves
  <2>3. CASE CrashAndRestart
    BY <2>3 DEF CrashAndRestart, IdleHandler
  <2>4. UNCHANGED handler \/ HandlerStep \/ CrashAndRestart
    BY Writers, Zenon
  <2> QED BY <2>1, <2>2, <2>3, <2>4
<1> QED BY <1>2, <1>3, WorkerNotes DEF UpdatedRule, UpdatedWasRun

\* Whatever is reported late, lost, repeated or overwritten, "updated" is
\* recorded only for a device that has run the rollout's target.
THEOREM UpdatedRan == Spec => []UpdatedWasRun
<1> DEFINE Inv == TypeOK /\ Refs /\ RanRule /\ UpdatedRule
<1>1. Init => Inv
  <2> SUFFICES ASSUME Init PROVE Inv
    OBVIOUS
  <2>1. RanRule
    BY DEF Init, RanRule, IdleHandler
  <2>2. UpdatedRule
    BY DEF Init, UpdatedRule, UpdatedWasRun, NoEntry, IdleHandler, IdleWorker
  <2> QED BY <2>1, <2>2, TypeInit, RefsInit
<1>2. Inv /\ [Next]_vars => Inv'
  <2>1. Inv /\ Next => Inv'
    BY TypeRefsStep, RanStep, UpdatedStep
  <2>2. ASSUME Inv, UNCHANGED vars PROVE Inv'
    <3>1. UNCHANGED <<device, ran, mail, known, handler, worker, entry, rollout>>
      BY <2>2, Zenon DEF vars, tables, field
    <3>2. RanRule'
      BY <2>2, <3>1 DEF RanRule
    <3>3. UpdatedRule'
      BY <2>2, <3>1 DEF UpdatedRule, UpdatedWasRun
    <3> QED BY <2>2, <3>2, <3>3, TypeRefsStep
  <2> QED BY <2>1, <2>2
<1>3. Inv => UpdatedWasRun
  BY DEF UpdatedRule
<1> QED BY <1>1, <1>2, <1>3, PTL DEF Spec

-----------------------------------------------------------------------------
(* "sent" means that a command was published *)

SentRule ==
    /\ SentWasCommanded
    /\ worker.pc = "mark" => CommandedBy(worker.d, worker.r)
    /\ asking.pc \in {"find", "mark"} => CommandedBy(asking.d, 0)

LEMMA ToldGrows == ASSUME Next PROVE told \subseteq told'
<1>1. ASSUME NEW d, NEW c, Publish(d, c) PROVE told \subseteq told'
  BY <1>1 DEF Publish
<1>2. ASSUME UNCHANGED broker PROVE told \subseteq told'
  BY <1>2 DEF broker
<1>3. ASSUME NEW d, NEW c, PublishFails(d, c) PROVE told \subseteq told'
  BY <1>1, <1>2, <1>3 DEF PublishFails
<1>4. CASE AdminStep
  <2>1. UNCHANGED broker \/ \E d \in Devices : Publish(d, NoCommand) \/ PublishFails(d, NoCommand)
    BY <1>4, Zenon
       DEF AdminStep, UploadFirmware, StartRollout, CheckEligible, LoadActive, LoadCancelled,
           MarkCancelled, RolloutRequestFails, CancelRollout, CreateRollout, ClearCancelled
  <2> QED BY <1>1, <1>2, <1>3, <2>1
<1>5. CASE WorkerStep
  <2>1. UNCHANGED broker \/ Publish(worker.d, OwnCommand) \/ PublishFails(worker.d, OwnCommand)
    BY <1>5, Zenon
       DEF WorkerStep, LoadDue, LoadFirstPending, LoadTargets, LoadProduct, CheckTarget,
           NoteUpdated, PublishTarget, MarkSent, CountEntries, WriteRollout, StatementFails,
           FailRollout
  <2> QED BY <1>1, <1>2, <1>3, <2>1
<1>6. CASE HandlerStep
  <2>1. UNCHANGED broker \/ Publish(handler.d, NoCommand) \/ PublishFails(handler.d, NoCommand)
    BY <1>6, Zenon
       DEF HandlerStep, ReceiveStatus, CheckProduct, ClearForProduct, LoadMatches, SkipMatch,
           ClearForMatch, MarkUpdated, CountForRefresh, WriteRefresh
  <2> QED BY <1>1, <1>2, <1>3, <2>1
<1>7. CASE UserStep
  <2>1. UNCHANGED broker \/ \E d, c : Publish(d, c) \/ PublishFails(d, c)
    BY <1>7, Zenon
       DEF UserStep, AskForUpdate, PublishAsked, FindPendingEntry, MarkAskedSent, DeleteDevice,
           ClearDeleted
  <2> QED BY <1>1, <1>2, <1>3, <2>1
<1>8. CASE FieldStep \/ CrashAndRestart
  <2>1. UNCHANGED broker
    BY <1>8, Zenon
       DEF FieldStep, DeviceReceives, DeviceFlashes, DeviceReports, BrokerRepeats, CrashAndRestart
  <2> QED BY <1>2, <2>1
<1> QED BY <1>4, <1>5, <1>6, <1>7, <1>8 DEF Next

LEMMA StaysCommanded ==
    ASSUME Next, NEW d, NEW r, CommandedBy(d, r)
    PROVE  CommandedBy(d, r)'
BY ToldGrows DEF CommandedBy

\* The worker marks a device only after the publish that was acknowledged.
LEMMA WorkerMarks ==
    ASSUME TypeOK, Refs, SentRule, Next, worker'.pc = "mark"
    PROVE  CommandedBy(worker.d, worker.r)'
<1>0. worker \in Worker
  BY DEF TypeOK
<1>1. CASE UNCHANGED worker
  <2>1. worker.pc = "mark" /\ worker'.d = worker.d /\ worker'.r = worker.r
    BY <1>1
  <2> QED BY <2>1, ToldGrows DEF SentRule, CommandedBy
<1>2. CASE PublishTarget
  <2>1. worker.pc = "publish" /\ (WorkerGoto("fail") \/ (WorkerGoto("mark") /\ Publish(worker.d, OwnCommand)))
    BY <1>2, Zenon DEF PublishTarget, WorkerAt
  <2>2. Publish(worker.d, OwnCommand) /\ worker'.d = worker.d /\ worker'.r = worker.r
    BY <1>0, <2>1 DEF WorkerGoto, Worker
  <2>3. OwnCommand \in Command /\ OwnCommand.by = worker.r
    BY <1>0, <2>1 DEF TypeOK, Refs, WorkerRule, RowRule, OwnCommand, Command, Worker, RolloutRow
  <2>4. <<worker.d, OwnCommand>> \in told'
    BY <2>2, <2>3, CommandAssumption DEF Publish
  <2> QED BY <2>2, <2>3, <2>4 DEF CommandedBy
<1>3. ASSUME WorkerStep, ~PublishTarget PROVE FALSE
  <2>1. ~EndTarget /\ ~EndRollout
    <3>1. ASSUME NEW S, worker' = [IdleWorker EXCEPT !.pc = "next", !.due = S] PROVE FALSE
      BY <3>1 DEF IdleWorker
    <3>2. worker' # IdleWorker
      BY DEF IdleWorker
    <3>3. ~EndTarget
      BY <1>0 DEF EndTarget, Worker
    <3> QED BY <3>1, <3>2, <3>3 DEF EndRollout
  <2>2. ~WorkerGoto("fail")
    BY <1>0 DEF WorkerGoto, Worker
  <2>3. ~ \E S \in SUBSET Rollouts : LoadDue(S)
    <3>1. ASSUME NEW S, worker' = [IdleWorker EXCEPT !.pc = "next", !.due = S] PROVE FALSE
      BY <3>1 DEF IdleWorker
    <3> QED BY <3>1, Zenon DEF LoadDue
  <2>4. ~ \E r \in Rollouts : LoadFirstPending(r)
    BY <1>0 DEF LoadFirstPending, Worker
  <2>5. ~LoadTargets /\ ~LoadProduct /\ ~CountEntries
    BY <1>0 DEF LoadTargets, LoadProduct, CountEntries, Worker
  <2>6. ~NoteUpdated /\ ~MarkSent /\ ~WriteRollout /\ ~FailRollout
    BY <2>1, Zenon DEF NoteUpdated, MarkSent, WriteRollout, FailRollout
  <2>7. ~StatementFails /\ ~ \E d \in Devices : CheckTarget(d)
    BY <1>0, <2>2 DEF StatementFails, CheckTarget, Worker
  <2> QED BY <1>3, <2>3, <2>4, <2>5, <2>6, <2>7 DEF WorkerStep
<1>4. CASE CrashAndRestart
  BY <1>4 DEF CrashAndRestart, IdleWorker
<1>5. UNCHANGED worker \/ WorkerStep \/ CrashAndRestart
  BY Writers, Zenon
<1> QED BY <1>1, <1>2, <1>3, <1>4, <1>5

LEMMA SentStep == ASSUME TypeOK, Refs, SentRule, Next PROVE SentRule'
<1>1. ASSUME NEW r \in Rollouts, NEW d \in Devices, entry'[r][d].state = "sent"
      PROVE  CommandedBy(d, r)' \/ CommandedBy(d, 0)'
  <2>1. \/ entry[r][d].state = "sent"
        \/ worker.pc = "mark" /\ worker.r = r /\ worker.d = d
        \/ asking.pc = "mark" /\ asking.d = d
    BY <1>1, EntryWrites
  <2>2. CommandedBy(d, r) \/ CommandedBy(d, 0)
    BY <2>1 DEF SentRule, SentWasCommanded, In
  <2> QED BY <2>2, StaysCommanded
<1>2. asking'.pc \in {"find", "mark"} => CommandedBy(asking.d, 0)'
  <2>0. asking \in Asking
    BY DEF TypeOK
  <2>1. CASE UNCHANGED asking
    BY <2>1, ToldGrows DEF SentRule, CommandedBy
  <2>2. CASE asking' = IdleAsking
    BY <2>2 DEF IdleAsking
  <2>3. ASSUME NEW d \in Devices, AskForUpdate(d) PROVE asking'.pc = "publish"
    <3>1. asking' = [IdleAsking EXCEPT !.pc = "publish", !.d = d, !.ver = product]
      BY <2>3, Zenon DEF AskForUpdate
    <3> QED BY <3>1 DEF IdleAsking
  <2>4. CASE PublishAsked
    <3> DEFINE c == [version |-> asking.ver, image |-> asking.ver, by |-> 0]
    <3>1. /\ asking.pc = "publish"
          /\ asking' = IdleAsking
             \/ (asking' = [asking EXCEPT !.pc = "find"] /\ Publish(asking.d, c))
      BY <2>4, Zenon DEF PublishAsked
    <3>2. c \in Command /\ c.by = 0
      BY <2>0, <3>1 DEF Refs, AskingRule, Asking, Command
    <3>3. CASE asking' = [asking EXCEPT !.pc = "find"] /\ Publish(asking.d, c)
      <4>1. <<asking.d, c>> \in told'
        <5> HIDE DEF c
        <5> QED BY <3>2, <3>3, CommandAssumption DEF Publish
      <4>2. asking'.d = asking.d
        BY <2>0, <3>3 DEF Asking
      <4> HIDE DEF c
      <4> QED BY <3>2, <4>1, <4>2 DEF CommandedBy
    <3> QED BY <2>2, <3>1, <3>3
  <2>5. CASE FindPendingEntry
    <3>1. /\ asking.pc = "find"
          /\ asking' = IdleAsking \/ \E r \in Rollouts : asking' = [asking EXCEPT !.pc = "mark", !.r = r]
      BY <2>5 DEF FindPendingEntry
    <3>2. CASE \E r \in Rollouts : asking' = [asking EXCEPT !.pc = "mark", !.r = r]
      <4>1. asking'.d = asking.d
        BY <2>0, <3>2 DEF Asking
      <4> QED BY <3>1, <4>1, ToldGrows DEF SentRule, CommandedBy
    <3> QED BY <2>2, <3>1, <3>2
  <2>6. CASE MarkAskedSent \/ CrashAndRestart
    BY <2>2, <2>6 DEF MarkAskedSent, CrashAndRestart
  <2>7. ASSUME NEW d \in Devices, DeleteDevice(d) \/ ClearDeleted(d) PROVE UNCHANGED asking
    BY <2>7, Zenon DEF DeleteDevice, ClearDeleted
  <2>8. UNCHANGED asking \/ UserStep \/ CrashAndRestart
    BY Writers, Zenon
  <2> QED BY <2>1, <2>3, <2>4, <2>5, <2>6, <2>7, <2>8, DeviceAssumption DEF UserStep
<1>3. SentWasCommanded'
  BY <1>1, Zenon DEF SentWasCommanded, In, Rollouts
<1> QED BY <1>2, <1>3, WorkerMarks DEF SentRule

\* "sent" is recorded only for a device for which a command of that rollout, or
\* one its owner asked for, was published, through failing publishes, crashes
\* and requests beside the worker.
THEOREM SentCommanded == Spec => []SentWasCommanded
<1> DEFINE Inv == TypeOK /\ Refs /\ SentRule
<1>1. Init => Inv
  <2> SUFFICES ASSUME Init PROVE SentRule
    BY TypeInit, RefsInit
  <2> QED BY DEF Init, SentRule, SentWasCommanded, In, NoEntry, IdleWorker, IdleAsking
<1>2. Inv /\ [Next]_vars => Inv'
  <2>1. Inv /\ Next => Inv'
    BY TypeRefsStep, SentStep
  <2>2. ASSUME Inv, UNCHANGED vars PROVE Inv'
    <3>1. UNCHANGED <<told, entry, worker, asking>>
      BY <2>2, Zenon DEF vars, tables, broker
    <3>2. SentRule'
      BY <2>2, <3>1 DEF SentRule, SentWasCommanded, CommandedBy, In
    <3> QED BY <2>2, <3>2, TypeRefsStep
  <2> QED BY <2>1, <2>2
<1>3. Inv => SentWasCommanded
  BY DEF SentRule
<1> QED BY <1>1, <1>2, <1>3, PTL DEF Spec

-----------------------------------------------------------------------------
(* A completed rollout has nobody left to command *)

\* The counts under way are still true when they are written.
CountRule ==
    /\ CompletedHasNoPending
    /\ ~ReadsFail /\ worker.pc = "write" /\ ~worker.counts.pending
          => In(worker.r, {"pending"}) = {}
    /\ ~ReadsFail /\ handler.pc = "write" /\ ~handler.counts.pending
          => In(handler.r, {"pending"}) = {}

\* "completed" is written by the worker or the status handler, by their counts.
LEMMA CompletedWrites ==
    ASSUME TypeOK, Refs, Next, NEW r \in Rollouts, rollout'[r].status = "completed"
    PROVE  \/ rollout[r].status = "completed"
           \/ worker.pc = "write" /\ worker.r = r /\ ~worker.counts.pending
           \/ handler.pc = "write" /\ handler.r = r /\ ~handler.counts.pending
<1>1. ASSUME NEW q \in Rollouts \cup {0}, NEW b \in BOOLEAN,
             NEW s \in {"running", "completed", "cancelled", "failed"},
             \/ rollout' = [rollout EXCEPT ![q].status = s, ![q].due = b]
             \/ rollout' = [rollout EXCEPT ![q].status = s]
      PROVE  rollout[r].status = "completed" \/ (q = r /\ s = "completed")
  BY ZenonT(60), <1>1, SetStatusType
<1>2. worker.r \in Rollouts \cup {0} /\ handler.r \in Rollouts \cup {0}
  BY DEF TypeOK, Worker, Handler
<1>3. ASSUME NEW q \in Rollouts, CancelRollout(q) PROVE rollout[r].status = "completed"
  <2>1. rollout' = [rollout EXCEPT ![q].status = "cancelled", ![q].due = FALSE]
    BY <1>3, Zenon DEF CancelRollout
  <2> QED BY <1>1, <2>1
<1>4. ASSUME NEW q \in Rollouts, CreateRollout(q) PROVE rollout[r].status = "completed"
  <2>1. PICK percentage \in Percentages :
           rollout' = [rollout EXCEPT ![q] = [status |-> "pending", target |-> admin.target,
                                              percentage |-> percentage, due |-> TRUE]]
    BY <1>4, Zenon DEF CreateRollout
  <2> QED BY <2>1 DEF TypeOK
<1>5. CASE WriteRollout
  <2> DEFINE b == worker.batch # 0 /\ worker.counts.pending
  <2>1. worker.pc = "write"
        /\ rollout' = [rollout EXCEPT ![worker.r].status = Finished(worker.counts),
                                      ![worker.r].due = b]
    BY <1>5, Zenon DEF WriteRollout, WorkerAt
  <2>2. b \in BOOLEAN /\ Finished(worker.counts) \in {"running", "completed"}
    BY DEF TypeOK, Worker, Counts, Finished
  <2>3. rollout[r].status = "completed" \/ (worker.r = r /\ Finished(worker.counts) = "completed")
    <3> HIDE DEF b
    <3> QED BY <1>1, <1>2, <2>1, <2>2
  <2> QED BY <2>1, <2>3 DEF Finished
<1>6. CASE FailRollout
  <2>1. UNCHANGED rollout \/ rollout' = [rollout EXCEPT ![worker.r].status = "failed"]
    BY <1>6, Zenon DEF FailRollout, Attempted
  <2> QED BY <1>1, <1>2, <2>1
<1>7. CASE WriteRefresh
  <2>1. /\ handler.pc = "write"
        /\ \/ UNCHANGED rollout
           \/ rollout' = [rollout EXCEPT ![handler.r].status = Finished(handler.counts),
                                         ![handler.r].due = FALSE]
    BY <1>7, Zenon DEF WriteRefresh, HandlerAt, Attempted
  <2>2. Finished(handler.counts) \in {"running", "completed"}
    BY DEF Finished
  <2>3. rollout[r].status = "completed" \/ (handler.r = r /\ Finished(handler.counts) = "completed")
    BY <1>1, <1>2, <2>1, <2>2
  <2> QED BY <2>1, <2>3 DEF Finished
<1>8. \/ UNCHANGED rollout
      \/ \E q \in Rollouts : CancelRollout(q) \/ CreateRollout(q)
      \/ WriteRollout \/ FailRollout \/ WriteRefresh
  BY Writers, Zenon
<1> QED BY <1>3, <1>4, <1>5, <1>6, <1>7, <1>8

\* The pending entries of a rollout that exists only grow fewer.
LEMMA PendingShrinks ==
    ASSUME TypeOK, Refs, Next, NEW r \in Rollouts, Exists(r)
    PROVE  \A d \in Devices : entry'[r][d].state = "pending" => entry[r][d].state = "pending"
BY EntriesStay

\* The worker writes what it counted.
LEMMA WorkerCounts ==
    ASSUME TypeOK, Refs, CountRule, Next, ~ReadsFail,
           worker'.pc = "write", ~worker'.counts.pending
    PROVE  \A d \in Devices : entry'[worker'.r][d].state # "pending"
<1>0. worker \in Worker
  BY DEF TypeOK
<1>1. CASE UNCHANGED worker
  <2>1. worker.r \in Rollouts /\ Exists(worker.r) /\ In(worker.r, {"pending"}) = {}
    BY <1>1 DEF CountRule, Refs, WorkerRule
  <2>2. \A d \in Devices : entry'[worker.r][d].state # "pending"
    BY <2>1, PendingShrinks DEF In
  <2> QED BY <1>1, <2>2
<1>2. CASE CountEntries
  <2>1. PICK c \in Counts : Counted(worker.r, c)
                            /\ worker' = [worker EXCEPT !.pc = "write", !.counts = c]
    BY <1>2, Zenon DEF CountEntries
  <2>2. entry' = entry /\ worker.pc = "count"
    BY <1>2, Zenon DEF CountEntries, WorkerAt
  <2>3. worker'.r = worker.r /\ ~c.pending
    BY <1>0, <2>1 DEF Worker
  <2>4. In(worker.r, {"pending"}) = {}
    BY <2>1, <2>3 DEF Counted, CountsOf
  <2>5. \A d \in Devices : entry[worker.r][d].state # "pending"
    BY <2>4 DEF In
  <2> QED BY <2>2, <2>3, <2>5
<1>3. ASSUME WorkerStep, ~CountEntries PROVE FALSE
  <2>1. ~EndTarget /\ ~EndRollout
    <3>1. ASSUME NEW S, worker' = [IdleWorker EXCEPT !.pc = "next", !.due = S] PROVE FALSE
      BY <3>1 DEF IdleWorker
    <3>2. worker' # IdleWorker
      BY DEF IdleWorker
    <3>3. ~EndTarget
      BY <1>0 DEF EndTarget, Worker
    <3> QED BY <3>1, <3>2, <3>3 DEF EndRollout
  <2>2. ~WorkerGoto("fail") /\ ~WorkerGoto("mark")
    BY <1>0 DEF WorkerGoto, Worker
  <2>3. ~ \E S \in SUBSET Rollouts : LoadDue(S)
    <3>1. ASSUME NEW S, worker' = [IdleWorker EXCEPT !.pc = "next", !.due = S] PROVE FALSE
      BY <3>1 DEF IdleWorker
    <3> QED BY <3>1, Zenon DEF LoadDue
  <2>4. ~ \E r \in Rollouts : LoadFirstPending(r)
    BY <1>0 DEF LoadFirstPending, Worker
  <2>5. ~LoadTargets /\ ~LoadProduct
    BY <1>0 DEF LoadTargets, LoadProduct, Worker
  <2>6. ~NoteUpdated /\ ~MarkSent /\ ~WriteRollout /\ ~FailRollout
    BY <2>1, Zenon DEF NoteUpdated, MarkSent, WriteRollout, FailRollout
  <2>7. ~StatementFails /\ ~PublishTarget /\ ~ \E d \in Devices : CheckTarget(d)
    BY <1>0, <2>2 DEF StatementFails, PublishTarget, CheckTarget, Worker
  <2> QED BY <1>3, <2>3, <2>4, <2>5, <2>6, <2>7 DEF WorkerStep
<1>4. CASE CrashAndRestart
  BY <1>4 DEF CrashAndRestart, IdleWorker
<1>5. UNCHANGED worker \/ WorkerStep \/ CrashAndRestart
  BY Writers, Zenon
<1> QED BY <1>1, <1>2, <1>3, <1>4, <1>5

\* So does the status handler.
LEMMA HandlerCounts ==
    ASSUME TypeOK, Refs, CountRule, Next, ~ReadsFail,
           handler'.pc = "write", ~handler'.counts.pending
    PROVE  \A d \in Devices : entry'[handler'.r][d].state # "pending"
<1>0. handler \in Handler
  BY DEF TypeOK
<1>1. CASE UNCHANGED handler
  <2>1. handler.r \in Rollouts /\ Exists(handler.r) /\ In(handler.r, {"pending"}) = {}
    BY <1>1 DEF CountRule, Refs, HandlerRule
  <2>2. \A d \in Devices : entry'[handler.r][d].state # "pending"
    BY <2>1, PendingShrinks DEF In
  <2> QED BY <1>1, <2>2
<1>2. CASE CountForRefresh
  <2>1. PICK c \in Counts : Counted(handler.r, c)
                            /\ handler' = [handler EXCEPT !.pc = "write", !.counts = c]
    BY <1>2, Zenon DEF CountForRefresh
  <2>2. entry' = entry
    BY <1>2, Zenon DEF CountForRefresh
  <2>3. handler'.r = handler.r /\ ~c.pending
    BY <1>0, <2>1 DEF Handler
  <2>4. In(handler.r, {"pending"}) = {}
    BY <2>1, <2>3 DEF Counted, CountsOf
  <2>5. \A d \in Devices : entry[handler.r][d].state # "pending"
    BY <2>4 DEF In
  <2> QED BY <2>2, <2>3, <2>5
<1>3. CASE CrashAndRestart
  BY <1>3 DEF CrashAndRestart, IdleHandler
<1>4. CASE HandlerStep
  BY <1>2, <1>4, HandlerMoves
<1>5. UNCHANGED handler \/ HandlerStep \/ CrashAndRestart
  BY Writers, Zenon
<1> QED BY <1>1, <1>3, <1>4, <1>5

LEMMA CountStep == ASSUME TypeOK, Refs, CountRule, Next PROVE CountRule'
<1>1. ASSUME NEW r \in Rollouts, ~ReadsFail, rollout'[r].status = "completed"
      PROVE  \A d \in Devices : entry'[r][d].state # "pending"
  <2>1. In(r, {"pending"}) = {} /\ Exists(r)
    <3>1. CASE rollout[r].status = "completed"
      BY <1>1, <3>1 DEF CountRule, CompletedHasNoPending, Exists
    <3>2. CASE worker.pc = "write" /\ worker.r = r /\ ~worker.counts.pending
      BY <1>1, <3>2 DEF CountRule, Refs, WorkerRule
    <3>3. CASE handler.pc = "write" /\ handler.r = r /\ ~handler.counts.pending
      BY <1>1, <3>3 DEF CountRule, Refs, HandlerRule
    <3> QED BY <1>1, <3>1, <3>2, <3>3, CompletedWrites
  <2> QED BY <2>1, PendingShrinks DEF In
<1>2. CompletedHasNoPending'
  BY <1>1 DEF CompletedHasNoPending, In
<1>3. ~ReadsFail /\ worker'.pc = "write" /\ ~worker'.counts.pending
      => {d \in Devices : entry'[worker'.r][d].state \in {"pending"}} = {}
  BY WorkerCounts
<1>4. ~ReadsFail /\ handler'.pc = "write" /\ ~handler'.counts.pending
      => {d \in Devices : entry'[handler'.r][d].state \in {"pending"}} = {}
  BY HandlerCounts
<1> QED BY <1>2, <1>3, <1>4 DEF CountRule, In

\* While the counts succeed, a rollout is completed only when no device of it
\* waits for its command, whatever the worker, the status handler and the admin
\* do to it meanwhile.
THEOREM CompletedIsDone == Spec => []CompletedHasNoPending
<1> DEFINE Inv == TypeOK /\ Refs /\ CountRule
<1>1. Init => Inv
  <2> SUFFICES ASSUME Init PROVE CountRule
    BY TypeInit, RefsInit
  <2> QED BY DEF Init, CountRule, CompletedHasNoPending, NoRollout, IdleWorker, IdleHandler
<1>2. Inv /\ [Next]_vars => Inv'
  <2>1. Inv /\ Next => Inv'
    BY TypeRefsStep, CountStep
  <2>2. ASSUME Inv, UNCHANGED vars PROVE Inv'
    <3>1. UNCHANGED <<rollout, entry, worker, handler>>
      BY <2>2, Zenon DEF vars, tables
    <3>2. CountRule'
      BY <2>2, <3>1 DEF CountRule, CompletedHasNoPending, In
    <3> QED BY <2>2, <3>2, TypeRefsStep
  <2> QED BY <2>1, <2>2
<1>3. Inv => CompletedHasNoPending
  BY DEF CountRule
<1> QED BY <1>1, <1>2, <1>3, PTL DEF Spec

-----------------------------------------------------------------------------
(* Batches go out in order *)

Sending == {"targets", "product", "each", "note", "publish", "mark"}

\* The batch being sent is the first one that still has pending devices, its
\* targets belong to it, and the worker is busy with one of them.
BatchRule ==
    /\ worker.pc \in Sending
          => \A e \in In(worker.r, {"pending"}) : worker.batch <= entry[worker.r][e].batch
    /\ worker.pc \in Sending \ {"targets"}
          => \A d \in worker.todo : entry[worker.r][d].batch = worker.batch
    /\ worker.pc \in {"note", "publish", "mark"} => worker.d \in worker.todo

\* What the rule says of the next state.
LEMMA BatchRuleNext ==
    ASSUME worker'.pc \in Sending
              => \A e \in Devices : entry'[worker'.r][e].state = "pending"
                                    => worker'.batch <= entry'[worker'.r][e].batch,
           worker'.pc \in Sending \ {"targets"}
              => \A d \in worker'.todo : entry'[worker'.r][d].batch = worker'.batch,
           worker'.pc \in {"note", "publish", "mark"} => worker'.d \in worker'.todo
    PROVE  BatchRule'
<1>1. worker'.pc \in Sending
         => \A e \in {d \in Devices : entry'[worker'.r][d].state \in {"pending"}} :
               worker'.batch <= entry'[worker'.r][e].batch
  OBVIOUS
<1> QED BY <1>1 DEF BatchRule, In, Sending

\* Nothing that happens to the entries while the worker sends disturbs it.
LEMMA BatchKept ==
    ASSUME TypeOK, Refs, BatchRule, Next, worker.pc \in Sending,
           worker'.r = worker.r, worker'.batch = worker.batch, worker'.todo \subseteq worker.todo,
           worker.pc = "targets" => worker'.pc = "targets",
           worker'.pc \in {"note", "publish", "mark"} => worker'.d \in worker'.todo
    PROVE  BatchRule'
<1>1. worker.r \in Rollouts /\ Exists(worker.r) /\ worker.todo \in SUBSET Devices
  <2>1. worker \in Worker
    BY DEF TypeOK
  <2> QED BY <2>1 DEF Refs, WorkerRule, Sending, Worker
<1>2. \A e \in Devices : /\ entry'[worker.r][e].batch = entry[worker.r][e].batch
                         /\ entry'[worker.r][e].state = "pending" => entry[worker.r][e].state = "pending"
  BY <1>1, EntriesStay
<1>3. \A e \in Devices : entry'[worker.r][e].state = "pending"
                         => worker.batch <= entry'[worker.r][e].batch
  BY <1>2 DEF BatchRule, In
<1>4. worker'.pc \in Sending \ {"targets"}
         => \A d \in worker'.todo : entry'[worker.r][d].batch = worker.batch
  BY <1>1, <1>2 DEF BatchRule
<1> QED BY <1>3, <1>4, BatchRuleNext

LEMMA BatchStep == ASSUME TypeOK, Refs, BatchRule, Next PROVE BatchRule'
<1>0. worker \in Worker
  BY DEF TypeOK
<1>1. CASE worker'.pc \notin Sending
  BY <1>1, BatchRuleNext DEF Sending
<1>2. CASE UNCHANGED worker
  <2>1. worker.pc \in Sending => BatchRule'
    BY <1>2, BatchKept DEF BatchRule
  <2> QED BY <1>1, <1>2, <2>1
<1>3. ASSUME NEW r \in Rollouts, LoadFirstPending(r) PROVE BatchRule'
  <2>1. entry' = entry
    BY <1>3, Zenon DEF LoadFirstPending
  <2>2. ASSUME NEW d \in Devices, FirstPending(r, d),
               worker' = [worker EXCEPT !.pc = "targets", !.due = @ \ {r}, !.r = r,
                                        !.batch = entry[r][d].batch]
        PROVE  BatchRule'
    <3>1. worker'.pc = "targets" /\ worker'.r = r /\ worker'.batch = entry[r][d].batch
      BY <1>0, <2>2 DEF Worker
    <3>2. \A e \in Devices : entry[r][e].state = "pending" => entry[r][d].batch <= entry[r][e].batch
      BY <2>2 DEF FirstPending, In
    <3> QED BY <2>1, <3>1, <3>2, BatchRuleNext DEF Sending
  <2>3. CASE worker' = [worker EXCEPT !.pc = "count", !.due = @ \ {r}, !.r = r]
    BY <1>0, <1>1, <2>3 DEF Worker, Sending
  <2> QED BY <1>3, <2>2, <2>3, Zenon DEF LoadFirstPending
<1>4. CASE LoadTargets
  <2> DEFINE T == {d \in In(worker.r, {"pending"}) : entry[worker.r][d].batch = worker.batch}
  <2>1. worker.pc = "targets" /\ worker' = [worker EXCEPT !.pc = "product", !.todo = T]
        /\ entry' = entry
    BY <1>4, Zenon DEF LoadTargets, WorkerAt
  <2>2. worker'.pc = "product" /\ worker'.todo = T /\ worker'.r = worker.r
        /\ worker'.batch = worker.batch
    BY <1>0, <2>1 DEF Worker
  <2>3. \A d \in Devices : entry[worker.r][d].state = "pending"
                           => worker.batch <= entry[worker.r][d].batch
    BY <2>1 DEF BatchRule, Sending, In
  <2>4. \A d \in T : entry[worker.r][d].batch = worker.batch
    OBVIOUS
  <2> HIDE DEF T
  <2> QED BY <2>1, <2>2, <2>3, <2>4, BatchRuleNext DEF Sending
<1>5. CASE LoadProduct
  <2>1. /\ worker.pc = "product"
        /\ worker' = [worker EXCEPT !.pc = IF worker.todo = {} THEN "count" ELSE "each",
                                    !.image = product]
    BY <1>5, Zenon DEF LoadProduct, WorkerAt
  <2>2. /\ worker'.pc \in {"count", "each"} /\ worker'.r = worker.r
        /\ worker'.batch = worker.batch /\ worker'.todo = worker.todo
    BY <1>0, <2>1 DEF Worker
  <2> QED BY <2>1, <2>2, BatchKept DEF Sending
<1>6. ASSUME NEW d \in Devices, CheckTarget(d) PROVE BatchRule'
  <2>1. /\ worker.pc = "each" /\ d \in worker.todo
        /\ worker' = [worker EXCEPT !.d = d, !.pc = IF known[d] = rollout[worker.r].target
                                                    THEN "note" ELSE "publish"]
    BY <1>6, Zenon DEF CheckTarget, WorkerAt
  <2>2. /\ worker'.r = worker.r /\ worker'.batch = worker.batch
        /\ worker'.todo = worker.todo /\ worker'.d = d
    BY <1>0, <2>1 DEF Worker
  <2> QED BY <2>1, <2>2, BatchKept DEF Sending
<1>7. CASE NoteUpdated \/ MarkSent
  <2>1. worker.pc \in {"note", "mark"} /\ EndTarget
    BY <1>7, Zenon DEF NoteUpdated, MarkSent, WorkerAt
  <2>2. /\ worker'.r = worker.r /\ worker'.batch = worker.batch
        /\ worker'.todo \subseteq worker.todo /\ worker'.pc \in {"count", "each"}
    BY <1>0, <2>1 DEF EndTarget, Worker
  <2> QED BY <2>1, <2>2, BatchKept DEF Sending
<1>8. CASE PublishTarget
  <2>1. worker.pc = "publish" /\ (WorkerGoto("mark") \/ WorkerGoto("fail"))
    BY <1>8, Zenon DEF PublishTarget, WorkerAt
  <2>2. /\ worker'.r = worker.r /\ worker'.batch = worker.batch
        /\ worker'.todo = worker.todo /\ worker'.d = worker.d
    BY <1>0, <2>1 DEF WorkerGoto, Worker
  <2>3. worker.d \in worker.todo
    BY <2>1 DEF BatchRule
  <2> QED BY <2>1, <2>2, <2>3, BatchKept DEF Sending
<1>9. CASE \/ \E S \in SUBSET Rollouts : LoadDue(S)
           \/ CountEntries \/ WriteRollout \/ StatementFails \/ FailRollout
  <2>1. ASSUME NEW S \in SUBSET Rollouts, LoadDue(S) PROVE worker'.pc \notin Sending
    <3>1. worker' = [IdleWorker EXCEPT !.pc = "next", !.due = S]
      BY <2>1, Zenon DEF LoadDue
    <3> QED BY <3>1 DEF IdleWorker, Sending
  <2>2. ASSUME CountEntries \/ StatementFails PROVE worker'.pc \notin Sending
    BY <1>0, <2>2 DEF CountEntries, StatementFails, WorkerGoto, Worker, Sending
  <2>3. ASSUME WriteRollout \/ FailRollout PROVE worker'.pc \notin Sending
    <3>1. EndRollout
      BY <2>3, Zenon DEF WriteRollout, FailRollout
    <3> QED BY <3>1 DEF EndRollout, IdleWorker, Sending
  <2> QED BY <1>1, <1>9, <2>1, <2>2, <2>3
<1>10. CASE CrashAndRestart
  BY <1>1, <1>10 DEF CrashAndRestart, IdleWorker, Sending
<1>11. UNCHANGED worker \/ WorkerStep \/ CrashAndRestart
  BY Writers, Zenon
<1> QED BY <1>2, <1>3, <1>4, <1>5, <1>6, <1>7, <1>8, <1>9, <1>10, <1>11 DEF WorkerStep

\* Only the worker publishes a command of a rollout, for its current target.
LEMMA CommandWrites ==
    ASSUME TypeOK, Refs, Next, NEW d \in Devices,
           retained'[d] # retained[d], retained'[d] # NoCommand, retained'[d].by # 0
    PROVE  worker.pc = "publish" /\ worker.d = d /\ retained'[d].by = worker.r
<1>0. retained \in [Devices -> Command \cup {NoCommand}]
  BY DEF TypeOK
<1>1. ASSUME NEW e, NEW c, Publish(e, c) \/ PublishFails(e, c) PROVE e = d /\ retained'[d] = c
  BY <1>0, <1>1 DEF Publish, PublishFails, broker
<1>2. ~UNCHANGED broker
  BY Zenon DEF broker
<1>3. CASE AdminStep
  <2>1. UNCHANGED broker \/ \E e \in Devices : Publish(e, NoCommand) \/ PublishFails(e, NoCommand)
    BY <1>3, Zenon
       DEF AdminStep, UploadFirmware, StartRollout, CheckEligible, LoadActive, LoadCancelled,
           MarkCancelled, RolloutRequestFails, CancelRollout, CreateRollout, ClearCancelled
  <2> QED BY <1>1, <1>2, <2>1
<1>4. CASE WorkerStep
  <2>1. \/ UNCHANGED broker
        \/ worker.pc = "publish"
           /\ (Publish(worker.d, OwnCommand) \/ PublishFails(worker.d, OwnCommand))
    BY <1>4, Zenon
       DEF WorkerStep, LoadDue, LoadFirstPending, LoadTargets, LoadProduct, CheckTarget,
           NoteUpdated, PublishTarget, MarkSent, CountEntries, WriteRollout, StatementFails,
           FailRollout, WorkerAt
  <2>2. OwnCommand.by = worker.r
    BY DEF OwnCommand
  <2> QED BY <1>1, <1>2, <2>1, <2>2
<1>5. CASE HandlerStep
  <2>1. UNCHANGED broker \/ Publish(handler.d, NoCommand) \/ PublishFails(handler.d, NoCommand)
    BY <1>5, Zenon
       DEF HandlerStep, ReceiveStatus, CheckProduct, ClearForProduct, LoadMatches, SkipMatch,
           ClearForMatch, MarkUpdated, CountForRefresh, WriteRefresh
  <2> QED BY <1>1, <1>2, <2>1
<1>6. CASE UserStep
  <2> DEFINE c == [version |-> asking.ver, image |-> asking.ver, by |-> 0]
  <2>1. \/ UNCHANGED broker
        \/ Publish(asking.d, c) \/ PublishFails(asking.d, c)
        \/ \E e \in Removed : PublishFails(e, NoCommand)
    BY <1>6, Zenon
       DEF UserStep, AskForUpdate, PublishAsked, FindPendingEntry, MarkAskedSent, DeleteDevice,
           ClearDeleted
  <2>2. c.by = 0
    OBVIOUS
  <2> HIDE DEF c
  <2> QED BY <1>1, <1>2, <2>1, <2>2
<1>7. CASE FieldStep \/ CrashAndRestart
  <2>1. UNCHANGED broker
    BY <1>7, Zenon
       DEF FieldStep, DeviceReceives, DeviceFlashes, DeviceReports, BrokerRepeats, CrashAndRestart
  <2> QED BY <1>2, <2>1
<1> QED BY <1>3, <1>4, <1>5, <1>6, <1>7 DEF Next

\* The batches of a rollout are commanded in their order, whoever cancels it,
\* completes it or marks its devices while the worker is at it.
THEOREM OrderedBatches == Spec => BatchesInOrder
<1> DEFINE Inv == TypeOK /\ Refs /\ BatchRule
<1>1. Init => Inv
  <2> SUFFICES ASSUME Init PROVE BatchRule
    BY TypeInit, RefsInit
  <2> QED BY DEF Init, BatchRule, Sending, IdleWorker
<1>2. Inv /\ [Next]_vars => Inv'
  <2>1. Inv /\ Next => Inv'
    BY TypeRefsStep, BatchStep
  <2>2. ASSUME Inv, UNCHANGED vars PROVE Inv'
    <3>1. UNCHANGED <<entry, worker>>
      BY <2>2, Zenon DEF vars, tables
    <3>2. BatchRule'
      BY <2>2, <3>1 DEF BatchRule, In
    <3> QED BY <2>2, <3>2, TypeRefsStep
  <2> QED BY <2>1, <2>2
<1>3. Inv /\ [Next]_vars
      => [\A d \in Devices, r \in Rollouts :
             retained[d]' # retained[d] /\ retained[d]' # NoCommand /\ retained[d]'.by = r
             => \A e \in In(r, {"pending"}) : entry[r][d].batch <= entry[r][e].batch]_vars
  <2>1. ASSUME Inv, Next, NEW d \in Devices, NEW r \in Rollouts,
               retained'[d] # retained[d], retained'[d] # NoCommand, retained'[d].by = r
        PROVE  \A e \in In(r, {"pending"}) : entry[r][d].batch <= entry[r][e].batch
    <3>1. r # 0
      BY BoundAssumption DEF Rollouts
    <3>2. worker.pc = "publish" /\ worker.d = d /\ worker.r = r
      BY <2>1, <3>1, CommandWrites
    <3>3. entry[r][d].batch = worker.batch
      BY <2>1, <3>2 DEF BatchRule, Sending
    <3> QED BY <2>1, <3>2, <3>3 DEF BatchRule, Sending
  <2> QED BY <2>1
<1> QED BY <1>1, <1>2, <1>3, PTL DEF Spec, BatchesInOrder
=============================================================================
