# Verification of the MinnalLabs backend

TLA+ specifications of the IoT backend in this repository (`src/`, Go with PostgreSQL, Valkey and
Mosquitto), the TLC configurations that check them on small instances, and TLAPS proofs of their
safety properties for every instance.

Three parts of the system are modelled in full:

| modules | what |
|---|---|
| `HomeJobs`, `HomeAccess`, `HomeJobsProofs`, `MC_HomeJobs` | the life of a home: creation, broker access, device enrollment, deletion, through `home_mqtt_jobs` |
| `Rollout`, `Campaign`, `RolloutProofs`, `CampaignProofs`, `MC_Rollout` | staged firmware rollouts: worker, status handler, admin, users and devices |
| `UserTable`, `SessionStore`, `TokenStore`, `Accounts`, `Authority`, `AccountsProofs`, `AccountsQuietProofs`, `AuthorityProofs`, `MC_Accounts` | accounts: sign-up and sign-in, sessions, Google links, OAuth grants, and the deletion of all of it |

## The system

| component | state it keeps | operations | must hold |
|---|---|---|---|
| home jobs worker (`internal/homejobs`) | `home_mqtt_jobs` rows; one goroutine per claimed row | claim, sweep of stale claims, provision task, cleanup task, reschedule | a queued deletion completes and leaves nothing granted; provisioning settles; at most one kind of job per home |
| home and user deletion (`internal/deletion`) | writes `homes`, `home_mqtt_jobs`, `users` | `ScheduleHomeDeletion`, `ScheduleUserDeletion` | a deletion is never lost, and is final |
| enrollment API (`internal/enrollment`) | `homes`, `devices` | enroll and delete homes and devices, trigger an update | a device is accepted only by a home that stays; nothing survives its home |
| MQTT client (`internal/mqtt/mqtt.go`, `ota.go`) | its subscriptions, Mosquitto's retained messages | subscribe, publish, message and connect handlers | a visible device stays subscribed |
| dynamic security client (`internal/mqtt/dynsec.go`) | clients and roles at the broker | `ProvisionHomeAccess`, `CleanupHomeAccess` | the answer taken belongs to the command sent |
| OTA rollouts (`internal/ota`) | `firmware_rollouts`, `firmware_rollout_devices` | create, cancel, dispatch a batch, handle a status, refresh completion | batches in order; states that say what happened; no command lost |
| admin API (`internal/admin`) | `products`, `users` | upload, roll out, delete a user | through the other parts |
| device cache (`internal/state/state.go`) | Valkey: device entries, presence, capability values | cache, remove, `SyncDevices` | no live device drops out |
| sessions (`internal/state/session.go`, `internal/oauth/session.go`) | Valkey: sessions and a set per user | create, touch, end one, end all of a user | a deleted user has none |
| OAuth token store (`internal/oauth`) | token rows, Valkey copies by code, access and refresh | create, remove, get, purge | a grant always has one usable pair; nothing is served after its time; a deleted user has nothing |
| Google sign-in (`internal/googleauth`) | one-shot state in Valkey, `users.google_sub` | offer, consume, find or create a user, link | a linked identity stays; nobody's answer serves another |
| Google fulfilment (`internal/google`) | none | SYNC, QUERY, EXECUTE, DISCONNECT | an intent needs a usable access token; the rest is a function of the cache |
| device firmware (`product_configs/ml-smart-sensor.yaml`) | running version, the command it was given | receive, flash, report | external to the backend |
| crypto, models, validation, configuration, migrations, web console, load tests | none, or start-up only | | not modelled |

How they meet:

- Requests (gin handlers), the two tickers (`homejobs`, `ota`), the goroutine of each claimed job
  and the MQTT client's callbacks run beside each other in one process. Nothing but PostgreSQL rows,
  Valkey keys and the broker is shared, and no lock is held from one statement to the next: every
  check is stale by the time of the write it guards.
- `enrollHome`, `deleteHome` and `deleteUser` only write rows; the worker does the broker's part
  later, retries it, and a deletion may arrive at any point of a task already running.
- The worker publishes a rollout's commands; devices answer through retained status messages; the
  client's callback writes presence and calls the rollout code (`HandleDeviceStatusUpdate`), which
  writes the rows the worker is working on.
- A crash ends every goroutine and request. Rows, Valkey and the broker stay.

What is hard here, and what the properties are aimed at: a task that spends seconds at the broker and
then writes what it decided before (`homejobs.go:242-258`); claims left behind by a crash; exchanges
that fail after they took effect; deletion racing provisioning, enrollment and its own earlier
attempt; a report handled in the middle of a batch; an upload or a second rollout in the middle of a
batch; statements whose errors are dropped; publishes that fail but arrive; a token kept in two
stores under three keys, each read and written by itself; a session or a row read by one request and
written back after another has deleted it. `PROJECT.json` lists all
of them under "hazards" with their lines.

## HomeJobs

State and code:

| variable | code |
|---|---|
| `user` | `users` row and whether the user's sessions are still in Valkey (`deleteUser` ends them after the transaction) |
| `home` | `homes`: row, `mqtt_provision_state`, credentials |
| `jobs` | `home_mqtt_jobs`: a row per home and operation (the unique index of migration 009) |
| `task` | goroutine of `runOnce`: its position (`pc`), whether the row it claimed is still there (`owns`, the `WHERE id = job.ID` of its writes), and what it read (`attempts`, `named`, `devs`) |
| `access` | dynamic-security client and role of the home at Mosquitto |
| `device`, `traces` | `devices` row (and, as history, whether it was inserted when the deletion of its home was queued: `late`); cache entry, subscription and retained command |
| `deleteReq`, `enroll`, `removing`, `updating` | requests between their read and their writes |

Each database statement or transaction, each broker exchange and each Valkey pipeline is one action;
whatever can fail has an action for it failing (`LoadHomeFails`, `ClearAccessFails`,
`CommitProvisionFails`, `LastWriteFails`, ...), and the broker's failing exchanges leave any subset of
their effect. Which rows are due (`next_run_at`) and which claims are stale is a choice of the action
(`ClaimJobs(S)`, `RequeueStaleClaims(S)`), so every timing is covered. `WorkerIdle` is the
`sync.WaitGroup` of `runOnce`: no claim while a batch runs. `CrashAndRestart` is the process
dying and starting up again (`SyncDevices`, then the connect handler).

`HomeAccess` is the promise in five actions: access comes and goes while the home lives, a deletion
asked for stays asked for, the home is deleted only with its access gone, and neither comes back.
`HomeJobs` implements it under `phase <- home.row`, `granted <- access`,
`ending <- {h : jobs[h]["cleanup"] # NoRow}` (`KeepsPromise`).

## Rollout

| variable | code |
|---|---|
| `product` | `products.firmware_version` |
| `rollout`, `entry` | `firmware_rollouts` (status, target, percentage, whether `next_batch_at` is set) and `firmware_rollout_devices` (state, batch) |
| `row`, `known` | `devices` row; the version last reported (presence in Valkey, `devices.firmware_version`) |
| `retained`, `told` | the broker's retained command of a device; history: the commands ever published, each with its device |
| `device`, `ran`, `mail` | what a device runs, what it was told and the status of it that the broker retains; history: versions it has run; statuses on their way |
| `handler` | `HandleDeviceStatusUpdate` and `refreshRolloutCompletion` for the message in hand |
| `worker` | `processDueRollouts` and `dispatchNextBatch` |
| `admin`, `asking` | a `rolloutFirmware` and a `triggerDeviceUpdate` request, statement by statement |

The percentage, rounded up, the batch of each position and the order of the devices (any order, for
the hash) are computed as in `batchSize` and `BatchNumber`. A command carries the version it names,
the version its URL belongs to (`image`: the product's current one, not the rollout's target,
`rollout.go:469`) and its rollout. A publish that reports an error may have arrived
(`PublishFails`). A write whose error the code drops is `Attempted`: it happens or not. `ReadsFail`
lets queries fail too: a failed count is zero (`Counted`), a failed "first pending entry" goes on
to the completion check.

Merged, and why that loses nothing: the two counts of a completion check are one action, since no
entry becomes pending again and counting one after the other gives what counting both at one of the
two moments would give; reads that only refuse a request belong to the step that goes on.

`Campaign` is the promise in five kinds of action: a rollout is launched with one target and one division
into batches of its percentage; its commands name that target and go out in the order of the batches;
owners' commands belong to no rollout; what is recorded of a device is true ("sent": it was commanded,
"updated": it ran the target) and no device comes back to waiting; a device runs only images it was
commanded. It knows neither worker, handler nor requests. `Rollout` implements it under `target`, `share`,
`batch` and `state` taken from the rows of `rollout` and `entry`, and `order <- retained`
(`KeepsCampaign`). The division is stated without division: a batch size is the least number that is the
percentage or more (`IsShare`), and every batch before a device's own is full (`Divided`).

## Accounts

The data, each with the single commands it takes:

| module | variables | code |
|---|---|---|
| `UserTable` | `user` | `users` (soft-deleted rows stay), `google_sub` with its unique index (migration 011), `admin_users` |
| `SessionStore` | `session`, `alive`, `listed` | what a session key holds, the keys that are set, the `user_sessions:*` sets |
| `TokenStore` | `token`, `rows`, `copies`, `expired` | whose a token is and of which grant, `oauth_tokens`, the keys in Valkey, the times that have come |

`TokenStore` has both readings of a token's expiry: what is left when a copy is set (`HasTTL`, for
`tokenCodeTTL`, `tokenAccessTTL`, `tokenRefreshTTL`) and what a lookup that finds a row asks
(`ExpiredForLookup`).

`Accounts` composes them. A handler is a list of calls (`Script`): `refresh`, for instance, is what the
OAuth library does for a refresh grant: `GetByRefresh`, `Create`, `RemoveByAccess`, `RemoveByRefresh`. A
request is a record of the call it is in, the place within that call (`at`) and what it has read so far;
each place is one command of PostgreSQL or Valkey. So `removeByLookup`, which looks in the cache, then for
the row, judges it, copies it, deletes the row and then the keys, is six steps, and everything else may
happen between two of them. Further variables: `csrf` (the states of a redirect to Google), `due` (what is
still to come of a behaviour, see Bounds) and four history variables the properties are stated with:
`disturbed` (users for whom two requests overlapped or one failed), `newest` (the pair made last of each
grant), `lost` (tokens purged, or reaped by the use of an expired access value), `stale` (tokens whose copies
outlived them).

A command whose error the code drops may fail and the handler goes on (`Tries`); any other failure ends the
request where it is (`Abort`); `Crash` ends all of them; sessions, states and values end at any time. A
cookie, a token or a state is sent by a client that was once given it, also after it has ended.

`Authority` is the promise of who may act for whom, without handlers, stores or copies: a session is
opened for a user who was live when he proved who he is, by password or by one answer of Google, and
only then; an identity is linked in a session of the user who asked for it, once for an answer; an
account is deleted in its user's or an admin's session; a code is made in a session of its user, a pair
from a code or a pair, and it stays that user's; a token has a row from its creation on, and none again
once it lost it. Accounts implements it (`KeepsAuthority`) under `account <- user`, `state <- csrf` and
two variables that are read off the requests: `answered`, the states whose answer a callback
holds and has not used, and `known`, the users for whom a request has authenticated and has yet to open the
session. What the code relies on is in no variable that outlives the request, so the mapping is where the work is.
When authority ends is not in it: that is `DeletionLeavesNothing`, and findings and lists below.

## What the runs check

`tlc -config X.cfg M` for each; `PROJECT.json` has a mutant for every property, a plausible bug of a
mapped definition that makes the run fail.

| run | instance | properties | what it is for |
|---|---|---|---|
| `HomeJobs_one` | 1 user, 1 home, 1 device | `TypeOK`, `NoAccessAfterDeletion`, `DeletionTakesDevices`, `DeletionIsFinal`, `LiveDeviceStaysReachable` | every handler against the worker; 0.9 million states, half a minute |
| `HomeJobs_two` | 1 user, 2 homes | `ReadyMeansAccess`, `NoForgottenHome`, `OneJobPerHome`, `DeletionStaysQueued`, `KeepsPromise` | batches of several jobs, a user deletion that takes both homes |
| `HomeJobs_live` | 1 home, fairness | `DeletionCompletes`, `ProvisionSettles` | deletions complete; homes become ready or fail, with the one exception the property names |
| `HomeJobs_accepts`, `HomeJobs_survivor` | 1 home, 1 device | violated: see Findings | |
| `Rollout_batches` | 2 devices, 1 rollout at 50% | `CompletedHasNoPending`, `BatchesInOrder`, `KeepsCampaign` | worker, handler and admin against each other; 1.5 million states, two minutes |
| `Rollout_superseded` | 1 device, 2 rollouts, queries fail | `TypeOK`, `UpdatedWasRun`, `KeepsCampaign` | one rollout cancels another under both; 1.8 million states |
| `Rollout_requests` | 1 device, asked for and deleted, queries fail | `SentWasCommanded` | requests of users beside the worker; 0.9 million states |
| `Rollout_stalls`, `Rollout_loses` | 2 devices and 1 device | violated: see Findings | |
| `Accounts_mixes` | 2 users, 2 Google identities, 2 requests at a time, ten mixes | `TypeOK`, `ServedInTime`, `CopyHasRow`, `GrantKept`, `OnePairPerGrant`, `DeletionLeavesNothing`, `LinkIsKept`, `KeepsAuthority` | tokens, sessions, links and deletions against each other; 0.45 million states, two minutes |
| `Accounts_returns` | the linking mix | violated: see Findings | |

What the properties say of the code:

- `NoAccessAfterDeletion`, `DeletionIsFinal`: a provision task in flight when the deletion is
  scheduled may still grant access, but never after the cleanup revoked it for the last time; no late
  write revives the row. This holds because no cleanup is claimed before the batch is over
  (`WorkerIdle`) and no provision row stays beside a cleanup row; the mutants drop one or the other.
- `DeletionTakesDevices`: the cleanup works from the devices it read before it went to the broker, in
  as many attempts as it takes. A device that was live when the deletion was queued is deleted with the home all
  the same; only one inserted afterwards, by a request that had looked at the home before, outlives it
  (finding 2).
- `OneJobPerHome`, `DeletionStaysQueued`: through replaced rows, stale claims and failed last writes, the
  two kinds of work never meet at one home and a deletion, once queued, keeps its row until the home is gone.
- `NoForgottenHome`: a crash or a late last write never leaves a pending home without any row, or one being
  deleted without its cleanup row. The row of a pending home may be one that failed: see `ProvisionSettles`.
- `DeletionCompletes`: a deletion that was asked for ends with the row deleted.
- `ProvisionSettles`: a home whose provision row waits or is claimed becomes ready or failed, or its deletion
  is queued, with one exception, `GivenUpUnread`: when the home could not be loaded in the last attempt, the
  worker does not know its name, marks the row failed and leaves the home's row pending
  (`homejobs.go:232`, `:350-360` with `homeID` 0). Such a home stays pending for good.
- `ReadyMeansAccess`: "ready" is written only over access that is there, unless a deletion is queued.
- `LiveDeviceStaysReachable`: no step of an older task or request takes a live device of a home that
  is not being deleted out of the cache, and only the loss of the session costs its subscription.
- `UpdatedWasRun`, `SentWasCommanded`: the states of a rollout's devices say what happened, although
  reports come late, twice or from before the rollout, and publish and row are two steps. "Sent" asks for a
  command of that rollout, or one the owner asked for: a command of another rollout will not do.
- `KeepsCampaign`: with rollouts that cancel each other, late batches and reports, every command and every
  record belongs to the rollout whose row says so, and its division into batches is the one promised.
- `CompletedHasNoPending`: "completed" is never written over a rollout with devices to command,
  although counting and writing are two steps and three goroutines write the row. Stated for counts
  that succeed: with `ReadsFail` a failed count completes a rollout with devices left
  (`rollout.go:550`), which the model has as a reachable behaviour.
- `BatchesInOrder`: when a command of a rollout appears at the broker, no device of an earlier batch
  is still pending, through crashes in the middle of a batch and repeated dispatches.

- `ServedInTime`: a lookup that finds a copy does not look at the clock, so the time to live given with the
  copy has to say what the lookup of the row would (`token_store.go:145`, `:262`).
- `CopyHasRow`: rows and copies are written one after the other by requests that overlap. A copy
  without a row is one somebody is about to delete, or one of the cases the history names: made from a
  row read before it was deleted, unseen by the purge that deleted its row (`:482-497`), or left by a failure.
- `GrantKept`: refreshing makes the next pair and removes the last in separate calls, and two refreshes
  may overlap or break off. Whatever happens, the pair made last has its row, or the grant is over.
- `OnePairPerGrant`: after requests one at a time, a grant has one usable pair, although
  `removeByLookup` leaves the row when it found the copy (`:121-139`): the removal by refresh value
  that follows finds it.
- `DeletionLeavesNothing`: whatever a user did, one request at a time, the deletion leaves no session, no
  row and no copy. With overlapping requests it does not hold (see Findings), which is why it is stated so.
- `LinkIsKept`: a user may ask for several redirects to Google before any comes back; `link-google` refused
  none of them, for the account had no identity. The callback that is handled first links, the later ones must
  find that and refuse (`googleauth.go:226`). Stated for users whose requests do not overlap: two callbacks
  handled at once may both load an account without identity, and the later `Save` replaces the other's
  (see Findings). That an identity has one user is no property: it is the unique index of migration 011.
- `KeepsAuthority`: a session, a link, a deletion or a token is written several calls after what entitles the request
  to it was checked, and the session, the account or the state may be gone by then. Each still comes
  about only as `Authority` allows: no answer of Google serves twice, nobody's session serves another, and
  "admin" is asked of the session, whatever has become of `admin_users`.

### Bounds

- `MaxProvisionAttempts = AttemptCap = 2` (6 in the code): one retry and one giving up. `attempts` is
  only ever compared with the maximum, so it saturates there.
- One home is enough for what concerns one home: jobs of different homes share nothing but the batch,
  which is what `HomeJobs_two` is for. Homes and devices are symmetric there; `HomeJobs_live` uses no
  symmetry. `HomeJobs_live` has no device: sweeping one is one more retried exchange.
- A home or device row is created once; ids are never reused in the code either.
- `Versions = {v1, v2}`, one factory version and one (in `Rollout_loses` two) uploaded: enough for a
  report of the target, of another version and of the product's version. Two devices at 50% give two
  batches; the arithmetic for other numbers, rounding included, is in the proofs (`BatchSizeIsShare`,
  `BatchesDivide`).
- `MaxRollouts` bounds the rollouts created (no request starts when no id is left), `MailBound` the
  undelivered statuses of a device. The proofs need neither.
- `Accounts_mixes` takes each of ten mixes by itself (`MC_Accounts`): a multiset of requests, failures and
  expiries, in any order and with any interleaving of two requests at a time. A mix has what a hazard
  needs (a grant refreshed twice while Google calls; a deletion beside everything that makes tokens; a
  link and a sign-in of the same identity beside a deletion; the deletion of a user whom a sign-in
  creates meanwhile; two redirects to link; a code exchanged twice; ...) and no more, for the state space is the
  product of all of them. One code, two Google identities (they are symmetric), three pairs, two sessions and two states are what a mix can use up.
  When a mix is used up nothing is left to do, hence `CHECK_DEADLOCK FALSE`. No requests are known
  to need a third beside them: every step reads what at most one other step in flight may have changed.
  The proofs need no bound: they hold for any mixes and any number of requests.

### Fairness

Only `HomeJobs_live` assumes any. (`Accounts` has no liveness to state: a handler is straight-line code
without a retry, and what it leaves undone nobody takes up.) A goroutine that is not blocked goes on, the ticker never stops,
and rows are claimed in the order of `next_run_at`, so a row that is due again and again is claimed
in the end. The conditions are strong fairness because a crash disables every step of a task and
crashes may recur: weak fairness would promise nothing of a process that keeps crashing. Database,
Valkey and revoking exchanges may fail any number of times but not every time (`SF` of the success);
granting may fail every time (`SF` of success or failure), which is why a home may end as failed.
Nothing is assumed of handlers.

## Findings

1. `HomeJobs_accepts` / `DeletingHomeRejectsDevices`: a provision task writes `ready` (or `pending`, when
   it reschedules) to whatever the home's row has become while it was at the broker
   (`homejobs.go:251-258`, `:360-366`). A deletion scheduled meanwhile is overwritten, and
   `enrollDevice` accepts a device for a home whose cleanup job is queued. `deletion_test.go:111`
   expects a deleting home to reject device provisioning.
2. `HomeJobs_survivor` / `DeletedHomeHasNoDevices`: `enrollDevice` checks the home and inserts the
   device later (`enrollment.go:633`); `processCleanupJob` soft-deletes the devices it read before it
   went to the broker. A device inserted in between stays live, cached and subscribed in a deleted
   home, and no job is left to remove it, although `home-create-form.js:456` says devices disappear.
3. `Rollout_stalls` / `NextBatchIsScheduled`: `refreshRolloutCompletion` sets `next_batch_at` to NULL
   whatever is still pending (`rollout.go:547-566`), and every device that reports the target calls
   it. After the first report between two batches the rollout is running without a next batch and
   `processDueRollouts` never finds it again: the staged rollout `DEPLOYMENT.md:153-154` describes
   stops after its first batch.
4. `Rollout_loses` / `CommandNotLost`: `HandleDeviceStatusUpdate` clears a device's retained command
   when the device reports the product's current version (`rollout.go:592-597`), whichever rollout the
   command belongs to. After an upload of another version, even an old one again, during a rollout, a
   device that still runs that version loses the rollout's command while its entry stays sent.
   `DEPLOYMENT.md:108-109` promises no loss for devices that are offline for a while.

5. `Accounts_returns` / `DeletionIsKept`: a link callback loads the account, checks it and saves the whole
   row (`googleauth.go:221-232`). When the account is deleted in between, gorm's `Save` finds no live row
   to UPDATE and falls back to an INSERT that updates every column on conflict, `deleted_at` too: the
   deleted account is active again, its homes being deleted. `privacy-policy.html:44` says the account
   is removed.

Seen in the models without a sentence of the repository that promises otherwise, so no run. Rollouts and
homes: the
worker's last write makes a cancelled rollout running again (`rollout.go:541`) and `sent` may overwrite
`updated` or `cancelled` (`:511`); a batch after an upload brings the new image under the old version's
name (`:469`); commands are published for devices that were deleted meanwhile; a command a user asks
for, for the product's version, marks the device sent in an active rollout to another version; a
provision job whose home cannot be loaded is given up without a word in the home's row
(`homejobs.go:232`), which then stays pending with a failed job (`ProvisionSettles` names it).

Accounts: a request that arrives with an expired access value deletes the token with its refresh value
(`token_store.go:172-179`), unless its copy is still cached, so a client that is late once has to be linked
again. A code removed after its copy was found keeps its row (`:126-139` deletes the row only when it had to
look for it) and can be exchanged again until it expires, each time for another grant.
All pairs of a grant end with the first one, since the library keeps the refresh value's time of
creation. A lookup that read the row before a purge or a removal copies the token after it, and a token
created between the purge's two statements keeps its copies (`:489`, `:497`). A session touched while it
is deleted is there again (`session.go:69-78`); a session created while all are being ended survives
(`:95-104`), as does one of a login that checked the password before the deletion; `user_sessions` sets have
no time to live. A deleted user keeps the Google identity in the unique index, so a sign-in with it ends
in an error for good. Two link callbacks of one user at once: the second replaces the first's identity.

## What is proved

`HomeJobsProofs`, `RolloutProofs`, `CampaignProofs`, `AccountsProofs`, `AuthorityProofs` and `AccountsQuietProofs` hold for any sets of users, homes, devices, versions,
sessions and tokens, any percentages and any bounds; those of HomeJobs and Accounts for any number of requests at a
time, those of Rollout for one `rolloutFirmware` and one `triggerDeviceUpdate` beside worker and handler (see
below). They use only the
named assumptions of the modules (`OwnerAssumption`, `NoHomeAssumption`, `AttemptAssumption`;
`VersionAssumption`, `DeviceAssumption`, `BatchAssumption`, `BoundAssumption`, `CommandAssumption`;
`UserAssumption`, `SessionAssumption`, `TokenAssumption`, `RequestAssumption`: sentinels are no members of
the sets they stand beside, sets of devices are finite, percentages are 1 to 100), which TLC evaluates in
each run.

HomeJobs: `TypeCorrect`, `Invariance`, then `AccessRevoked`, `JobsExclude`, `NothingForgotten`,
`ReadyHasAccess`, `DeletionNeverDropped`, `DeletionHolds`, `LiveDeviceInSight`, `DeletionTakesAll`, and `Refinement` (every
step is a step of `HomeAccess` or leaves it alone). None of the properties is inductive by itself.
`IInv` is `TypeOK` and five rules for each home, which only hold together:

- `HomeRule`: a home without row has no jobs and tasks, a live one its credentials, a deleted one a
  fixed row, no access and no provision work;
- `LiveRule`: what a live home's state says of its jobs and access (the three properties themselves);
- `ExclusionRule`: a cleanup row or a cleanup task at work shuts out the provision row; two tasks of
  one home are never both at work;
- `ProvisionRule`: a provision task that no longer owns its row lost it to a cleanup row, and one that
  is about to commit still has what it granted;
- `CleanupRule`: until it commits, a cleanup task has a row, its own or a newer one; once it sweeps,
  nothing is granted.

`NoAccessAfterDeletion`, for instance, needs that access is gone while a cleanup sweeps, that is, that no
provision task grants at the same time, which is `ExclusionRule`, which needs `ProvisionRule` for tasks
whose rows were replaced.

`LiveDeviceInSight` (`LiveDeviceStaysReachable`) has a rule of its own, `DInv`, on top: `DeviceRule` (a
device is created once, keeps its home, and is removed only after its row was deleted) and `SnapshotRule`
(the devices a cleanup task works on belong to its home, and those it still takes out of the cache are
deleted). With `CleanupRule` a task that sweeps a device has the home's deletion queued.

`DeletionTakesAll` (`DeletionTakesDevices`) adds `OInv`: from the moment a cleanup task has read the devices it
has all those the deletion owes, and a deleted home owes none (`OwedRule`); a device that is there, or
about to be inserted, has a home (`PlaceRule`). A device inserted after the snapshot cannot be owed, for
`CleanupRule` says that the deletion is queued while the task is at work.

Rollout: every proof starts from `TypeOK` and `Refs` (what a goroutine holds exists: the worker's rollout,
the handler's device, the request's version); `Writers`, `RowsStay` and `EntriesStay` say once which
action writes what and what only ever grows. Then each property has a rule of its own:

| theorem | rule | why it is needed |
|---|---|---|
| `UpdatedRan` | `RanRule`: every version reported, known, under way or held by the handler was run by that device; `UpdatedRule`: so was the target where the worker is about to note it or the handler to mark it | what is written was read several steps before |
| `SentCommanded` | `SentRule`: a device the worker or a request is about to mark was told | publish and row are two steps |
| `CompletedIsDone` | `CountRule`: "none pending" stays true from the count to the write | the entries change in between, but never back to pending |
| `OrderedBatches` | `BatchRule`: the batch being sent is the least one pending, its targets belong to it, the one in hand is one of them | a batch is chosen, loaded and published step by step |

`RolloutImplementsCampaign` (`KeepsCampaign`) takes these rules together (`CInv`, without `CountRule`,
since completion is not in the promise) and one more, `KeptRule`: a command the broker or a device keeps was
published, who asks is one of those who may, and the batch being sent has a number. Each action of
`Rollout` is then shown to be one of `Campaign` or to leave it alone; `CreateRollout` needs the
arithmetic, which is two theorems of its own, for any number of devices and any percentage:
`BatchSizeIsShare` (`batchSize` rounds up to the least number that is the percentage or more, between one and all) and
`BatchesDivide` (the batch numbers of a sorted list of devices fill every batch before the next one starts).
Counting the first devices of an order rests on the library's theorems on cardinalities of intervals and
bijections.

Accounts: every proof starts from `TInv`: the types, for each request what its handler has read by then
(`RequestOK`) and what it has at hand at its place within a call (`PlaceOK`). A step of one request keeps
this for the others because what a request refers to only grows (`Grows`: a session once opened stays
whose it is, a token once made, a state once used, a time once come). `TokenSteps` and `GrantSteps`
say once which commands a step can be made of.

| theorem | rule | why it is needed |
|---|---|---|
| `AccountTypes` | `TInv` | what a request uses now was checked, or given, several steps before |
| `CopiesServedInTime` | `CopiesMade`: only tokens that were made have copies | a token's grant, by which its refresh value ends, is set when it is made |
| `CopiesAccountedFor` | none besides `TInv` | `Accounted` says what a step owes: each copy it sets, each row it deletes |
| `LastPairKept` | `GrantInv`: the pair a refresh will remove is not the last of its grant from the moment it has made the next | the removal comes calls after the creation, with other refreshes between |

`AccountsQuietProofs` has the three promises to users for whom nothing fails and nothing is done in parallel,
`DeletionIsComplete`, `GrantHasOnePair` and `IdentityIsKept` (`LinkIsKept`). The others'
requests are not restricted, so the rule has to say
what they cannot touch. `QInv` is, beside `TInv` and `CopyHasRow`:

- `OwnersOK`: a request copies and purges tokens of its own user only, and a grant belongs to one user;
- for each undisturbed user, `Alone`: at most one request acts for the user;
- `Kept`: what the stores hold of the user. A session is listed, or in the hands of the request that is about
  to list it or delete its key; a deleted user has no session and no row left unless the deletion is still
  at work; no copy outlived its token; two pairs of a grant have rows only while a refresh is about to
  remove one of them;
- `Knows`: what the one request can rely on at each place: that the members it read are all the user's
  sessions, that the tokens it found are all the user's rows, that the row it is about to copy is still there,
  that the copies of the old pair are gone when the removal by refresh value looks for its row, that the
  account it is about to save an identity to has none.

What it says of copies is what `removeByLookup` needs: it deletes a row only when no copy was found, so a pair loses its
row because the removal by access value has deleted all copies before. What it says of the account is the whole
of `IdentityIsKept`: it holds from the check to the save because, as `Alone` says, whoever else writes an
identity in between writes another user's, or makes that user disturbed.

`AuthorityProofs` has `AccountsImplementAuthority` (`KeepsAuthority`). Its rule `AInv` is `TInv` with

- `Relies`: what a request still relies on after the check. The answer a callback holds belongs to a
  spent state; a login callback's state names no user and a link callback's the one it links; from the
  session check on its session is that user's, from the account check on the account exists; a deletion by an
  admin runs in an admin's session;
- `AnswersOnce`: no two requests hold the same answer, so using one leaves none behind;
- `StatesOK`: a state offered for a login names no user.

All three last through what other requests do, because whose a session is, what a state was offered for and
that a row exists never change back (`Lasts`); that, and one lemma for each call saying which step of
the promise it is, are the proof. What lives shorter, a session's key or an account being active, cannot be relied on
by any request, which is why `Authority` lets a link bring an account back (finding 5).

Only model-checked: the two liveness properties (fairness and `ENABLED` are out of the prover's reach) and
the violated properties.

## What the models assume

- One backend process, as `docker-compose.yml` runs it. With two, `WorkerIdle` would not hold across
  processes and stale claims could be requeued under a live task.
- A transaction is atomic and a statement sees what was committed; row locks order the rest.
- An answer of dynamic security belongs to the last command and says what happened. `dynsec.go:94` takes
  the next message of a channel; the channel is drained before each command, but an answer later than the
  five seconds a command waits may come after that.
- `ProvisionHomeAccess`'s own clean-up after an error is one step with the failure, leaving anything.
- `token.Wait()` returns: what the MQTT library's dispatcher does while a handler waits in it
  (`mqtt.go:82`, `ota.go:51-60`) is outside the repository.
- `HomeJobs` keeps a deleted user's row deleted; a link callback may bring it back (finding 5), which
  changes nothing for the user's homes, whose deletion is queued by then.
- Revoking a home's access that reports success has removed client and role. `CleanupHomeAccess` sends both commands
  in one exchange and looks at the first error of the answers only (`dynsec.go:98-101`, `:207`): an error of
  `deleteRole` other than "not found" behind a client that was not found would pass for success.
- `Rollout` has one `rolloutFirmware` (`admin`) and one `triggerDeviceUpdate` (`asking`) in flight. Two
  admins at the same moment could each cancel the rollouts there are and then each create one, and both
  would be active; that is not modelled.
- `ScheduleUserDeletion` is one step, although it reads the user's row without locking it, and so are reading
  `admin_users` with the creation of a session, a `Save` with its fallback, and the TTL of a copy with its
  `SET`. A user's id and name are one; names are unique, deleted rows included.
- The OAuth library (go-oauth2 v4, outside `src/`) makes the calls of `Script` in that order; values and
  session tokens are random and never repeat.
- The session is checked in the action that commits, for requests of one action. A request that passed the
  check before the sessions ended and commits after is the behaviour in which `EndSessions` comes a
  little later: nothing else reads the sessions.
- Times (retry delays, stale thresholds, batch intervals) are choices. Nothing in the safety properties
  depends on one; liveness uses fairness instead.

## Not modelled

Formatting, parsing and validation of requests, topics and payloads; listings; the Google fulfilment
(a function of the cache); key exchange and encryption for BLE provisioning (library calls without
state); migrations; the web console and the load tests; the devices' sensors. `PROJECT.json` gives the
reason for each component.

What is left outside for good, and why: the MQTT library's dispatcher, since what it does with a handler that
waits cannot be read from this repository; answers of dynamic security that are later than their
command's time-out, which need a broker slower than five seconds; SYNC, QUERY and EXECUTE, which translate
the cache and keep no state.
