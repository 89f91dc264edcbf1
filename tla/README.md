# A TLA+ model of cnpg-plugin-wal-g

cnpg-plugin-wal-g is a CloudNativePG (CNPG) plugin that takes and manages
PostgreSQL backups with wal-g. An *operator* reconciles `BackupConfig` and
`Backup` resources and deletes outdated backups from the storage; an *instance*
sidecar next to each PostgreSQL server runs wal-g for backups, WAL files and
restores. This directory models the parts where objects, caches, queues and
the storage can get out of step, checks them with TLC, and proves the central
safety properties with TLAPS.

`PROJECT.json` lists components, runs, mutants, the map from definitions to
source lines, findings, hazards and theorems. To repeat a run:
`tlc -config Lifecycle.cfg MCBackupLifecycle`; a proof:
`tlapm BackupLifecycleProofs.tla`.

## 1. The system

| Component (source) | State | Operations | What makes it correct |
|---|---|---|---|
| Backup reconciler (`controller/backup_controller.go`) | none of its own; the Backup's owner reference, labels, annotations, finalizer | one Reconcile: owner reference, metadata of the Backup and of its relatives, finalizer, permanence; for a terminating Backup: enqueue its deletion | finalizer present before data can be lost; the dependents annotation of a base names its deltas |
| Deletion controller (`backup_delete_controller.go`) | one channel (128) and goroutine per BackupConfig, a semaphore of 10 | enqueue, take, delete in the storage, drop the finalizer; wipe the storage of a deleted BackupConfig | removes only what was asked for; the finalizer goes after the data; a deletion is not lost |
| BackupConfig reconciler (`backupconfig_controller.go`) | finalizers of the config and of referenced Secrets and ConfigMaps | protect references; on deletion wait for child Backups, then enqueue the wipe | no wipe under existing Backups; what is referred to gets protected |
| Secret and ConfigMap reconcilers (`secret_reconciler.go`, `configmap_reconciler.go`) | finalizers, a timer of 30 s | release what no config refers to | a protected object stays while its config does; an unreferenced one can go |
| Retention controller (`retention_controller.go`) | a ticker | list, sort, decide, delete one by one | keeps the newest `minBackupsToKeep`; old ones go |
| Status controller (`backupconfig_status_controller.go`) | a queue, an in-flight set, three workers, remembered archive checks | rounds; resolve references, check the storage, write conditions; throttled archive scan, a result kept until it can be saved | no result of another configuration in a status; the status becomes current |
| wal-g client (`pkg/walg`) | files with certificates and keys, and a map of what is in them | push, fetch, list, mark, delete; dependents; choice of a backup for recovery | dependents are complete; the chosen backup is the best; files hold current data |
| Process runner and reaper (`internal/util/cmd`) | a map pid -> channel under a lock | start and subscribe, wait, unsubscribe; reap on SIGCHLD | every Run gets its own exit status and returns |
| Resource caching client (`pkg/resourcecachingclient`) | cache entries and watches | Get with watch, invalidate on failed writes | entries follow the API server |
| Operator plugin (`internal/operator`) | encryption Secrets, Roles, RoleBindings, sidecars of Jobs and Pods | Pre for each reconcile of a Cluster; lifecycle hook | one key for each config; Roles cover what sidecars read; the sidecar's mode fits |
| Instance services (`internal/instance`) | a running restore | backup, WAL archive and restore, restore, metrics | recovery from the right source and backup |
| References (`api/v1beta1/backupconfig_secrets.go`, `backupconfig_roles.go`, webhook) | none | what a spec refers to: what is read, protected, put into a Role; validation | |
| Entry points, manager, metrics, identity | none | wiring | |

How they interact: reconcilers read objects from informer caches that lag behind
the API server, and write with optimistic locking (`Update`) or without it (merge
`Patch`). A Reconcile hands a *name* to the deletion channel; the channel's
goroutine reads the object again from the cache, runs wal-g for minutes and then
drops the finalizer. The retention controller and users only issue DELETE calls;
CNPG and the sidecar create data in the storage and record its id in the status.
CNPG calls the operator plugin in every reconcile of a Cluster; the sidecar it
injects reads BackupConfig, Secrets and ConfigMaps through the caching client,
with the Role the operator made. The status controller writes the condition the
deletion worker decides on. The reaper and every running wal-g command share one
map; every goroutine that runs wal-g shares the files it reads.

Hard behaviours: copies that are old when used, reconciles that patch each
other's objects, a worker that does not retry, requests that outlive their
object, requests that are dropped, crashes between two effects, results that
come after the configuration changed, events lost between a query and a watch,
pids that are used again, signals that are merged, a sort with a comparison that
is not an order, a lock that is released between a look-up and its use.

## 2. Modules

| Module | Models | Composes |
|---|---|---|
| `Dependents` | names of wal-g backups and the dependency relation (`GetDependentBackups` as the least closed set) | |
| `BackupLifecycle` | Backup reconciler, deletion channel and worker, deletion branch of the BackupConfig reconciler, API server, informer cache, storage | `Dependents` |
| `BackupPromise` | the abstract specification: what a user is promised of Backups and their data | `Dependents` |
| `BackupRefinement` | the refinement mapping from `BackupLifecycle` to `BackupPromise` | both |
| `DependentSearch` | the breadth-first search of `GetDependentBackups` as a state machine | `Dependents` |
| `ProcessReaper` | `internal/util/cmd`: Run, the reaper and the kernel between them | |
| `Retention` | the sweeps of the retention controller | |
| `References` | what a BackupConfig spec refers to, as the prefetch, the protection, the Role and the webhook see it | |
| `StatusController` | rounds, queue, workers, availability, archive scans and their late writes | |
| `ReferenceProtection` | finalizers of Secrets and ConfigMaps: three reconcilers and their caches | `References` |
| `ResourceCache` | the caching client for one object: Gets, watches, invalidation | |
| `ClusterPlugin` | Pre, Roles, hook, restore and WAL services of several Clusters | `References` |
| `CachedFile` | `ensureCachedFile` called by several goroutines | |
| `*Proofs` | theorems about the module of that name | |
| `MC*` | instances for TLC: initial chains of backups, specs, clusters, lists of names | |

### BackupLifecycle

State and code: `api` and `cfg` are the objects in the API server, `cache` the
informer's copies, `workq` the work queue, `rpc rb rcopy rlist rtodo` the running
Reconcile (program counter, key, the object it passes along, its list result),
`queue` the channel, `wpc wb wcopy` the goroutine of `processDeletionQueue`,
`phys perm parent push` the storage (data, permanent marks, bases) and the
`backup-push` commands. Each API or wal-g call is one action, named after the
function that makes it, so that everything else may happen between two calls.

What is abstracted, and why it does not matter to the properties:
- An `Update` conflicts if the caller's copy differs from the stored object. The
  resource version also changes with writes that leave the content alone; those
  conflicts are failed calls, which are modelled anyway.
- A Backup's `meta` says whether the plugin's labels are written and whether the
  type label is among them; `deps` is the annotation with all dependents.
  `phase = completed` stands for a status with a BackupID.
- The BackupConfig is read without lag; the Cluster is taken to exist, and the
  label with the PostgreSQL version is left out.
- wal-g, seen from its use: `delete target` removes a backup and every delta on
  top of it and refuses permanent ones, `backup-mark` marks the bases too. A call
  that fails may or may not have had its effect (a timeout). `delete garbage`, whose
  result is only logged, is left out: it removes WAL files and remains of backups
  that no Backup stands for. The wipe of a storage, a loop over PostgreSQL versions
  that unmarks first, is one step.
- A name is used again (`Recreate`) only when nothing but a pending request still
  refers to the old object: the model does not tell two backup ids of one name
  apart. The runs and theorems are about names used once (see section 5).
- The checks before a push (system id, LSN) are ways to fail (`FailBackup`).
- A crash loses queues and running work; after it the informers list everything.

### BackupPromise and BackupRefinement

The promise knows Backups with a life (unborn, live, terminating, gone), whether
they are recorded and guarded, the data in the storage and its bases, whether the
config is there to stay, the last report on the storage, and the Backups whose data
it was decided to leave. `Remove` needs a deletion that was asked for. `Leave` needs
a Backup being deleted and a storage reported unwritable at that moment. `Release`
of a recorded Backup needs its data gone, or left by `Leave`, or a config that is
ending. `Store` needs that nothing is recorded yet. The mapping: `life` is
`api[b].st`, `recorded` the completed Backups, `guarded` those with the finalizer,
`data` is `phys`, `base` is `parent`, `open` says that the config is live, `writable`
is its StorageWritable condition, and `left` is the Backup whose finalizer the worker
is about to drop with a completed copy in hand while its data is there. So the
worker's step to `unfinalize` must itself be a `Leave`, taken with the condition
False: a finalizer may go without the data only for the reason the code names
(`backup_delete_controller.go:285`), and a condition that changes afterwards alters
nothing. `Keeps` is `IgnoreForBackupDeletion`, the option by which the code leaves
all data. Caches, queues, the reconciler, owner references, labels and annotations
are invisible: each of their steps is a stutter.

### DependentSearch

`depsQueue` and `knownDependencies` as in the code; the queue is a set, since the
result does not depend on its order. Each step handles one queued backup.

### ProcessReaper

One action per critical section (fork and subscribe; one wait4 and delivery;
unsubscribe) and per blocking call (`wait`, `cmd.Wait`). The kernel has a few
pids which it uses again as soon as a process is collected, by either side. The
goroutines that copy the output, for which `cmd.Wait` waits too, end with the
process and are left out: a grandchild that keeps the pipe open is not modelled.
`reaper = "off"` until the reaper has registered for SIGCHLD.

### Retention

One config. A sweep lists the Backups in any order, sorts them the way
`sort.Slice` does for up to 12 elements (insertion, with the code's comparison),
decides, and deletes one after the other while everything else goes on.
`StartedAt` is in the status only of completed Backups. The sort (`InsertionSort`)
and the loop that selects (`Chosen`) are recursive functions over the list, written
so that they can be reasoned about for any length. Listing and deciding are
one step: they make no call in between, and the cache's lag (seconds) is small
against the retention period (hours). A new Backup is picked up by CNPG within a
tick: one whose phase stays empty for the whole period would be treated as
finished by the code. A sweep's Delete of a Backup that is gone changes nothing.
`known` is a history: the deletions a running sweep saw in its list or made itself.
What the properties count as left are the completed Backups without those, so that
the filter of the list (`:111`) matters; of a deletion by a user after the list call
the code cannot know. `Incremental` are the Backups wal-g makes a delta for, which
the code does not tell from others: only the finding `retention_full` uses it.

### StatusController

`queue`, `inFlight` and `checks` (archiveChecks) are the controller's fields,
`wpc wkey wconfig wstatus wsecret wscan` its goroutines with what they read. A
worker takes a key, gets the config, prefetches what it refers to, writes either
the invalid credentials or the availability, scans the archive unless a scan of
the same configuration is recent, and saves the result after a second read that
compares UID and generation; a result that could not be saved is kept in `checks`
and written by a later reconcile if UID, generation and the hash of what was
resolved are unchanged. `secret` is that hash: 0 if something is missing. A scan
hits its deadline, checks fail, updates conflict, the operator restarts. The
archive fields of a status carry the identity they were scanned with (`of`), a
history the property needs. Times of Backups and sizes of the storage are left
out: the code writes and never reads them, and keeps old ones where the model
resets the archive fields.

### References, ReferenceProtection

`References` has three sets of objects for a spec: what the prefetch reads
(`Reads`), what is protected (`getSecretReferences...`, `getConfigMap...`) and what
the Role names (`collectSecretsAndConfigMapsNames`, by storage type, while the
prefetch looks at both storages if both are given). They differ where the code's
lists differ. `validateBackupConfig` is the webhook; users only get specs it
admits. Names and keys are never empty here, so the webhook's checks for that are
left out.

In `ReferenceProtection` the BackupConfig reconciler (`btodo bconf bobj`) takes
the references of the cached config one by one: get from the cache, add the
finalizer with an optimistic lock, log errors. The two object reconcilers
(`rpc rcopy`) get the object, list the configs in the cache and update. A copy is
`fresh` while nobody wrote the object since. `ignoreForBackupConfigDeletion` is
taken as not set; that a config's deletion ends is `BackupLifecycle`'s matter
(`FinishConfig`).

### ResourceCache

One object with versions, goroutines that call Get (`gpc gobj gwatch`), watches
with their undelivered events. A Get that misses makes a live query, opens a
watch and stores the entry, in that order and under no common lock; every event
stores or removes, the end of a watch clears the entry, a failed write clears it
without ending the watch. A panic of `copyInto` (the entry was emptied between
the two reads of `cached`) is a restart of the process. That the entry shares its
maps with what callers got (the copies are shallow) is not modelled.

### ClusterPlugin

For each Cluster a Pre in progress (`pc seen`): it reads the archive's and the
recovery source's config, makes missing encryption Secrets, patches the Role if it
differs from the *cached* one, and makes the binding; then the hook gives Job and Pod a sidecar
with a mode. Restore (`rpc rspec rkey rlist rbackup`) gets the config,
prefetches with the permissions of the Role at that moment, lists the backups,
chooses and fetches; each of these calls may fail, and the Job tries again. Each
config has a storage of its own, with the backups of all Clusters that archive
there and the key each was locked with. A target that names a backup overrides its
time and LSN. WAL files are archived and restored by mode. `Timeline` is what the
code computes (always 0), so that its filter passes every backup, and
`BestBackupRestored` speaks only of targets that leave the timeline open or name a
backup. Objects users make are taken to exist here. The sidecar's
reads are live: that the caching client may return older objects is the subject of
`ResourceCache` and not combined with the restore here.

### CachedFile

The map's look-up, the write of the file and the assignment to the map are three
steps of a goroutine, as in the code: the lock is not held across them.

## 3. Runs

| Run | Instance | Shows |
|---|---|---|
| `lifecycle` | one settled full backup, a second Backup from creation on, the config deleted too, one failure or crash, channel of 1 | `TypeOK`, `DeletionInv` (the inductive invariant), `OnlyDeletedRemoved`, `FinalizerGuardsData`, `DependentsNotForgotten`, `KeepsPromise` (the refinement) |
| `deletion` | two stacked backups and the config, storage reported unwritable and writable again, one failure or crash | `KeepsPromise`, `DeletionCompletes`, `ConfigDeletionCompletes` |
| `search` | all lists over WAL ids up to 4, all parents | `SearchCorrect`, `SearchEnds` |
| `reaper` | 2 commands, 1 orphan, 2 pids | `OwnStatus`, `StatusOnItsWay`, `SubscriptionsLive`, `RunReturns`, `ZombiesCollected` |
| `retention` | 3 Backups, one manual and ignored, one that may be pending for long, users delete too, 1 failure or crash | `SweepInv` (the inductive invariant), `EnoughKept`, `NewestKept`, `OldBackupsGo` |
| `status` | 2 configs, 2 workers, a queue of 1, a change and a failure | `TypeOK`, `OneWorkerPerConfig`, `OnlyOwnResults`, `CredentialsShown`, `ArchiveChecked` |
| `cache` | 2 Gets, 2 watches, 3 versions, 1 fault | `TypeOK`, `EntryWatched`, `CacheCatchesUp` |
| `protection` | a Secret, a ConfigMap, a config with two admissible specs and one the webhook refuses, 3 events | `TypeOK`, `AddedFinalizersHold`, `DyingObjectsGo`, `ReferencedGetProtected` |
| `recovery` | a Cluster that archives, one that recovers from its archive, no target and four kinds of target (time, LSN, timeline, named backup), an event | `TypeOK`, `BestBackupRestored`, `KeysFit`, `RecoversFromSource`, `ClustersRecover` |

What the properties of the last four rows say: no two workers share a config, and a
write to a status leaves no scan result in it but one of the stored object and
generation and the values resolved; once changes stop, the status shows the
credentials and a scan of the current configuration, though requests are dropped
and rounds skipped. A cache entry always has a watch that will clear it, and the
cache ends up with the object as it is or with nothing. A finalizer put on for a
config stays while that version of the config is there; unreferenced objects
being deleted go; what is referred to gets its finalizer if events of the config
recur. The latest listed backup that a target without a timeline allows is restored, the key in a
config's Secret is the one its backups are locked with, WAL comes from the
recovery source only, and the Cluster is restored.

Bounds. Two Backups suffice for every race between a Backup and a delta on it;
indirect dependents are the subject of `search`. `QueueCap` 1 stands for 128 and
`QueueSize` 1 for 256: the queue is full, and a request waits behind the one being
served. One
failure or crash can hit every step; a second one restarts from a state that the
first one can already leave. Two pids for two commands and an orphan make a pid
pass from a Run that has not returned to a new one. The clock of the retention run
goes past the retention period of several Backups, so that old and young Backups
coexist. Two configs compete for one place in the status queue; a change of a
config or its Secrets meets a scan in progress and, with the failure, a result
waiting to be saved. Two watches are what `clearEntryByKey` leaves after a failed
write; three versions let an event be late and one be missed. Three events in
`protection` make a config appear, change and go while an object reconciler is
between its list and its update. In `recovery` two Clusters ask for one key at
once, and the one event is a late or changed config, a failed call, or a backup
deleted under the restore. `CHECK_DEADLOCK FALSE`: with all Backups gone, all Runs
returned, the search over, the clock at its bound or nobody calling Get the
system really stops.

Fairness.
- `BackupLifecycle`: informers deliver, goroutines run, resyncs recur, and the
  work queue is first-in first-out, so that no key is starved (strong fairness of
  `StartReconcile`). `EagerResync = FALSE` in the run `deletion` says that the
  10-hour resync does not come again before the queues are worked off. Nothing is
  assumed of users, CNPG or the sidecar.
- `ProcessReaper`: goroutines run, signals arrive and a killed process dies;
  nothing makes a command end by itself or a context expire.
- `Retention`: the clock goes on and the ticker fires again and again; CNPG starts
  Backups.
- `StatusController`: goroutines run and ticks recur. The list a round works on
  comes out of a Go map in random order, so every config is first again and again
  and finds room in the queue (strong fairness of its request).
- `ResourceCache`: API servers end every watch after a time; goroutines run;
  nothing makes anyone call Get.
- `ReferenceProtection`: caches catch up, timers fire, work queues are first-in
  first-out (strong fairness of taking a key). Events of a config without a change
  (resync, status updates) are not promised: `ReferencedGetProtected` names them
  as its own premise, because swallowed errors leave nothing else.
- `ClusterPlugin`: CNPG reconciles again after errors and when a Job or Pod
  changes, the Job calls Restore again, informers deliver; nothing makes a Cluster
  push backups or a Job end. It is assumed of the recovering Clusters only, since
  `ClustersRecover` needs no more.
- `CachedFile`: goroutines run, and the periodic status check means that there
  are always further wal-g commands.

### Findings (runs that expect a violation)

| Run | What happens |
|---|---|
| `dependent_race` | the dependents annotation is read before `delete target`; a delta completed in between is removed with its base |
| `retention_full` | `minBackupsToKeep` is documented as a number of full backups; the code counts incremental ones too, and a sweep takes a full Backup although fewer full ones are left |
| `cached_file` | two goroutines write a certificate file around one rotation of its Secret: the file keeps the old data, the map says it holds the new, and no later call writes it |

## 4. Proofs

- `BackupLifecycleProofs`. `TypeCorrect`: `Spec => []TypeOK`, for every set of
  Backups, queue size and number of failures. `DeletionsAreReal`:
  `Spec => []DeletionInv` if names are not used again (`~Recreate`). That a removal
  was asked for is not inductive: the worker relies on the request, the request on
  the Reconcile that saw a deletion timestamp in the cache, the cache on the API
  server. `DeletionInv` says that none of the four is ahead of the API server, and
  since no deletion is ever taken back (lemma `NoReturn`) it survives every
  interleaving. From it follows `RemovalsAreRequested` (`OnlyDeletedRemoved`).
  `FinalizersGuardData` (`FinalizerGuardsData`) assumes `Managed`: names are not
  used again, the storage is not reported unwritable and the ignore option is off,
  the cases in which the code drops the finalizer without touching the storage
  (`PromiseIsKept` covers them). The config may be deleted meanwhile. Its
  invariant `DataInv` adds that a recorded BackupID means that the push is over
  (so removed data does not come back) and that the worker reaches the finalizer
  of a completed copy only when the data is gone; the optimistic lock excludes the
  case that its copy was not yet completed.
- The refinement, in the same module. `PromiseIsKept`: `Spec => KeepsPromise`, that
  is, `BackupLifecycle` implements `BackupPromise`, if names are not used again; the
  config may be deleted, the storage become unwritable and deletion be left to the
  user. That a Backup is released with its data only after a `Leave` holds because
  nothing but the worker's own step, under the condition, brings it to `unfinalize`
  with data in place, and no push stores data for a completed Backup. `PromiseInv` is `DataInv` together with two facts on single objects: a
  terminating Backup has its finalizer, and an unborn one has neither finalizer nor
  push. One lemma per action that the promise sees names the abstract step; the
  others leave the mapped variables alone.
- The annotations, in the same module. `DependentsStay` (`DependentsNotForgotten`),
  if names are not used again. Annotations are computed from a list in the cache
  and written by a merge patch without a lock, so a computation on an old list may
  be written after a newer one. `DepsInv` says why this loses nothing: no copy is
  ahead of its object in BackupID and ownership (`CopiesBehind`); an object without
  BackupID has no dependents yet (`AllDepsLate`); whatever an annotation names is
  ending or is already shown by the cache as live, completed and owned, so that a
  later computation finds it again (`NamedShown`); and a backup is pushed once, on
  top of another (`PushedOnce`).
- `DependentSearchProofs`. `SearchReturnsDependents`: what the search returns is
  the least closed set, for every list. `SearchInv` says that the known backups
  are dependents and that whatever is not queued has been expanded.
- `ProcessReaperProofs`. `ReaperCorrect`, `StatusesAreOwn`, `StatusesArrive`,
  `SubscriptionsStayLive` for any number of commands, orphans and pids. `ReaperInv`
  adds to the properties that living processes have distinct pids.
- `ResourceCacheProofs`. `CacheTypeCorrect` and `EntriesAreWatched`, for any number
  of Gets and watches. `EntryWatched` needs that a watch a Get has opened and not
  yet started belongs to that Get alone (`OpenedByOne`); `WatchInv` is the
  conjunction.
- `StatusControllerProofs`. `StatusTypeCorrect`, `OneWorkerEach` and `ResultsAreOwn`
  (`OnlyOwnResults`) for any finite set of configs and any number of workers and
  failures. That a result is written only for its configuration depends on what
  was remembered long before: `ResultInv` says that the result in a status and a
  pending result agree with the remembered check of the config, and that a worker
  past the availability update holds, leaves in the status and finds remembered
  only results of the configuration it has read. The in-flight set makes it
  inductive: what one worker changes is in no other worker's hands.

- `ReferenceProtectionProofs`. `ProtectionTypeCorrect` and `AddedFinalizersStay`
  (`AddedFinalizersHold`), for any number of configs, objects and failures. The
  danger is an object reconciler that listed the configs before one referred to
  the object and updates after the finalizer was added. `ProtectionInv` says that
  the cache is never older than the version a finalizer was added for, so that a
  later list finds the reference, and that an update begun before has a copy that is
  outdated and is refused (`UpdatesHarmless`).
- `ClusterPluginProofs`, for any set of Clusters, configs, specs and backups.
  `ClusterTypeCorrect` by `TypeInv`, which adds that a Job in recovery mode belongs
  to a Cluster with a recovery source. `RecoveryUsesSource` (`RecoversFromSource`) by
  `SourceInv`. `BestBackupChosen` (`BestBackupRestored`) by `ChoiceKept`: what a
  restore fetches and has fetched is the best backup of the list it made by the
  target's time, LSN or name, whatever is pushed or deleted meanwhile; the theorem
  says so for targets without a timeline. `StoredBackupsReadable` (`KeysFit`) by `KeyInv`: a
  key is generated only where a spec asks for one, once, and before the first backup
  is stored; it assumes `SteadyEncryption`, that users do not switch a config's
  generated encryption on or off.
- `RetentionProofs`, for any finite set of Backups, any policy and any failures.
  `SweepSparesEnough` (`SweepInv`): whatever has happened since the list call, each
  completed Backup still in a sweep's list is protected by `minBackupsToKeep`
  completed ones that the sweep does not know to be deleted and that are not ahead
  of it in the list; and a Backup whose phase is still empty is too young to be in the list. From it
  `EnoughBackupsStay` (`EnoughKept`) and `NewestBackupsStay` (`NewestKept`). The
  protecting set comes from the position in the sorted list, so the proof needs what
  the sort and the selection compute (`SortSorts`, `ChoiceIsOf`). Induction over a
  list's length is done as a least counterexample (`AllRight`, from the library's
  theorem that `<` on `Nat` is well-founded), and the recursive functions are shown
  to exist the same way (`SortSteps`, `ChoiceSteps`). Of the sort only two facts are
  used: it permutes the list, and it orders it if the comparison is an order. Hence
  nothing depends on `sort.Slice` being an insertion sort, which it is only up to 12
  elements.

The assumptions on constants are `LifecycleAssumption`, `ReaperAssumption`,
`CacheAssumption`, `StatusAssumption`, `ProtectionAssumption`, `ClusterAssumption`,
`EncodingAssumption` and `RetentionAssumption`; TLC evaluates them in the runs.

Only model-checked: liveness under fairness, which is out of the prover's reach
(`DeletionCompletes`, `ConfigDeletionCompletes`, `SearchEnds`, `RunReturns`,
`ZombiesCollected`, `OldBackupsGo`, `CredentialsShown`, `ArchiveChecked`,
`CacheCatchesUp`, `DyingObjectsGo`, `ReferencedGetProtected`, `ClustersRecover`), and
the three findings. Every safety property of the passing runs has a theorem.

## 5. Not modelled, and what the properties do not say

Behaviours the models have, or that were seen while reading, and that no property
forbids:
- A deletion request holds a name. Every reconcile of a terminating Backup queues
  one more, and with names used again (`Recreate`) a leftover one removes the data
  of a live Backup created later under that name (`backup_delete_controller.go:237`).
- With the BackupConfig gone the reconcile of a terminating Backup fails before the
  branch written for that case (`backup_controller.go:84`, `backup_delete_controller.go:114`)
  and the finalizer stays; a config that is NotFound further on is dereferenced as
  nil (`backup_delete_controller.go:281`).
- With the StorageWritable condition False, possibly an old one, a finalizer goes
  while the data stays (`:285`); a delta left so stays permanent and wal-g refuses
  to delete its base (`:287`). The wipe of a deleted config takes the data of a
  Backup completed after the look for child Backups. The two ignore options are
  constants no run switches on.
- `cancel` is deferred inside the worker's endless loop (`:206`): timers of served
  requests are released only when they expire.
- The comparison of the retention's sort is not an order with a pending Backup in
  the list (`retention_controller.go:159`), so that a newer completed Backup may go
  before an older one: `NewestKept` and `OldBackupsGo` are about histories where
  none had to wait, `EnoughKept` about all. `EnoughKept` counts completed Backups,
  full or not; for full ones it fails (`retention_full`). Both count a Backup that a
  user deletes after the list call as left.
- Objects named in `prefixFrom`, `regionFrom` and `endpointUrlFrom` are read and
  in the Role but get no finalizer (`backupconfig_configmaps.go:33`). An s3 config
  without `accessKeyId` passes the webhook and makes Pre panic
  (`backupconfig_roles.go:104`).
- Every backup's timeline is 0 (`pkg/walg/backups.go:71`): a target timeline filters
  nothing, and a backup of a later timeline may be restored, which
  `HasMatchingTimeline` (`:79`) is written to exclude. `BestBackupRestored` leaves
  targets with a timeline out.
- A Get of the caching client may panic (`client.go:117`); a restart follows.

Not modelled: the semaphore of ten deletions over several configs and the unlocked
read of the map of channels (one config has one channel and goroutine here); the
times and sizes in a config's status; handlers of the caching client (`GetSource`,
not used by the program); the pg_wal directory and the configuration a restore
returns; defaults of the webhook; settings copied into wal-g's environment;
metrics and identity services, the manager, commands, generated code: pure I/O,
wiring or functions of one object.

## 6. Plan

Done: the core (`BackupLifecycle`, `DependentSearch`, `ProcessReaper`, `Retention`),
the refinement of `BackupPromise`, status controller, caching client, protection,
Clusters and cached files; theorems for every module with a passing run. Next:
1. Theorems about what the models have and no run asks yet: with both ignore
   options on no step touches the storage; a live, reconciled Backup stays
   permanent in the storage.
2. Retention on a list that lags behind: a sweep that starts right after another
   may still see what that one deleted.
3. `DeletionQueues`: several configs, the map of channels, the semaphore; each
   config served.
4. Larger instances of `protection` and `recovery`: two configs on one Secret, two
   events of different kinds.
