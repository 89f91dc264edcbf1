-------------------------- MODULE BackupLifecycle --------------------------
(***************************************************************************)
(* The life of the Backup resources of one BackupConfig: the Backup        *)
(* reconciler, the deletion queue and its worker, the BackupConfig         *)
(* reconciler's deletion branch, the Kubernetes objects they read (through *)
(* a lagging informer cache) and write, and the wal-g storage.             *)
(*                                                                         *)
(* The physical backup of a Backup resource is named after the resource:   *)
(* BackupName(b, parent[b]).  "phase = completed" stands for a status with *)
(* phase completed and a BackupID: CNPG writes both in one status update.  *)
(***************************************************************************)
EXTENDS Naturals, Sequences, FiniteSets, Dependents

CONSTANTS
    Backups,                 \* names of Backup resources
    Manual,                  \* those created by a user: one owner reference
    Config,                  \* the deletion request of the BackupConfig
    QueueCap,                \* capacity of the deletion channel (128 in the code)
    MaxFailures,             \* bound: failed calls and operator crashes
    Recreate,                \* may a name be used again once its object is gone?
    EagerResync,             \* may a resync come while requests are pending?
    MayBeUnwritable,         \* may the StorageWritable condition become False?
    ConfigDeletable,         \* may the user delete the BackupConfig?
    IgnoreForBackupDeletion, \* .spec.retention of the BackupConfig
    IgnoreForBackupConfigDeletion

ASSUME LifecycleAssumption ==
    /\ Manual \subseteq Backups
    /\ NoBase \notin Backups /\ Config \notin Backups
    /\ QueueCap \in Nat \ {0} /\ MaxFailures \in Nat
    /\ {Recreate, EagerResync, MayBeUnwritable, ConfigDeletable,
        IgnoreForBackupDeletion, IgnoreForBackupConfigDeletion} \subseteq BOOLEAN

VARIABLES
    api,      \* the Backup objects in the API server
    cfg,      \* the BackupConfig object
    cache,    \* the operator's informer cache of Backup objects
    workq,    \* the reconciler's work queue
    rpc, rb, rdel, rcopy, rlist, rtodo,   \* the running Reconcile
    queue,    \* the BackupConfig's deletion channel
    wpc, wb, wcopy,                       \* the goroutine that drains it
    phys, perm, parent, push,             \* wal-g storage, backup-push commands
    fails     \* failures so far

apiVars    == <<api, cfg>>
recVars    == <<rpc, rb, rdel, rcopy, rlist, rtodo>>
workerVars == <<wpc, wb, wcopy>>
walgVars   == <<phys, perm, parent, push>>
vars == <<apiVars, cache, workq, recVars, queue, workerVars, walgVars, fails>>

-----------------------------------------------------------------------------
(* Backup objects.  meta: the plugin's labels and annotations, "base" once *)
(* written, "typed" with the backup-type label.  deps: the dependent-      *)
(* backups-all annotation.                                                 *)
Backup == [st : {"unborn", "live", "terminating", "gone"},
           owned : BOOLEAN, fin : BOOLEAN,
           phase : {"new", "completed", "failed"},
           meta : {"none", "base", "typed"}, deps : SUBSET Backups]

NoObject(s) == [st |-> s, owned |-> FALSE, fin |-> FALSE, phase |-> "new",
                meta |-> "none", deps |-> {}]
NoList == [b \in Backups |-> NoObject("gone")]
NewBackup == [NoObject("unborn") EXCEPT !.st = "live"]
Present(o) == o.st \in {"live", "terminating"}

(* The API server drops a terminating object with its last finalizer, and  *)
(* drops a deleted object without one at once.                             *)
Stored(o) == IF o.st = "terminating" /\ ~o.fin THEN NoObject("gone") ELSE o
DeleteCall(o) == Stored([o EXCEPT !.st = "terminating"])

(* client.Update: rejected as a conflict unless the caller's copy is the   *)
(* stored object (optimistic locking on the resource version).             *)
CanUpdate(b, copy) == Present(api[b]) /\ copy = api[b]

(* A call of the API server or of wal-g fails; at most MaxFailures do. *)
CallFails == fails < MaxFailures /\ fails' = fails + 1
CallSucceeds == fails' = fails

-----------------------------------------------------------------------------
(* wal-g's storage.  delete target removes the backup and every delta on   *)
(* top of it; backup-mark also marks the bases a delta needs, and          *)
(* backup-mark -i refuses while a delta on top of it is permanent.         *)
NameOf(b) == BackupName(b, parent[b])
DeltasOn(b) == { c \in phys : NameOf(c) \in
                   GetDependentBackups(NameOf(b), { NameOf(d) : d \in phys }) }
BasesOf(b) == { a \in phys : b \in DeltasOn(a) }

-----------------------------------------------------------------------------
Init ==
    /\ api = [b \in Backups |-> NoObject("unborn")]
    /\ cfg = [st |-> "live", fin |-> ~IgnoreForBackupConfigDeletion, unwritable |-> FALSE]
    /\ cache = api
    /\ workq = {}
    /\ rpc = "idle" /\ rb = NoBase /\ rdel = FALSE /\ rcopy = NoObject("gone")
    /\ rlist = NoList /\ rtodo = {}
    /\ queue = <<>>
    /\ wpc = "idle" /\ wb = NoBase /\ wcopy = NoObject("gone")
    /\ phys = {} /\ perm = {}
    /\ parent = [b \in Backups |-> NoBase]
    /\ push = [b \in Backups |-> "idle"]
    /\ fails = 0

-----------------------------------------------------------------------------
(* The world outside the operator: users, retention, CNPG, the sidecar.    *)

(* A name is used again only when nothing but a pending deletion request   *)
(* still refers to the old object or to its data: the new backup gets a    *)
(* BackupID of its own, which the model does not tell from the old one.    *)
Forgotten(b) ==
    /\ api[b].st = "gone" /\ cache[b] = api[b] /\ b \notin {rb, wb}
    /\ b \notin phys /\ push[b] # "running" /\ \A c \in Backups : parent[c] # b

CreateBackup(b) ==
    /\ api[b].st = "unborn" \/ (Recreate /\ Forgotten(b))
    /\ api' = [api EXCEPT ![b] = NewBackup]
    /\ push' = [push EXCEPT ![b] = "idle"]
    /\ UNCHANGED <<cfg, cache, workq, recVars, queue, workerVars, phys, perm, parent, fails>>

(* The sidecar starts wal-g backup-push; wal-g chooses the base of a delta *)
(* among the stored backups, or makes a full backup.                       *)
StartPush(b) ==
    /\ api[b].st = "live" /\ push[b] = "idle" /\ api[b].phase = "new"
    /\ cfg.st # "gone"
    /\ \E p \in phys \cup {NoBase} : parent' = [parent EXCEPT ![b] = p]
    /\ push' = [push EXCEPT ![b] = "running"]
    /\ UNCHANGED <<apiVars, cache, workq, recVars, queue, workerVars, phys, perm, fails>>

FinishPush(b) ==
    /\ push[b] = "running"
    /\ push' = [push EXCEPT ![b] = "done"]
    /\ phys' = phys \cup {b}
    /\ UNCHANGED <<apiVars, cache, workq, recVars, queue, workerVars, perm, parent, fails>>

(* buildBackupResult finds the pushed backup in the storage and CNPG       *)
(* records its id in the status.                                           *)
CompleteBackup(b) ==
    /\ Present(api[b]) /\ api[b].phase = "new"
    /\ push[b] = "done" /\ b \in phys
    /\ api' = [api EXCEPT ![b].phase = "completed"]
    /\ UNCHANGED <<cfg, cache, workq, recVars, queue, workerVars, walgVars, fails>>

(* Any step of the sidecar fails; data already pushed stays. *)
FailBackup(b) ==
    /\ Present(api[b]) /\ api[b].phase = "new" /\ push[b] # "idle"
    /\ CallFails
    /\ api' = [api EXCEPT ![b].phase = "failed"]
    /\ push' = [push EXCEPT ![b] = "done"]
    /\ UNCHANGED <<cfg, cache, workq, recVars, queue, workerVars, phys, perm, parent>>

(* A user, the retention controller or the garbage collector. *)
DeleteBackup(b) ==
    /\ api[b].st = "live"
    /\ api' = [api EXCEPT ![b] = DeleteCall(@)]
    /\ UNCHANGED <<cfg, cache, workq, recVars, queue, workerVars, walgVars, fails>>

DeleteConfig ==
    /\ ConfigDeletable /\ cfg.st = "live"
    /\ cfg' = [cfg EXCEPT !.st = IF cfg.fin THEN "terminating" ELSE "gone"]
    /\ UNCHANGED <<api, cache, workq, recVars, queue, workerVars, walgVars, fails>>

(* The status controller's last opinion of the storage. *)
StorageStatus ==
    /\ MayBeUnwritable /\ cfg.st # "gone"
    /\ cfg' = [cfg EXCEPT !.unwritable = ~@]
    /\ UNCHANGED <<api, cache, workq, recVars, queue, workerVars, walgVars, fails>>

-----------------------------------------------------------------------------
(* The informer delivers the newest version of an object, which triggers a *)
(* reconcile; a resync triggers one for every cached object.               *)
CacheSync(b) ==
    /\ cache[b] # api[b]
    /\ cache' = [cache EXCEPT ![b] = api[b]]
    /\ workq' = workq \cup {b}
    /\ UNCHANGED <<apiVars, recVars, queue, workerVars, walgVars, fails>>

Resync ==
    /\ EagerResync \/ (workq = {} /\ queue = <<>>)
    /\ { b \in Backups : Present(cache[b]) } \ workq # {}
    /\ workq' = workq \cup { b \in Backups : Present(cache[b]) }
    /\ UNCHANGED <<apiVars, cache, recVars, queue, workerVars, walgVars, fails>>

-----------------------------------------------------------------------------
(* The Backup reconciler (one worker): one action per API call of a        *)
(* Reconcile.  rcopy is the object the code passes along: the cached copy, *)
(* replaced by the server's answer after every successful write.           *)

EndReconcile(requeue) ==
    /\ rpc' = "idle" /\ rb' = NoBase /\ rdel' = FALSE
    /\ rcopy' = NoObject("gone") /\ rlist' = NoList /\ rtodo' = {}
    /\ workq' = IF requeue THEN workq \cup {rb} ELSE workq

Proceed(pc, copy) ==
    /\ rpc' = pc /\ rcopy' = copy
    /\ UNCHANGED <<rb, rdel, rlist, rtodo, workq>>

(* A call failed: the error makes the work queue try the key again. *)
ReconcileError ==
    /\ EndReconcile(TRUE)
    /\ UNCHANGED <<apiVars, cache, queue, workerVars, walgVars>>

(* Mutant of StartReconcile: no look at the deletion timestamp. *)
StartReconcileUnchecked(b) ==
    /\ rpc = "idle" /\ b \in workq
    /\ workq' = workq \ {b}
    /\ IF Present(cache[b])
         THEN rdel' = TRUE /\ rpc' = "metadata" /\ rb' = b /\ rcopy' = cache[b]
         ELSE UNCHANGED <<rpc, rb, rdel, rcopy>>
    /\ UNCHANGED <<apiVars, cache, rlist, rtodo, queue, workerVars, walgVars, fails>>

StartReconcile(b) ==
    /\ rpc = "idle" /\ b \in workq
    /\ workq' = workq \ {b}
    /\ IF Present(cache[b])
         THEN /\ rdel' = (cache[b].st = "terminating")
              /\ rpc' = IF rdel' THEN "metadata" ELSE "owner"
              /\ rb' = b /\ rcopy' = cache[b]
         ELSE UNCHANGED <<rpc, rb, rdel, rcopy>>
    /\ UNCHANGED <<apiVars, cache, rlist, rtodo, queue, workerVars, walgVars, fails>>

reconcileOwnerReference ==
    /\ rpc = "owner"
    /\ \/ /\ rcopy.owned
          /\ Proceed("metadata", rcopy)
          /\ UNCHANGED <<api, fails>>
       \/ /\ ~rcopy.owned /\ cfg.st # "gone" /\ CanUpdate(rb, rcopy)
          /\ api' = [api EXCEPT ![rb].owned = TRUE]
          /\ Proceed("metadata", api'[rb])
          /\ CallSucceeds
    /\ UNCHANGED <<cfg, cache, queue, workerVars, walgVars>>

(* The Backups of this BackupConfig in the cache, those with a BackupID,   *)
(* and the ones among them that depend on b and are not being deleted.     *)
listBackupsOwnedByBackupConfig ==
    { c \in Backups : Present(cache[c]) /\ cache[c].owned }

(* Mutant of buildDependentBackupsForBackup: the deletion timestamp of the *)
(* base is tested where that of the dependent is meant.                    *)
DependentsOfLive(b, o) ==
    LET withID == { c \in listBackupsOwnedByBackupConfig : cache[c].phase = "completed" }
    IN  IF o.phase # "completed" THEN {}
        ELSE { c \in withID :
                 /\ o.st = "live"
                 /\ NameOf(c) \in GetDependentBackups(NameOf(b), { NameOf(d) : d \in withID }) }

buildDependentBackupsForBackup(b, o) ==
    LET withID == { c \in listBackupsOwnedByBackupConfig : cache[c].phase = "completed" }
    IN  IF o.phase # "completed" THEN {}
        ELSE { c \in withID :
                 /\ cache[c].st = "live"
                 /\ NameOf(c) \in GetDependentBackups(NameOf(b), { NameOf(d) : d \in withID }) }

(* The object reconcileBackupMetadata computes from copy o of Backup b. *)
WithMetadata(b, o) ==
    [o EXCEPT !.deps = buildDependentBackupsForBackup(b, o),
              !.meta = IF o.phase = "completed" THEN "typed"
                       ELSE IF o.meta = "none" THEN "base" ELSE o.meta]

(* The merge patch holds only the fields that differ from the old copy. *)
Patched(o, old, new) ==
    [o EXCEPT !.deps = IF new.deps = old.deps THEN @ ELSE new.deps,
              !.meta = IF new.meta = old.meta THEN @ ELSE new.meta]

(* After its own metadata an incremental goes on to every other Backup of  *)
(* the config, with the copies of one list call.                           *)
AfterMetadata(copy) ==
    LET others == listBackupsOwnedByBackupConfig \ {rb}
    IN  /\ rcopy' = copy
        /\ IF copy.meta = "typed" /\ IsDelta(NameOf(rb)) /\ others # {}
             THEN rpc' = "others" /\ rtodo' = others /\ rlist' = cache
             ELSE rpc' = (IF rdel THEN "enqueue" ELSE "finalizer") /\ UNCHANGED <<rtodo, rlist>>
        /\ UNCHANGED <<rb, rdel, workq>>

reconcileBackupMetadata ==
    LET new == WithMetadata(rb, rcopy)
    IN  /\ rpc = "metadata" /\ rcopy.owned /\ cfg.st # "gone"
        /\ \/ /\ new = rcopy
              /\ AfterMetadata(rcopy)
              /\ UNCHANGED <<api, fails>>
           \/ /\ new # rcopy /\ Present(api[rb])
              /\ api' = [api EXCEPT ![rb] = Patched(@, rcopy, new)]
              /\ AfterMetadata(api'[rb])
              /\ CallSucceeds
        /\ UNCHANGED <<cfg, cache, queue, workerVars, walgVars>>

(* One of the other Backups; an error is logged and the loop goes on. *)
reconcileRelatedBackupsMetadata(c) ==
    LET old == rlist[c]
        new == WithMetadata(c, old)
    IN  /\ rpc = "others" /\ c \in rtodo
        /\ \/ /\ new = old \/ ~Present(api[c])
              /\ UNCHANGED <<api, fails>>
           \/ /\ new # old /\ Present(api[c])
              /\ \/ api' = [api EXCEPT ![c] = Patched(@, old, new)] /\ CallSucceeds
                 \/ UNCHANGED api /\ CallFails
        /\ rtodo' = rtodo \ {c}
        /\ IF rtodo' = {}
             THEN rpc' = (IF rdel THEN "enqueue" ELSE "finalizer") /\ rlist' = NoList
             ELSE UNCHANGED <<rpc, rlist>>
        /\ UNCHANGED <<cfg, cache, workq, rb, rdel, rcopy, queue, workerVars, walgVars>>

reconcileFinalizers ==
    /\ rpc = "finalizer" /\ cfg.st # "gone"
    /\ \/ /\ rcopy.fin = ~IgnoreForBackupDeletion
          /\ Proceed("permanence", rcopy)
          /\ UNCHANGED <<api, fails>>
       \/ /\ rcopy.fin = IgnoreForBackupDeletion /\ CanUpdate(rb, rcopy)
          /\ api' = [api EXCEPT ![rb] = Stored([@ EXCEPT !.fin = ~IgnoreForBackupDeletion])]
          /\ Proceed("permanence", [rcopy EXCEPT !.fin = ~IgnoreForBackupDeletion])
          /\ CallSucceeds
    /\ UNCHANGED <<cfg, cache, queue, workerVars, walgVars>>

(* wal-g backup-mark for a completed Backup whose only owner is the config. *)
NeedsMark == rcopy.phase = "completed" /\ rb \in Manual

reconcileBackupPermanence ==
    /\ rpc = "permanence"
    /\ \/ ~NeedsMark /\ UNCHANGED perm
       \/ /\ NeedsMark /\ cfg.st # "gone" /\ rb \in phys
          /\ perm' = perm \cup {rb} \cup BasesOf(rb)
    /\ EndReconcile(FALSE)
    /\ UNCHANGED <<apiVars, cache, queue, workerVars, phys, parent, push, fails>>

(* The calls of a Reconcile that can go wrong: the BackupConfig is gone,   *)
(* the object is gone or newer than the copy, the backup to mark is not in *)
(* the storage, or the call itself fails.                                  *)
ReconcileFails ==
    \/ /\ rpc = "owner" /\ ~rcopy.owned
       /\ \/ cfg.st = "gone" /\ UNCHANGED fails
          \/ ~CanUpdate(rb, rcopy) /\ UNCHANGED fails
          \/ CallFails
       /\ ReconcileError
    \/ /\ rpc = "metadata"
       /\ \/ cfg.st = "gone" /\ UNCHANGED fails
          \/ WithMetadata(rb, rcopy) # rcopy /\ ~Present(api[rb]) /\ UNCHANGED fails
          \/ WithMetadata(rb, rcopy) # rcopy /\ CallFails
       /\ ReconcileError
    \/ /\ rpc = "finalizer"
       /\ \/ cfg.st = "gone" /\ UNCHANGED fails
          \/ rcopy.fin = IgnoreForBackupDeletion /\ ~CanUpdate(rb, rcopy) /\ UNCHANGED fails
          \/ rcopy.fin = IgnoreForBackupDeletion /\ CallFails
       /\ ReconcileError
    \/ /\ rpc = "permanence" /\ NeedsMark
       /\ \/ (cfg.st = "gone" \/ rb \notin phys) /\ UNCHANGED fails
          \/ CallFails
       /\ ReconcileError

(* Mutant of EnqueueBackupDeletion: the full channel is not noticed. *)
EnqueueUnbounded ==
    /\ rpc = "enqueue" /\ cfg.st # "gone"
    /\ queue' = Append(queue, rb)
    /\ EndReconcile(FALSE)
    /\ UNCHANGED <<apiVars, cache, workerVars, walgVars, fails>>

(* The end of a terminating Backup's Reconcile.  Without the BackupConfig  *)
(* the finalizer goes at once; a full channel means another try later.     *)
EnqueueBackupDeletion ==
    /\ rpc = "enqueue"
    /\ \/ /\ cfg.st # "gone" /\ Len(queue) < QueueCap
          /\ queue' = Append(queue, rb)
          /\ EndReconcile(FALSE) /\ UNCHANGED api
       \/ /\ cfg.st # "gone" /\ Len(queue) >= QueueCap
          /\ EndReconcile(TRUE) /\ UNCHANGED <<api, queue>>
       \/ /\ cfg.st = "gone"
          /\ IF CanUpdate(rb, rcopy)
               THEN /\ api' = [api EXCEPT ![rb] = Stored([@ EXCEPT !.fin = FALSE])]
                    /\ EndReconcile(FALSE)
               ELSE EndReconcile(TRUE) /\ UNCHANGED api
          /\ UNCHANGED queue
    /\ UNCHANGED <<cfg, cache, workerVars, walgVars, fails>>

(* Mutant of ReconcileConfig: no look at the deletion timestamp. *)
ReconcileConfigUnchecked ==
    /\ cfg.st # "gone"
    /\ listBackupsOwnedByBackupConfig = {}
    /\ Len(queue) < QueueCap
    /\ queue' = Append(queue, Config)
    /\ UNCHANGED <<apiVars, cache, workq, recVars, workerVars, walgVars, fails>>

(* The BackupConfig reconciler: a terminating config is queued for cleanup *)
(* once no Backup in the cache has it as owner (and again every 7 minutes). *)
ReconcileConfig ==
    /\ cfg.st = "terminating"
    /\ listBackupsOwnedByBackupConfig = {}
    /\ Len(queue) < QueueCap
    /\ queue' = Append(queue, Config)
    /\ UNCHANGED <<apiVars, cache, workq, recVars, workerVars, walgVars, fails>>

-----------------------------------------------------------------------------
(* The goroutine of the BackupConfig's deletion channel.                   *)

WorkerGoes(pc, b, copy) == wpc' = pc /\ wb' = b /\ wcopy' = copy
WorkerEnds == WorkerGoes("idle", NoBase, NoObject("gone"))

(* Mutant of DeletionStep: the StorageWritable condition is looked for,    *)
(* its value is not.                                                       *)
DeletionStepAnyCondition(o) ==
    IF ~Present(o) \/ o.meta = "none" \/ o.deps # {} \/ ~o.fin THEN "idle"
    ELSE IF o.phase # "completed" THEN "unfinalize"
    ELSE IF cfg.st = "gone" THEN "panic"
    ELSE "unfinalize"

(* Where deleteWALGBackup goes with the copy o it gets from the cache. *)
DeletionStep(o) ==
    IF ~Present(o) \/ o.meta = "none" \/ o.deps # {} \/ ~o.fin THEN "idle"
    ELSE IF o.phase # "completed" THEN "unfinalize"
    ELSE IF cfg.st = "gone" THEN "panic"
    ELSE IF cfg.unwritable \/ IgnoreForBackupDeletion THEN "unfinalize"
    ELSE "unmark"

TakeBackupRequest ==
    /\ wpc = "idle" /\ queue # <<>> /\ Head(queue) # Config
    /\ queue' = Tail(queue)
    /\ LET b == Head(queue) IN
         \/ DeletionStep(cache[b]) = "idle" /\ WorkerEnds /\ UNCHANGED fails
         \/ CallFails /\ WorkerEnds
         \/ /\ DeletionStep(cache[b]) \notin {"idle", "panic"}
            /\ WorkerGoes(DeletionStep(cache[b]), b, cache[b])
            /\ UNCHANGED fails
    /\ UNCHANGED <<apiVars, cache, workq, recVars, walgVars>>

(* Mutant of UnmarkBackupPermanent: the mark stays. *)
UnmarkSkipped ==
    /\ wpc = "unmark"
    /\ WorkerGoes("target", wb, wcopy)
    /\ UNCHANGED <<apiVars, cache, workq, recVars, queue, walgVars, fails>>

(* DeleteBackup: first backup-mark -i, whose error is ignored ... *)
UnmarkBackupPermanent ==
    /\ wpc = "unmark"
    /\ \/ /\ perm' = IF DeltasOn(wb) \cap perm = {} THEN perm \ {wb} ELSE perm
          /\ CallSucceeds
       \/ UNCHANGED perm /\ CallFails
    /\ WorkerGoes("target", wb, wcopy)
    /\ UNCHANGED <<apiVars, cache, workq, recVars, queue, phys, parent, push>>

(* Mutant of DeleteTarget: an error of wal-g counts as success. *)
DeleteTargetUnchecked ==
    LET doomed == {wb} \cup DeltasOn(wb)
    IN  /\ wpc = "target"
        /\ phys' = IF doomed \cap perm = {} THEN phys \ doomed ELSE phys
        /\ WorkerGoes("unfinalize", wb, wcopy)
        /\ UNCHANGED <<apiVars, cache, workq, recVars, queue, perm, parent, push, fails>>

(* ... then delete target: "does not exist" counts as success, permanent   *)
(* backups are refused, and a failed or timed-out command may or may not   *)
(* have removed the data.  The error is only logged.                       *)
DeleteTarget ==
    LET doomed == {wb} \cup DeltasOn(wb)
    IN  /\ wpc = "target"
        /\ \/ /\ wb \notin phys
              /\ WorkerGoes("unfinalize", wb, wcopy) /\ UNCHANGED <<phys, fails>>
           \/ /\ wb \in phys /\ doomed \cap perm # {}
              /\ WorkerEnds /\ UNCHANGED <<phys, fails>>
           \/ /\ wb \in phys /\ doomed \cap perm = {}
              /\ phys' = phys \ doomed
              /\ WorkerGoes("unfinalize", wb, wcopy) /\ UNCHANGED fails
           \/ /\ CallFails /\ WorkerEnds
              /\ phys' \in {phys, IF doomed \cap perm = {} THEN phys \ doomed ELSE phys}
        /\ UNCHANGED <<apiVars, cache, workq, recVars, queue, perm, parent, push>>

(* Mutant of removeBackupFinalizer: no optimistic lock. *)
removeBackupFinalizerUnlocked ==
    /\ wpc = "unfinalize"
    /\ \/ /\ Present(api[wb])
          /\ api' = [api EXCEPT ![wb] = Stored([@ EXCEPT !.fin = FALSE])]
          /\ CallSucceeds
       \/ ~Present(api[wb]) /\ UNCHANGED <<api, fails>>
       \/ UNCHANGED api /\ CallFails
    /\ WorkerEnds
    /\ UNCHANGED <<cfg, cache, workq, recVars, queue, walgVars>>

removeBackupFinalizer ==
    /\ wpc = "unfinalize"
    /\ \/ /\ CanUpdate(wb, wcopy)
          /\ api' = [api EXCEPT ![wb] = Stored([@ EXCEPT !.fin = FALSE])]
          /\ CallSucceeds
       \/ ~CanUpdate(wb, wcopy) /\ UNCHANGED <<api, fails>>
       \/ UNCHANGED api /\ CallFails
    /\ WorkerEnds
    /\ UNCHANGED <<cfg, cache, workq, recVars, queue, walgVars>>

(* deleteBackupConfig: wipe the storage, then drop the finalizer. *)
TakeConfigRequest ==
    /\ wpc = "idle" /\ queue # <<>> /\ Head(queue) = Config
    /\ queue' = Tail(queue)
    /\ \/ cfg.st = "gone" /\ WorkerEnds /\ UNCHANGED fails
       \/ CallFails /\ WorkerEnds
       \/ /\ cfg.st # "gone" /\ UNCHANGED fails
          /\ WorkerGoes(IF IgnoreForBackupConfigDeletion \/ cfg.unwritable
                          THEN "unfinalizeConfig" ELSE "wipe", NoBase, NoObject("gone"))
    /\ UNCHANGED <<apiVars, cache, workq, recVars, walgVars>>

WipeStorage ==
    /\ wpc = "wipe"
    /\ \/ phys' = {} /\ perm' = {} /\ CallSucceeds
          /\ WorkerGoes("unfinalizeConfig", NoBase, NoObject("gone"))
       \/ phys' = {} /\ perm' = {} /\ CallFails /\ WorkerEnds
       \/ UNCHANGED <<phys, perm>> /\ CallFails /\ WorkerEnds
    /\ UNCHANGED <<apiVars, cache, workq, recVars, queue, parent, push>>

(* Mutant of removeConfigFinalizer: the changed object is never written. *)
ConfigFinalizerKept ==
    /\ wpc = "unfinalizeConfig"
    /\ WorkerEnds
    /\ UNCHANGED <<apiVars, cache, workq, recVars, queue, walgVars, fails>>

(* A conflict with a write of the status is one of the failed calls. *)
removeConfigFinalizer ==
    /\ wpc = "unfinalizeConfig"
    /\ \/ /\ cfg.fin /\ cfg.st # "gone"
          /\ cfg' = [cfg EXCEPT !.fin = FALSE,
                                !.st = IF @ = "terminating" THEN "gone" ELSE @]
          /\ CallSucceeds
       \/ (~cfg.fin \/ cfg.st = "gone") /\ UNCHANGED <<cfg, fails>>
       \/ UNCHANGED cfg /\ CallFails
    /\ WorkerEnds
    /\ UNCHANGED <<api, cache, workq, recVars, queue, walgVars>>

-----------------------------------------------------------------------------
(* The operator restarts: queues and running work are lost, the informers  *)
(* list everything again and every object is reconciled.                   *)
Restart ==
    /\ rpc' = "idle" /\ rb' = NoBase /\ rdel' = FALSE
    /\ rcopy' = NoObject("gone") /\ rlist' = NoList /\ rtodo' = {}
    /\ queue' = <<>> /\ WorkerEnds
    /\ cache' = api
    /\ workq' = { b \in Backups : Present(api[b]) }
    /\ UNCHANGED <<apiVars, walgVars>>

Crash == CallFails /\ Restart

(* deleteWALGBackup ignores NotFound of the BackupConfig and then reads    *)
(* the status of a nil pointer: the process dies.                          *)
Panic ==
    /\ wpc = "idle" /\ queue # <<>> /\ Head(queue) # Config
    /\ DeletionStep(cache[Head(queue)]) = "panic"
    /\ UNCHANGED fails /\ Restart

-----------------------------------------------------------------------------
ReconcileStep ==
    \/ reconcileOwnerReference \/ reconcileBackupMetadata
    \/ \E c \in Backups : reconcileRelatedBackupsMetadata(c)
    \/ reconcileFinalizers \/ reconcileBackupPermanence
    \/ EnqueueBackupDeletion \/ ReconcileFails

Reconcile == ReconcileStep \/ \E b \in Backups : StartReconcile(b)

Worker ==
    \/ TakeBackupRequest \/ UnmarkBackupPermanent \/ DeleteTarget
    \/ removeBackupFinalizer \/ TakeConfigRequest \/ WipeStorage
    \/ removeConfigFinalizer \/ Panic

Environment ==
    \/ \E b \in Backups :
          \/ CreateBackup(b) \/ StartPush(b) \/ FinishPush(b)
          \/ CompleteBackup(b) \/ FailBackup(b) \/ DeleteBackup(b)
    \/ DeleteConfig \/ StorageStatus

Next ==
    \/ Environment
    \/ \E b \in Backups : CacheSync(b)
    \/ Resync \/ Reconcile \/ ReconcileConfig \/ Worker \/ Crash

Spec == Init /\ [][Next]_vars

(* Fairness: informers deliver, the work queue is first-in first-out and   *)
(* so starves no key, resyncs recur, goroutines run, and of the calls only *)
(* MaxFailures fail.  Nothing is assumed of users, CNPG or the sidecar.    *)
Fairness ==
    /\ \A b \in Backups : WF_vars(CacheSync(b)) /\ SF_vars(StartReconcile(b))
    /\ WF_vars(Resync) /\ WF_vars(ReconcileStep)
    /\ WF_vars(ReconcileConfig) /\ WF_vars(Worker)

-----------------------------------------------------------------------------
TypeOK ==
    /\ api \in [Backups -> Backup] /\ cache \in [Backups -> Backup]
    /\ cfg \in [st : {"live", "terminating", "gone"}, fin : BOOLEAN, unwritable : BOOLEAN]
    /\ workq \subseteq Backups
    /\ rpc \in {"idle", "owner", "metadata", "others", "finalizer", "permanence", "enqueue"}
    /\ rb \in Backups \cup {NoBase} /\ (rpc # "idle" => rb \in Backups)
    /\ rdel \in BOOLEAN /\ rcopy \in Backup
    /\ rlist \in [Backups -> Backup] /\ rtodo \subseteq Backups
    /\ queue \in Seq(Backups \cup {Config}) /\ Len(queue) <= QueueCap
    /\ wpc \in {"idle", "unmark", "target", "unfinalize", "wipe", "unfinalizeConfig"}
    /\ wb \in Backups \cup {NoBase} /\ wcopy \in Backup
    /\ (wpc \in {"unmark", "target", "unfinalize"} => wb \in Backups)
    /\ phys \subseteq Backups /\ perm \subseteq Backups
    /\ parent \in [Backups -> Backups \cup {NoBase}]
    /\ push \in [Backups -> {"idle", "running", "done"}]
    /\ fails \in 0..MaxFailures

(* The data of a Backup leaves the storage only when that Backup, or one   *)
(* it was taken on top of, is being deleted or gone, or when the config is *)
(* being deleted: deleteWALGBackup works on a request queued minutes ago   *)
(* and on a cached copy, and never looks at the deletion timestamp itself. *)
RemovalIsRequested ==
    \A c \in phys \ phys' :
       \/ cfg.st # "live"
       \/ \E a \in Backups : api[a].st # "live" /\ (a = c \/ c \in DeltasOn(a))
OnlyDeletedRemoved == [][RemovalIsRequested]_vars

(* As long as the BackupConfig is there and the storage is managed, the    *)
(* finalizer leaves a Backup with a BackupID only when its data is out of  *)
(* the storage: the physical deletion comes first, and the update that     *)
(* drops the finalizer is refused if the status changed since the read.    *)
ReleaseIsSafe ==
    \A b \in Backups :
       (api[b].fin /\ ~api'[b].fin /\ api[b].phase = "completed")
          => b \notin phys' \/ cfg.st = "gone"
FinalizerGuardsData == [][ReleaseIsSafe]_vars

(* Once a base's annotation names a delta taken directly on it, the name   *)
(* stays as long as that delta's Backup is live: no reconcile working from *)
(* older copies or lists may forget it.                                    *)
KeepsDependents ==
    \A a, c \in Backups :
       (/\ c \in api[a].deps /\ parent[c] = a
        /\ Present(api'[a]) /\ api'[c].st = "live") => c \in api'[a].deps
DependentsNotForgotten == [][KeepsDependents]_vars

(* Deleting a Backup takes no live, completed Backup's data with it: a     *)
(* base with dependent backups is not deleted.  The annotation that is     *)
(* checked is older than the deletion, so this fails (run dependent_race). *)
SparesLiveBackups ==
    \A c \in phys \ phys' : ~(api[c].st = "live" /\ api[c].phase = "completed")
LiveDataKept == [][SparesLiveBackups]_vars

(* A Backup being deleted disappears unless a live Backup depends on it:   *)
(* failed deletions are not retried by the worker, so this rests on the    *)
(* annotation updates and resyncs that bring the request back.  A delta    *)
(* that went while the storage was reported unwritable may have left       *)
(* permanent data behind, which wal-g then keeps together with its bases.  *)
LiveDependents(b) ==
    { c \in Backups : /\ api[c].st = "live"
                      /\ NameOf(c) \in GetDependentBackups(NameOf(b),
                                                { NameOf(d) : d \in Backups }) }
LeftPermanent(b) == { c \in DeltasOn(b) \cap perm : api[c].st = "gone" }
DeletionCompletes ==
    \A b \in Backups :
       (api[b].st = "terminating" /\ cfg.st # "gone")
          ~> (\/ api[b].st = "gone" \/ cfg.st = "gone"
              \/ LiveDependents(b) # {} \/ LeftPermanent(b) # {})

(* A BackupConfig being deleted disappears unless there are Backups. *)
ConfigDeletionCompletes ==
    cfg.st = "terminating" ~> (cfg.st = "gone" \/ \E b \in Backups : Present(api[b]))

-----------------------------------------------------------------------------
(* The inductive invariants behind the first two properties.  A deletion   *)
(* seen in the cache, pending in the queue or in the worker's hands is     *)
(* never ahead of the API server, as long as names are not used again.     *)
Ending(o) == o.st \in {"terminating", "gone"}
WorksOnBackup == wpc \in {"unmark", "target", "unfinalize"}

CacheBehind == \A b \in Backups : Ending(cache[b]) => Ending(api[b])
ReconcileBehind ==
    /\ (rpc # "idle" /\ rdel) => Ending(api[rb])
    /\ rpc = "enqueue" => rdel
QueueBehind ==
    \A i \in 1..Len(queue) :
       IF queue[i] = Config THEN cfg.st # "live" ELSE Ending(api[queue[i]])
WorkerBehind ==
    /\ WorksOnBackup => Ending(api[wb])
    /\ wpc \in {"wipe", "unfinalizeConfig"} => cfg.st # "live"
DeletionInv == TypeOK /\ CacheBehind /\ ReconcileBehind /\ QueueBehind /\ WorkerBehind

(* A recorded BackupID means that the push is over, so data the worker has *)
(* removed does not come back before the finalizer goes.                   *)
PushedBehind ==
    /\ \A b \in Backups : api[b].phase = "completed" => push[b] = "done"
    /\ \A b \in Backups : cache[b].phase = "completed" => push[b] = "done"
    /\ \A b \in Backups : api[b].st = "unborn" =>
                             api[b].phase = "new" /\ cache[b].phase = "new"
    /\ (WorksOnBackup /\ wcopy.phase = "completed") => push[wb] = "done"
(* The data goes first, where the code never leaves it.                    *)
LeavesData == IgnoreForBackupDeletion \/ MayBeUnwritable
RemovedFirst ==
    /\ wpc \in {"unmark", "target"} => wcopy.phase = "completed"
    /\ (wpc = "unfinalize" /\ wcopy.phase = "completed") => wb \notin phys \/ LeavesData
    /\ cfg.unwritable => MayBeUnwritable
DataInv == DeletionInv /\ PushedBehind /\ RemovedFirst
=============================================================================
