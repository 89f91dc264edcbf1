----------------------- MODULE BackupLifecycleProofs -----------------------
(***************************************************************************)
(* Proofs about BackupLifecycle, for any set of Backups, any queue         *)
(* capacity and any number of failures.                                    *)
(***************************************************************************)
EXTENDS BackupRefinement, TLAPS

LEMMA NoObjectType ==
    \A s \in {"unborn", "live", "terminating", "gone"} : NoObject(s) \in Backup
BY DEF NoObject, Backup

LEMMA NoListType == NoList \in [Backups -> Backup]
BY NoObjectType DEF NoList

LEMMA StoredType == \A o \in Backup : Stored(o) \in Backup /\ DeleteCall(o) \in Backup
<1> TAKE o \in Backup
<1>1. \A p \in Backup : Stored(p) \in Backup
  BY NoObjectType DEF Stored
<1>2. [o EXCEPT !.st = "terminating"] \in Backup
  BY DEF Backup
<1> QED BY <1>1, <1>2 DEF DeleteCall

LEMMA FieldTypes ==
    ASSUME NEW o \in Backup
    PROVE  /\ [o EXCEPT !.phase = "completed"] \in Backup
           /\ [o EXCEPT !.phase = "failed"] \in Backup
           /\ [o EXCEPT !.owned = TRUE] \in Backup
           /\ [o EXCEPT !.fin = FALSE] \in Backup
           /\ [o EXCEPT !.fin = ~IgnoreForBackupDeletion] \in Backup
<1>1. [o EXCEPT !.phase = "completed"] \in Backup BY DEF Backup
<1>2. [o EXCEPT !.phase = "failed"] \in Backup BY DEF Backup
<1>3. [o EXCEPT !.owned = TRUE] \in Backup BY DEF Backup
<1>4. [o EXCEPT !.fin = FALSE] \in Backup BY DEF Backup
<1>5. [o EXCEPT !.fin = ~IgnoreForBackupDeletion] \in Backup BY DEF Backup
<1> QED BY <1>1, <1>2, <1>3, <1>4, <1>5

LEMMA QueueTypes ==
    ASSUME NEW S, NEW q \in Seq(S), NEW x \in S
    PROVE  /\ Append(q, x) \in Seq(S) /\ Len(Append(q, x)) = Len(q) + 1
           /\ q # <<>> => /\ Head(q) \in S /\ Tail(q) \in Seq(S)
                          /\ Len(Tail(q)) = Len(q) - 1
OBVIOUS

LEMMA MetadataType ==
    ASSUME TypeOK, NEW b \in Backups, NEW o \in Backup
    PROVE  WithMetadata(b, o) \in Backup
<1>1. buildDependentBackupsForBackup(b, o) \in SUBSET Backups
  BY DEF buildDependentBackupsForBackup, listBackupsOwnedByBackupConfig
<1> DEFINE D == buildDependentBackupsForBackup(b, o)
           M == IF o.phase = "completed" THEN "typed"
                ELSE IF o.meta = "none" THEN "base" ELSE o.meta
<1>2. M \in {"none", "base", "typed"}
  BY DEF Backup
<1>3. WithMetadata(b, o) = [o EXCEPT !.deps = D, !.meta = M]
  BY DEF WithMetadata
<1> HIDE DEF D, M
<1> QED BY <1>1, <1>2, <1>3 DEF Backup, D

LEMMA PatchedType ==
    \A o, old, new \in Backup : Patched(o, old, new) \in Backup
<1> TAKE o, old, new \in Backup
<1> DEFINE D == IF new.deps = old.deps THEN o.deps ELSE new.deps
           M == IF new.meta = old.meta THEN o.meta ELSE new.meta
<1>1. D \in SUBSET Backups /\ M \in {"none", "base", "typed"}
  BY DEF Backup
<1>2. Patched(o, old, new) = [o EXCEPT !.deps = D, !.meta = M]
  BY DEF Patched
<1> HIDE DEF D, M
<1> QED BY <1>1, <1>2 DEF Backup

(* TypeOK holds at the start. *)
LEMMA TypeInit == Init => TypeOK
<1> SUFFICES ASSUME Init PROVE TypeOK OBVIOUS
<1>1. <<>> \in Seq(Backups \cup {Config}) /\ Len(<<>>) = 0 /\ Len(<<>>) <= QueueCap
  BY LifecycleAssumption
<1>2. cfg \in [st : {"live", "terminating", "gone"}, fin : BOOLEAN, unwritable : BOOLEAN]
  BY DEF Init
<1>3. 0 \in 0..MaxFailures
  BY LifecycleAssumption
<1>4. api \in [Backups -> Backup] /\ cache \in [Backups -> Backup]
  BY NoObjectType DEF Init
<1>5. rcopy \in Backup /\ wcopy \in Backup /\ rlist \in [Backups -> Backup]
  BY NoObjectType, NoListType DEF Init
<1> QED BY <1>1, <1>2, <1>3, <1>4, <1>5 DEF Init, TypeOK

(* Every step preserves TypeOK. *)
LEMMA TypeNext == TypeOK /\ [Next]_vars => TypeOK'
<1> SUFFICES ASSUME TypeOK, [Next]_vars PROVE TypeOK'
  OBVIOUS
<1> USE NoObjectType, NoListType, LifecycleAssumption
<1> USE DEF apiVars, recVars, workerVars, walgVars, CallFails, CallSucceeds
<1>1. ASSUME NEW b \in Backups, CreateBackup(b) PROVE TypeOK'
  <2>1. NewBackup \in Backup
    BY DEF NewBackup, NoObject, Backup
  <2> QED BY <1>1, <2>1 DEF CreateBackup, TypeOK
<1>2. ASSUME NEW b \in Backups, StartPush(b) PROVE TypeOK'
  BY <1>2 DEF StartPush, TypeOK
<1>3. ASSUME NEW b \in Backups, FinishPush(b) PROVE TypeOK'
  BY <1>3 DEF FinishPush, TypeOK
<1>4. ASSUME NEW b \in Backups, CompleteBackup(b) PROVE TypeOK'
  <2>1. [api[b] EXCEPT !.phase = "completed"] \in Backup
    BY FieldTypes DEF TypeOK
  <2>2. api' \in [Backups -> Backup]
    BY <1>4, <2>1 DEF CompleteBackup, TypeOK
  <2> QED BY <1>4, <2>2 DEF CompleteBackup, TypeOK
<1>5. ASSUME NEW b \in Backups, FailBackup(b) PROVE TypeOK'
  <2>1. [api[b] EXCEPT !.phase = "failed"] \in Backup
    BY FieldTypes DEF TypeOK
  <2>2. api' \in [Backups -> Backup]
    BY <1>5, <2>1 DEF FailBackup, TypeOK
  <2> QED BY <1>5, <2>2 DEF FailBackup, TypeOK
<1>6. ASSUME NEW b \in Backups, DeleteBackup(b) PROVE TypeOK'
  <2>1. api' \in [Backups -> Backup]
    BY <1>6, StoredType DEF DeleteBackup, TypeOK
  <2> QED BY <1>6, <2>1 DEF DeleteBackup, TypeOK
<1>7. CASE DeleteConfig
  BY <1>7 DEF DeleteConfig, TypeOK
<1>8. CASE StorageStatus
  BY <1>8 DEF StorageStatus, TypeOK
<1>9. ASSUME NEW b \in Backups, CacheSync(b) PROVE TypeOK'
  BY <1>9 DEF CacheSync, TypeOK
<1>10. CASE Resync
  BY <1>10 DEF Resync, TypeOK
<1>11. ASSUME NEW b \in Backups, StartReconcile(b) PROVE TypeOK'
  <2>1. CASE Present(cache[b])
    <3>1. rdel' \in BOOLEAN /\ rpc' \in {"metadata", "owner"} /\ rb' = b /\ rcopy' = cache[b]
      BY <1>11, <2>1 DEF StartReconcile
    <3> QED BY <1>11, <3>1 DEF StartReconcile, TypeOK
  <2>2. CASE ~Present(cache[b])
    BY <1>11, <2>2 DEF StartReconcile, TypeOK
  <2> QED BY <2>1, <2>2
<1>12. CASE reconcileOwnerReference
  <2>1. rb \in Backups /\ [api[rb] EXCEPT !.owned = TRUE] \in Backup
    BY <1>12, FieldTypes DEF reconcileOwnerReference, TypeOK
  <2>2. api' \in [Backups -> Backup]
    BY <1>12, <2>1 DEF reconcileOwnerReference, TypeOK
  <2>3. rcopy' \in Backup
    BY <1>12, <2>1, <2>2 DEF reconcileOwnerReference, Proceed, TypeOK
  <2> QED BY <1>12, <2>1, <2>2, <2>3 DEF reconcileOwnerReference, Proceed, TypeOK
<1>13. CASE reconcileBackupMetadata
  <2>1. rb \in Backups
    BY <1>13 DEF reconcileBackupMetadata, TypeOK
  <2>2. WithMetadata(rb, rcopy) \in Backup
    BY <2>1, MetadataType DEF TypeOK
  <2>3. Patched(api[rb], rcopy, WithMetadata(rb, rcopy)) \in Backup
    BY <2>1, <2>2, PatchedType DEF TypeOK
  <2>4. api' \in [Backups -> Backup]
    BY <1>13, <2>1, <2>3 DEF reconcileBackupMetadata, TypeOK
  <2>5. rcopy' \in Backup
    BY <1>13, <2>1, <2>4 DEF reconcileBackupMetadata, AfterMetadata, TypeOK
  <2>6. rtodo' \subseteq Backups /\ rlist' \in [Backups -> Backup]
        /\ rpc' \in {"others", "finalizer", "enqueue"} /\ UNCHANGED <<rb, rdel, workq>>
    BY <1>13 DEF reconcileBackupMetadata, AfterMetadata, TypeOK, listBackupsOwnedByBackupConfig
  <2> QED BY <1>13, <2>1, <2>4, <2>5, <2>6 DEF reconcileBackupMetadata, TypeOK
<1>14. ASSUME NEW c \in Backups, reconcileRelatedBackupsMetadata(c) PROVE TypeOK'
  <2>1. rlist[c] \in Backup /\ WithMetadata(c, rlist[c]) \in Backup
    BY MetadataType DEF TypeOK
  <2>2. Patched(api[c], rlist[c], WithMetadata(c, rlist[c])) \in Backup
    BY <2>1, PatchedType DEF TypeOK
  <2>3. api' \in [Backups -> Backup]
    <3>1. \/ api' = api
          \/ api' = [api EXCEPT ![c] = Patched(api[c], rlist[c], WithMetadata(c, rlist[c]))]
      BY <1>14 DEF reconcileRelatedBackupsMetadata
    <3> QED BY <3>1, <2>2 DEF TypeOK
  <2>4. rtodo' \subseteq Backups /\ rlist' \in [Backups -> Backup]
        /\ rpc' \in {"others", "finalizer", "enqueue"} /\ rb \in Backups
        /\ fails' \in 0..MaxFailures
    BY <1>14 DEF reconcileRelatedBackupsMetadata, TypeOK
  <2> QED BY <1>14, <2>3, <2>4 DEF reconcileRelatedBackupsMetadata, TypeOK
<1>15. CASE reconcileFinalizers
  <2>1. rb \in Backups
    BY <1>15 DEF reconcileFinalizers, TypeOK
  <2>2. \A o \in Backup : [o EXCEPT !.fin = ~IgnoreForBackupDeletion] \in Backup
    BY DEF Backup
  <2>3. api' \in [Backups -> Backup] /\ rcopy' \in Backup
    BY <1>15, <2>1, <2>2, StoredType DEF reconcileFinalizers, Proceed, TypeOK
  <2> QED BY <1>15, <2>1, <2>3 DEF reconcileFinalizers, Proceed, TypeOK
<1>16. CASE reconcileBackupPermanence
  BY <1>16 DEF reconcileBackupPermanence, EndReconcile, BasesOf, TypeOK
<1>17. CASE ReconcileFails
  <2>1. ReconcileError /\ rb \in Backups /\ fails' \in 0..MaxFailures
    BY <1>17 DEF ReconcileFails, TypeOK
  <2> QED BY <2>1 DEF ReconcileError, EndReconcile, TypeOK
<1>18. CASE EnqueueBackupDeletion
  <2>1. rb \in Backups
    BY <1>18 DEF EnqueueBackupDeletion, TypeOK
  <2>2. Stored([api[rb] EXCEPT !.fin = FALSE]) \in Backup
    BY <2>1, FieldTypes, StoredType DEF TypeOK
  <2>3. api' \in [Backups -> Backup]
    <3>1. \/ api' = api
          \/ api' = [api EXCEPT ![rb] = Stored([api[rb] EXCEPT !.fin = FALSE])]
      BY <1>18 DEF EnqueueBackupDeletion
    <3> QED BY <3>1, <2>1, <2>2 DEF TypeOK
  <2>4. queue' \in Seq(Backups \cup {Config}) /\ Len(queue') <= QueueCap
    <3>1. \/ queue' = queue
          \/ queue' = Append(queue, rb) /\ Len(queue) < QueueCap
      BY <1>18 DEF EnqueueBackupDeletion
    <3>2. rb \in Backups \cup {Config} /\ queue \in Seq(Backups \cup {Config})
          /\ Len(queue) <= QueueCap /\ Len(queue) \in Nat
      BY <2>1 DEF TypeOK
    <3> QED BY <3>1, <3>2, QueueTypes
  <2> QED BY <1>18, <2>1, <2>3, <2>4 DEF EnqueueBackupDeletion, EndReconcile, TypeOK
<1>19. CASE ReconcileConfig
  <2>1. queue' \in Seq(Backups \cup {Config}) /\ Len(queue') <= QueueCap
    BY <1>19 DEF ReconcileConfig, TypeOK
  <2> QED BY <1>19, <2>1 DEF ReconcileConfig, TypeOK
<1>20. CASE TakeBackupRequest
  <2>1. Head(queue) \in Backups /\ queue' \in Seq(Backups \cup {Config}) /\ Len(queue') <= QueueCap
    BY <1>20 DEF TakeBackupRequest, TypeOK
  <2> QED BY <1>20, <2>1 DEF TakeBackupRequest, WorkerEnds, WorkerGoes, DeletionStep, TypeOK
<1>21. CASE UnmarkBackupPermanent
  BY <1>21 DEF UnmarkBackupPermanent, WorkerGoes, TypeOK
<1>22. CASE DeleteTarget
  BY <1>22 DEF DeleteTarget, WorkerGoes, WorkerEnds, TypeOK
<1>23. CASE removeBackupFinalizer
  <2>1. wb \in Backups
    BY <1>23 DEF removeBackupFinalizer, TypeOK
  <2>2. \A o \in Backup : [o EXCEPT !.fin = FALSE] \in Backup
    BY DEF Backup
  <2>3. api' \in [Backups -> Backup]
    BY <1>23, <2>1, <2>2, StoredType DEF removeBackupFinalizer, TypeOK
  <2> QED BY <1>23, <2>3 DEF removeBackupFinalizer, WorkerEnds, WorkerGoes, TypeOK
<1>24. CASE TakeConfigRequest
  <2>1. queue' \in Seq(Backups \cup {Config}) /\ Len(queue') <= QueueCap
    BY <1>24 DEF TakeConfigRequest, TypeOK
  <2> QED BY <1>24, <2>1 DEF TakeConfigRequest, WorkerEnds, WorkerGoes, TypeOK
<1>25. CASE WipeStorage
  BY <1>25 DEF WipeStorage, WorkerEnds, WorkerGoes, TypeOK
<1>26. CASE removeConfigFinalizer
  <2>1. cfg' \in [st : {"live", "terminating", "gone"}, fin : BOOLEAN, unwritable : BOOLEAN]
    BY <1>26 DEF removeConfigFinalizer, TypeOK
  <2> QED BY <1>26, <2>1 DEF removeConfigFinalizer, WorkerEnds, WorkerGoes, TypeOK
<1>27. ASSUME Restart, fails' \in 0..MaxFailures PROVE TypeOK'
  <2>1. queue' \in Seq(Backups \cup {Config}) /\ Len(queue') <= QueueCap
    BY <1>27 DEF Restart
  <2> QED BY <1>27, <2>1 DEF Restart, WorkerEnds, WorkerGoes, TypeOK
<1>28. CASE Panic
  BY <1>28, <1>27 DEF Panic, TypeOK
<1>29. CASE Crash
  BY <1>29, <1>27 DEF Crash, TypeOK
<1>30. CASE UNCHANGED vars
  BY <1>30 DEF vars, TypeOK
<1> QED
  BY <1>1, <1>2, <1>3, <1>4, <1>5, <1>6, <1>7, <1>8, <1>9, <1>10, <1>11, <1>12, <1>13,
     <1>14, <1>15, <1>16, <1>17, <1>18, <1>19, <1>20, <1>21, <1>22, <1>23, <1>24, <1>25,
     <1>26, <1>28, <1>29, <1>30
  DEF Next, Environment, Reconcile, ReconcileStep, Worker

(* The states of the model are well typed: in particular the deletion      *)
(* channel of a BackupConfig never holds more than its capacity, and the   *)
(* worker always has a Backup in hand when it talks to wal-g.              *)
THEOREM TypeCorrect == Spec => []TypeOK
BY TypeInit, TypeNext, PTL DEF Spec

-----------------------------------------------------------------------------
(* A Backup that is being deleted or gone never becomes live again, unless *)
(* names are used again.                                                   *)
LEMMA WritesKeepEnding ==
    ASSUME NEW o \in Backup, Ending(o)
    PROVE  /\ Ending(Stored(o))
           /\ Ending([o EXCEPT !.phase = "completed"])
           /\ Ending([o EXCEPT !.phase = "failed"])
           /\ Ending([o EXCEPT !.owned = TRUE])
           /\ Ending([o EXCEPT !.fin = FALSE])
           /\ Ending([o EXCEPT !.fin = ~IgnoreForBackupDeletion])
           /\ \A old, new \in Backup : Ending(Patched(o, old, new))
<1>1. Ending(Stored(o))
  BY DEF Ending, Stored, NoObject
<1>2. Ending([o EXCEPT !.phase = "completed"]) /\ Ending([o EXCEPT !.phase = "failed"])
  BY DEF Ending, Backup
<1>3. Ending([o EXCEPT !.owned = TRUE])
  BY DEF Ending, Backup
<1>4. Ending([o EXCEPT !.fin = FALSE]) /\ Ending([o EXCEPT !.fin = ~IgnoreForBackupDeletion])
  BY DEF Ending, Backup
<1>5. ASSUME NEW old \in Backup, NEW new \in Backup PROVE Ending(Patched(o, old, new))
  <2> DEFINE D == IF new.deps = old.deps THEN o.deps ELSE new.deps
             M == IF new.meta = old.meta THEN o.meta ELSE new.meta
  <2>1. Patched(o, old, new) = [o EXCEPT !.deps = D, !.meta = M]
    BY DEF Patched
  <2> HIDE DEF D, M
  <2> QED BY <2>1 DEF Ending, Backup
<1> QED BY <1>1, <1>2, <1>3, <1>4, <1>5

(* The steps that write Backup objects. *)
LEMMA WhoWrites ==
    ASSUME Next
    PROVE  \/ UNCHANGED api
           \/ \E x \in Backups : \/ CreateBackup(x) \/ CompleteBackup(x) \/ FailBackup(x)
                                 \/ DeleteBackup(x) \/ reconcileRelatedBackupsMetadata(x)
           \/ reconcileOwnerReference \/ reconcileBackupMetadata \/ reconcileFinalizers
           \/ EnqueueBackupDeletion \/ removeBackupFinalizer
<1> USE DEF apiVars
<1>1. ASSUME NEW x \in Backups,
              StartPush(x) \/ FinishPush(x) \/ CacheSync(x) \/ StartReconcile(x)
       PROVE  UNCHANGED api
  BY <1>1 DEF StartPush, FinishPush, CacheSync, StartReconcile
<1>2. DeleteConfig \/ StorageStatus \/ Resync \/ reconcileBackupPermanence \/ ReconcileFails
       \/ ReconcileConfig => UNCHANGED api
  BY DEF DeleteConfig, StorageStatus, Resync, reconcileBackupPermanence, ReconcileFails,
         ReconcileError, ReconcileConfig
<1>3. TakeBackupRequest \/ UnmarkBackupPermanent \/ DeleteTarget \/ TakeConfigRequest
       \/ WipeStorage \/ removeConfigFinalizer \/ Panic \/ Crash => UNCHANGED api
  BY DEF TakeBackupRequest, UnmarkBackupPermanent, DeleteTarget, TakeConfigRequest,
         WipeStorage, removeConfigFinalizer, Panic, Crash, Restart
<1> QED BY <1>1, <1>2, <1>3 DEF Next, Environment, Reconcile, ReconcileStep, Worker

LEMMA NoReturn ==
    ASSUME TypeOK, ~Recreate, Next, NEW b \in Backups, Ending(api[b])
    PROVE  Ending(api'[b])
<1> USE DEF apiVars, recVars, workerVars, walgVars
<1>0. api[b] \in Backup /\ api[b].st # "unborn" /\ api[b].st # "live"
  BY DEF TypeOK, Ending
<1>1. ASSUME NEW x \in Backups, CreateBackup(x) PROVE Ending(api'[b])
  BY <1>0, <1>1 DEF CreateBackup, TypeOK
<1>2. ASSUME NEW x \in Backups, CompleteBackup(x) PROVE Ending(api'[b])
  BY <1>0, <1>2, WritesKeepEnding DEF CompleteBackup, TypeOK
<1>3. ASSUME NEW x \in Backups, FailBackup(x) PROVE Ending(api'[b])
  BY <1>0, <1>3, WritesKeepEnding DEF FailBackup, TypeOK
<1>4. ASSUME NEW x \in Backups, DeleteBackup(x) PROVE Ending(api'[b])
  BY <1>0, <1>4 DEF DeleteBackup, TypeOK
<1>5. CASE reconcileOwnerReference
  <2>1. api' = api \/ api' = [api EXCEPT ![rb] = [api[rb] EXCEPT !.owned = TRUE]]
    BY <1>5 DEF reconcileOwnerReference
  <2>2. Ending([api[b] EXCEPT !.owned = TRUE])
    BY <1>0, WritesKeepEnding
  <2> QED BY <2>1, <2>2 DEF TypeOK
<1>6. CASE reconcileBackupMetadata
  <2>1. rb \in Backups /\ rcopy \in Backup
    BY <1>6 DEF reconcileBackupMetadata, TypeOK
  <2>2. WithMetadata(rb, rcopy) \in Backup
    BY <2>1, MetadataType
  <2>3. \/ api' = api
        \/ api' = [api EXCEPT ![rb] = Patched(api[rb], rcopy, WithMetadata(rb, rcopy))]
    BY <1>6 DEF reconcileBackupMetadata
  <2>4. Ending(Patched(api[b], rcopy, WithMetadata(rb, rcopy)))
    BY <1>0, <2>1, <2>2, WritesKeepEnding
  <2> QED BY <2>3, <2>4 DEF TypeOK
<1>7. ASSUME NEW c \in Backups, reconcileRelatedBackupsMetadata(c) PROVE Ending(api'[b])
  <2>1. rlist[c] \in Backup
    BY DEF TypeOK
  <2>2. WithMetadata(c, rlist[c]) \in Backup
    BY <2>1, MetadataType
  <2>3. \/ api' = api
        \/ api' = [api EXCEPT ![c] = Patched(api[c], rlist[c], WithMetadata(c, rlist[c]))]
    BY <1>7 DEF reconcileRelatedBackupsMetadata
  <2>4. Ending(Patched(api[b], rlist[c], WithMetadata(c, rlist[c])))
    BY <1>0, <2>1, <2>2, WritesKeepEnding
  <2> QED BY <2>3, <2>4 DEF TypeOK
<1>8. CASE reconcileFinalizers
  <2>1. \/ api' = api
        \/ api' = [api EXCEPT ![rb] = Stored([api[rb] EXCEPT !.fin = ~IgnoreForBackupDeletion])]
    BY <1>8 DEF reconcileFinalizers
  <2>2. Ending(Stored([api[b] EXCEPT !.fin = ~IgnoreForBackupDeletion]))
    BY <1>0, WritesKeepEnding, FieldTypes
  <2> QED BY <2>1, <2>2 DEF TypeOK
<1>9. ASSUME NEW x, \/ api' = api
                    \/ api' = [api EXCEPT ![x] = Stored([api[x] EXCEPT !.fin = FALSE])]
      PROVE  Ending(api'[b])
  <2>1. Ending(Stored([api[b] EXCEPT !.fin = FALSE]))
    BY <1>0, WritesKeepEnding, FieldTypes
  <2> QED BY <1>9, <2>1 DEF TypeOK
<1>10. CASE EnqueueBackupDeletion
  <2>1. \/ api' = api
        \/ api' = [api EXCEPT ![rb] = Stored([api[rb] EXCEPT !.fin = FALSE])]
    BY <1>10 DEF EnqueueBackupDeletion
  <2> QED BY <2>1, <1>9
<1>11. CASE removeBackupFinalizer
  <2>1. \/ api' = api
        \/ api' = [api EXCEPT ![wb] = Stored([api[wb] EXCEPT !.fin = FALSE])]
    BY <1>11 DEF removeBackupFinalizer
  <2> QED BY <2>1, <1>9
<1>12. CASE UNCHANGED api
  BY <1>12
<1> QED
  BY <1>1, <1>2, <1>3, <1>4, <1>5, <1>6, <1>7, <1>8, <1>10, <1>11, <1>12, WhoWrites

(* The steps that write the BackupConfig. *)
LEMMA WhoWritesConfig ==
    ASSUME Next
    PROVE  \/ UNCHANGED cfg \/ DeleteConfig \/ StorageStatus \/ removeConfigFinalizer
<1> USE DEF apiVars
<1>1. ASSUME NEW x \in Backups,
             \/ CreateBackup(x) \/ StartPush(x) \/ FinishPush(x) \/ CompleteBackup(x)
             \/ FailBackup(x) \/ DeleteBackup(x) \/ CacheSync(x) \/ StartReconcile(x)
             \/ reconcileRelatedBackupsMetadata(x)
      PROVE  UNCHANGED cfg
  BY <1>1 DEF CreateBackup, StartPush, FinishPush, CompleteBackup, FailBackup, DeleteBackup,
         CacheSync, StartReconcile, reconcileRelatedBackupsMetadata
<1>2. (\/ Resync \/ reconcileOwnerReference \/ reconcileBackupMetadata \/ reconcileFinalizers
       \/ reconcileBackupPermanence \/ ReconcileFails \/ EnqueueBackupDeletion
       \/ ReconcileConfig) => UNCHANGED cfg
  BY DEF Resync, reconcileOwnerReference, reconcileBackupMetadata, reconcileFinalizers,
         reconcileBackupPermanence, ReconcileFails, ReconcileError, EnqueueBackupDeletion,
         ReconcileConfig
<1>3. TakeBackupRequest \/ UnmarkBackupPermanent \/ DeleteTarget \/ TakeConfigRequest
       \/ WipeStorage \/ removeBackupFinalizer \/ Panic \/ Crash => UNCHANGED cfg
  BY DEF TakeBackupRequest, UnmarkBackupPermanent, DeleteTarget, TakeConfigRequest,
         WipeStorage, removeBackupFinalizer, Panic, Crash, Restart
<1>4. CASE Environment
  BY <1>4, <1>1 DEF Environment
<1>5. CASE Reconcile
  BY <1>5, <1>1, <1>2 DEF Reconcile, ReconcileStep
<1>6. CASE Worker
  BY <1>6, <1>3 DEF Worker
<1> QED BY <1>4, <1>5, <1>6, <1>1, <1>2, <1>3 DEF Next

LEMMA ConfigNoReturn ==
    ASSUME TypeOK, Next, cfg.st # "live" PROVE cfg'.st # "live"
<1>1. CASE UNCHANGED cfg
  BY <1>1
<1>2. CASE DeleteConfig
  BY <1>2 DEF DeleteConfig
<1>3. CASE StorageStatus
  BY <1>3 DEF StorageStatus, TypeOK
<1>4. CASE removeConfigFinalizer
  BY <1>4 DEF removeConfigFinalizer, TypeOK
<1> QED BY <1>1, <1>2, <1>3, <1>4, WhoWritesConfig

-----------------------------------------------------------------------------
(* What keeps each part of DeletionInv when the variables it reads do not  *)
(* change, whatever happens to the objects.                                *)
LEMMA PartsKept ==
    ASSUME DeletionInv, ~Recreate, Next
    PROVE  /\ cache' = cache => CacheBehind'
           /\ UNCHANGED <<rpc, rb, rdel>> => ReconcileBehind'
           /\ rpc' = "idle" => ReconcileBehind'
           /\ (UNCHANGED <<rb, rdel>> /\ rpc # "idle" /\ (rpc' = "enqueue" => rdel))
                 => ReconcileBehind'
           /\ queue' = queue => QueueBehind'
           /\ UNCHANGED <<wpc, wb>> => WorkerBehind'
           /\ wpc' = "idle" => WorkerBehind'
           /\ (wb' = wb /\ WorksOnBackup /\ wpc' \in {"target", "unfinalize"}) => WorkerBehind'
<1>0. TypeOK /\ CacheBehind /\ ReconcileBehind /\ QueueBehind /\ WorkerBehind
  BY DEF DeletionInv
<1>1. \A b \in Backups : Ending(api[b]) => Ending(api'[b])
  BY <1>0, NoReturn
<1>2. cfg.st # "live" => cfg'.st # "live"
  BY <1>0, ConfigNoReturn
<1>3. cache' = cache => CacheBehind'
  BY <1>0, <1>1 DEF CacheBehind
<1>4. rpc # "idle" => rb \in Backups
  BY <1>0 DEF TypeOK
<1>5. UNCHANGED <<rpc, rb, rdel>> => ReconcileBehind'
  BY <1>0, <1>1, <1>4 DEF ReconcileBehind
<1>6. rpc' = "idle" => ReconcileBehind'
  BY DEF ReconcileBehind
<1>7. (UNCHANGED <<rb, rdel>> /\ rpc # "idle" /\ (rpc' = "enqueue" => rdel)) => ReconcileBehind'
  BY <1>0, <1>1, <1>4 DEF ReconcileBehind
<1>8. \A i \in 1..Len(queue) : queue[i] # Config => queue[i] \in Backups
  BY <1>0 DEF TypeOK
<1>9. queue' = queue => QueueBehind'
  BY <1>0, <1>1, <1>2, <1>8 DEF QueueBehind
<1>10. WorksOnBackup => wb \in Backups
  BY <1>0 DEF TypeOK, WorksOnBackup
<1>11. UNCHANGED <<wpc, wb>> => WorkerBehind'
  BY <1>0, <1>1, <1>2, <1>10 DEF WorkerBehind, WorksOnBackup
<1>12. wpc' = "idle" => WorkerBehind'
  BY DEF WorkerBehind, WorksOnBackup
<1>13. (wb' = wb /\ WorksOnBackup /\ wpc' \in {"target", "unfinalize"}) => WorkerBehind'
  BY <1>0, <1>1, <1>10 DEF WorkerBehind, WorksOnBackup
<1> QED BY <1>3, <1>5, <1>6, <1>7, <1>9, <1>11, <1>12, <1>13

LEMMA QueueElements ==
    ASSUME NEW S, NEW q \in Seq(S), NEW x \in S
    PROVE  /\ \A i \in 1..Len(Append(q, x)) :
                 Append(q, x)[i] = x \/ (i \in 1..Len(q) /\ Append(q, x)[i] = q[i])
           /\ q # <<>> => /\ Head(q) = q[1] /\ 1 \in 1..Len(q)
                          /\ \A i \in 1..Len(Tail(q)) :
                                i + 1 \in 1..Len(q) /\ Tail(q)[i] = q[i+1]
OBVIOUS

LEMMA DeletionInvInit == Init => DeletionInv
<1> SUFFICES ASSUME Init PROVE DeletionInv OBVIOUS
<1>1. TypeOK BY TypeInit
<1>2. CacheBehind
  BY DEF Init, CacheBehind
<1>3. ReconcileBehind /\ WorkerBehind
  BY DEF Init, ReconcileBehind, WorkerBehind, WorksOnBackup
<1>4. QueueBehind
  BY DEF Init, QueueBehind
<1> QED BY <1>1, <1>2, <1>3, <1>4 DEF DeletionInv

LEMMA DeletionInvNext == ~Recreate /\ DeletionInv /\ [Next]_vars => DeletionInv'
<1> SUFFICES ASSUME ~Recreate, DeletionInv, [Next]_vars PROVE DeletionInv'
  OBVIOUS
<1> DEFINE Goal == CacheBehind' /\ ReconcileBehind' /\ QueueBehind' /\ WorkerBehind'
<1>0. TypeOK /\ CacheBehind /\ ReconcileBehind /\ QueueBehind /\ WorkerBehind
  BY DEF DeletionInv
<1>t. TypeOK' BY <1>0, TypeNext
<1>u. CASE UNCHANGED vars
  BY <1>u, <1>0, <1>t DEF vars, apiVars, recVars, workerVars, DeletionInv, CacheBehind,
     ReconcileBehind, QueueBehind, WorkerBehind, WorksOnBackup
<1>n. SUFFICES ASSUME Next PROVE Goal
  BY <1>u, <1>t DEF DeletionInv
<1> USE DEF recVars, workerVars
<1>k. /\ cache' = cache => CacheBehind'
      /\ UNCHANGED <<rpc, rb, rdel>> => ReconcileBehind'
      /\ rpc' = "idle" => ReconcileBehind'
      /\ (UNCHANGED <<rb, rdel>> /\ rpc # "idle" /\ (rpc' = "enqueue" => rdel))
            => ReconcileBehind'
      /\ queue' = queue => QueueBehind'
      /\ UNCHANGED <<wpc, wb>> => WorkerBehind'
      /\ wpc' = "idle" => WorkerBehind'
      /\ (wb' = wb /\ WorksOnBackup /\ wpc' \in {"target", "unfinalize"}) => WorkerBehind'
  BY <1>n, PartsKept
<1>1. CASE Environment
  BY <1>1, <1>k DEF Environment, CreateBackup, StartPush, FinishPush, CompleteBackup,
     FailBackup, DeleteBackup, DeleteConfig, StorageStatus
<1>2. ASSUME NEW b \in Backups, CacheSync(b) PROVE Goal
  <2>1. CacheBehind'
    BY <1>0, <1>2 DEF CacheSync, CacheBehind, TypeOK, apiVars
  <2> QED BY <1>2, <1>k, <2>1 DEF CacheSync
<1>3. CASE Resync
  BY <1>3, <1>k DEF Resync
<1>4. ASSUME NEW b \in Backups, StartReconcile(b) PROVE Goal
  <2>1. ReconcileBehind'
    <3>1. CASE Present(cache[b])
      <4>1. rb' = b /\ rdel' = (cache[b].st = "terminating") /\ rpc' # "enqueue" /\ api' = api
        BY <1>4, <3>1 DEF StartReconcile, apiVars
      <4>2. rdel' => Ending(api[b])
        BY <1>0, <4>1 DEF CacheBehind, Ending
      <4> QED BY <4>1, <4>2 DEF ReconcileBehind
    <3>2. CASE ~Present(cache[b])
      BY <1>4, <3>2, <1>k DEF StartReconcile
    <3> QED BY <3>1, <3>2
  <2> QED BY <1>4, <1>k, <2>1 DEF StartReconcile
<1>5. CASE reconcileOwnerReference
  BY <1>5, <1>k DEF reconcileOwnerReference, Proceed
<1>6. CASE reconcileBackupMetadata
  BY <1>6, <1>k DEF reconcileBackupMetadata, AfterMetadata
<1>7. ASSUME NEW c \in Backups, reconcileRelatedBackupsMetadata(c) PROVE Goal
  BY <1>7, <1>k DEF reconcileRelatedBackupsMetadata
<1>8. CASE reconcileFinalizers
  BY <1>8, <1>k DEF reconcileFinalizers, Proceed
<1>9. CASE reconcileBackupPermanence
  BY <1>9, <1>k DEF reconcileBackupPermanence, EndReconcile
<1>10. CASE ReconcileFails
  BY <1>10, <1>k DEF ReconcileFails, ReconcileError, EndReconcile
<1>11. CASE EnqueueBackupDeletion
  <2>1. rb \in Backups /\ Ending(api[rb])
    BY <1>0, <1>11 DEF EnqueueBackupDeletion, ReconcileBehind, TypeOK
  <2>2. Ending(api'[rb])
    BY <1>0, <1>n, <2>1, NoReturn
  <2>3. QueueBehind'
    <3>1. CASE queue' = queue
      BY <3>1, <1>k
    <3>2. CASE queue' = Append(queue, rb)
      <4>1. \A i \in 1..Len(queue') :
               queue'[i] = rb \/ (i \in 1..Len(queue) /\ queue'[i] = queue[i])
        BY <3>2, <2>1, <1>0, QueueElements DEF TypeOK
      <4>2. \A i \in 1..Len(queue) :
               IF queue[i] = Config THEN cfg'.st # "live" ELSE Ending(api'[queue[i]])
        BY <1>0, <1>n, NoReturn, ConfigNoReturn DEF QueueBehind, TypeOK
      <4>3. rb # Config
        BY <2>1, LifecycleAssumption
      <4> QED BY <4>1, <4>2, <4>3, <2>2 DEF QueueBehind
    <3> QED BY <1>11, <3>1, <3>2 DEF EnqueueBackupDeletion
  <2> QED BY <1>11, <1>k, <2>3 DEF EnqueueBackupDeletion, EndReconcile
<1>12. CASE ReconcileConfig
  <2>1. queue' = Append(queue, Config) /\ cfg' = cfg /\ api' = api /\ cfg.st # "live"
    BY <1>12 DEF ReconcileConfig, apiVars
  <2>2. \A i \in 1..Len(queue') :
           queue'[i] = Config \/ (i \in 1..Len(queue) /\ queue'[i] = queue[i])
    BY <2>1, <1>0, QueueElements DEF TypeOK
  <2>3. QueueBehind'
    BY <1>0, <2>1, <2>2 DEF QueueBehind
  <2> QED BY <1>12, <1>k, <2>3 DEF ReconcileConfig
<1>13. ASSUME queue # <<>>, queue' = Tail(queue), api' = api, cfg' = cfg PROVE QueueBehind'
  <2>1. \A i \in 1..Len(queue') : i + 1 \in 1..Len(queue) /\ queue'[i] = queue[i+1]
    BY <1>0, <1>13, QueueElements DEF TypeOK
  <2> QED BY <1>0, <1>13, <2>1 DEF QueueBehind
<1>14. CASE TakeBackupRequest
  <2>1. queue # <<>> /\ queue' = Tail(queue) /\ api' = api /\ cfg' = cfg /\ Head(queue) # Config
    BY <1>14 DEF TakeBackupRequest, apiVars
  <2>2. Ending(api[Head(queue)])
    BY <1>0, <2>1, QueueElements DEF QueueBehind, TypeOK
  <2>3. WorkerBehind'
    BY <1>14, <1>k, <2>1, <2>2 DEF TakeBackupRequest, WorkerEnds, WorkerGoes, DeletionStep,
       WorkerBehind, WorksOnBackup
  <2> QED BY <1>13, <1>14, <1>k, <2>1, <2>3 DEF TakeBackupRequest
<1>15. CASE UnmarkBackupPermanent
  BY <1>15, <1>k DEF UnmarkBackupPermanent, WorkerGoes, WorksOnBackup
<1>16. CASE DeleteTarget
  BY <1>16, <1>k DEF DeleteTarget, WorkerGoes, WorkerEnds, WorksOnBackup
<1>17. CASE removeBackupFinalizer
  BY <1>17, <1>k DEF removeBackupFinalizer, WorkerGoes, WorkerEnds
<1>18. CASE TakeConfigRequest
  <2>1. queue # <<>> /\ queue' = Tail(queue) /\ api' = api /\ cfg' = cfg /\ Head(queue) = Config
    BY <1>18 DEF TakeConfigRequest, apiVars
  <2>2. cfg.st # "live"
    BY <1>0, <2>1, QueueElements DEF QueueBehind, TypeOK
  <2>3. WorkerBehind'
    BY <1>18, <1>k, <2>1, <2>2 DEF TakeConfigRequest, WorkerEnds, WorkerGoes, WorkerBehind, WorksOnBackup
  <2> QED BY <1>13, <1>18, <1>k, <2>1, <2>3 DEF TakeConfigRequest
<1>19. CASE WipeStorage
  <2>1. WorkerBehind'
    BY <1>0, <1>19, <1>k DEF WipeStorage, WorkerEnds, WorkerGoes, WorkerBehind, WorksOnBackup, apiVars
  <2> QED BY <1>19, <1>k, <2>1 DEF WipeStorage
<1>20. CASE removeConfigFinalizer
  BY <1>20, <1>k DEF removeConfigFinalizer, WorkerEnds, WorkerGoes
<1>21. ASSUME Restart PROVE Goal
  <2>1. QueueBehind'
    BY <1>21 DEF Restart, QueueBehind
  <2>2. CacheBehind'
    BY <1>21 DEF Restart, CacheBehind, apiVars
  <2> QED BY <1>21, <1>k, <2>1, <2>2 DEF Restart, WorkerEnds, WorkerGoes
<1>22. CASE Reconcile
  BY <1>22, <1>4, <1>5, <1>6, <1>7, <1>8, <1>9, <1>10, <1>11 DEF Reconcile, ReconcileStep
<1>23. CASE Worker
  BY <1>23, <1>14, <1>15, <1>16, <1>17, <1>18, <1>19, <1>20, <1>21 DEF Worker, Panic
<1> QED BY <1>n, <1>1, <1>2, <1>3, <1>12, <1>21, <1>22, <1>23 DEF Next, Crash

(* Every deletion known anywhere in the operator has really been asked for *)
(* in the API server, if names are never used again.                       *)
THEOREM DeletionsAreReal ==
    ASSUME ~Recreate PROVE Spec => []DeletionInv
BY DeletionInvInit, DeletionInvNext, PTL DEF Spec

(* Only the worker's delete target and the storage wipe remove data. *)
LEMMA WhoRemoves ==
    ASSUME Next, phys \ phys' # {} PROVE DeleteTarget \/ WipeStorage
<1> USE DEF walgVars
<1>1. Environment => phys \subseteq phys'
  BY DEF Environment, CreateBackup, StartPush, FinishPush, CompleteBackup, FailBackup,
     DeleteBackup, DeleteConfig, StorageStatus
<1>2. ASSUME NEW b \in Backups, CacheSync(b) PROVE phys' = phys
  BY <1>2 DEF CacheSync
<1>3. Resync \/ ReconcileConfig => phys' = phys
  BY DEF Resync, ReconcileConfig
<1>4. Reconcile => phys' = phys
  BY DEF Reconcile, ReconcileStep, StartReconcile, reconcileOwnerReference,
     reconcileBackupMetadata, reconcileRelatedBackupsMetadata, reconcileFinalizers,
     reconcileBackupPermanence, EnqueueBackupDeletion, ReconcileFails, ReconcileError
<1>5. Worker => phys' = phys \/ DeleteTarget \/ WipeStorage
  BY DEF Worker, TakeBackupRequest, UnmarkBackupPermanent, removeBackupFinalizer,
     TakeConfigRequest, removeConfigFinalizer, Panic, Restart
<1>6. Crash => phys' = phys
  BY DEF Crash, Restart
<1> QED BY <1>1, <1>2, <1>3, <1>4, <1>5, <1>6 DEF Next

(* deleteWALGBackup never removes the data of a Backup nobody asked to     *)
(* delete (nor of one that does not depend on such a Backup), although it  *)
(* trusts a queued name and a cached copy: provided names are not reused.  *)
THEOREM RemovalsAreRequested ==
    ASSUME ~Recreate PROVE Spec => OnlyDeletedRemoved
<1>1. DeletionInv /\ [Next]_vars => [RemovalIsRequested]_vars
  <2> SUFFICES ASSUME DeletionInv, Next, NEW c \in phys \ phys'
               PROVE  \/ cfg.st # "live"
                      \/ \E a \in Backups : api[a].st # "live" /\ (a = c \/ c \in DeltasOn(a))
    BY DEF RemovalIsRequested
  <2>1. CASE DeleteTarget
    <3>1. wb \in Backups /\ api[wb].st # "live"
      BY <2>1 DEF DeletionInv, TypeOK, WorkerBehind, WorksOnBackup, DeleteTarget, Ending
    <3>2. c = wb \/ c \in DeltasOn(wb)
      BY <2>1 DEF DeleteTarget
    <3> QED BY <3>1, <3>2
  <2>2. CASE WipeStorage
    BY <2>2 DEF DeletionInv, WorkerBehind, WipeStorage
  <2> QED BY <2>1, <2>2, WhoRemoves
<1> QED BY <1>1, DeletionsAreReal, PTL DEF Spec, OnlyDeletedRemoved

-----------------------------------------------------------------------------
(* Removing the finalizer of a completed Backup comes after removing its   *)
(* data, unless the code is told to leave data: deletion management is off *)
(* or the storage reported unwritable.                                     *)
LEMMA DataInvInit == Init => DataInv
<1> SUFFICES ASSUME Init PROVE DataInv OBVIOUS
<1>1. DeletionInv BY DeletionInvInit
<1>2. ~cfg.unwritable BY DEF Init
<1>3. PushedBehind
  BY DEF Init, PushedBehind, NoObject, WorksOnBackup
<1>4. RemovedFirst
  BY <1>2 DEF Init, RemovedFirst
<1> QED BY <1>1, <1>3, <1>4 DEF DataInv

(* What a write may do to an object as far as DataInv cares: it records no *)
(* BackupID and does not undo the creation.                                *)
Milder(o, p) ==
    /\ p.phase = "completed" => o.phase = "completed"
    /\ p.st = "unborn" => o.st = "unborn" /\ p.phase = o.phase

LEMMA WritesAreMilder ==
    ASSUME NEW o \in Backup
    PROVE  /\ Milder(o, o) /\ Milder(o, NewBackup) /\ Milder(o, [o EXCEPT !.owned = TRUE])
           /\ \A f \in BOOLEAN : Milder(o, Stored([o EXCEPT !.fin = f]))
           /\ \A old, new \in Backup : Milder(o, Patched(o, old, new))
           /\ o.st = "live" => Milder(o, DeleteCall(o))
           /\ Present(o) => Milder(o, [o EXCEPT !.phase = "failed"])
<1> USE DEF Milder
<1>1. Milder(o, o) /\ Milder(o, NewBackup) /\ Milder(o, [o EXCEPT !.owned = TRUE])
  BY DEF Backup, NewBackup, NoObject
<1>2. \A f \in BOOLEAN : Milder(o, Stored([o EXCEPT !.fin = f]))
  BY DEF Backup, Stored, NoObject
<1>3. \A old, new \in Backup : Milder(o, Patched(o, old, new))
  <2> TAKE old, new \in Backup
  <2> DEFINE D == IF new.deps = old.deps THEN o.deps ELSE new.deps
             M == IF new.meta = old.meta THEN o.meta ELSE new.meta
  <2>1. Patched(o, old, new) = [o EXCEPT !.deps = D, !.meta = M]
    BY DEF Patched
  <2> HIDE DEF D, M
  <2> QED BY <2>1 DEF Backup
<1>4. o.st = "live" => Milder(o, DeleteCall(o))
  BY DEF Backup, DeleteCall, Stored, NoObject
<1>5. Present(o) => Milder(o, [o EXCEPT !.phase = "failed"])
  BY DEF Backup, Present
<1> QED BY <1>1, <1>2, <1>3, <1>4, <1>5

(* Only CompleteBackup records a BackupID. *)
LEMMA ObjectSteps ==
    ASSUME TypeOK, Next, NEW b \in Backups
    PROVE  Milder(api[b], api'[b]) \/ CompleteBackup(b)
<1> USE DEF apiVars
<1>0. api[b] \in Backup
  BY DEF TypeOK
<1>s. Milder(api[b], api[b])
  BY <1>0, WritesAreMilder
<1>1. ASSUME NEW x \in Backups, CreateBackup(x) PROVE Milder(api[b], api'[b])
  <2>1. api' = [api EXCEPT ![x] = NewBackup]
    BY <1>1 DEF CreateBackup
  <2> QED BY <2>1, <1>0, <1>s, WritesAreMilder DEF TypeOK
<1>2. ASSUME NEW x \in Backups, CompleteBackup(x) PROVE Milder(api[b], api'[b]) \/ x = b
  <2>1. x # b => api'[b] = api[b]
    BY <1>2 DEF CompleteBackup, TypeOK
  <2> QED BY <2>1, <1>s
<1>3. ASSUME NEW x \in Backups, FailBackup(x) PROVE Milder(api[b], api'[b])
  <2>1. api' = [api EXCEPT ![x] = [api[x] EXCEPT !.phase = "failed"]] /\ Present(api[x])
    BY <1>3 DEF FailBackup
  <2>2. Present(api[b]) => Milder(api[b], [api[b] EXCEPT !.phase = "failed"])
    BY <1>0, WritesAreMilder
  <2> QED BY <2>1, <2>2, <1>s DEF TypeOK
<1>4. ASSUME NEW x \in Backups, DeleteBackup(x) PROVE Milder(api[b], api'[b])
  <2>1. api' = [api EXCEPT ![x] = DeleteCall(api[x])] /\ api[x].st = "live"
    BY <1>4 DEF DeleteBackup
  <2> QED BY <2>1, <1>0, <1>s, WritesAreMilder DEF TypeOK
<1>5. CASE reconcileOwnerReference
  <2>1. api' = api \/ api' = [api EXCEPT ![rb] = [api[rb] EXCEPT !.owned = TRUE]]
    BY <1>5 DEF reconcileOwnerReference
  <2>2. Milder(api[b], [api[b] EXCEPT !.owned = TRUE])
    BY <1>0, WritesAreMilder
  <2> QED BY <2>1, <2>2, <1>s DEF TypeOK
<1>6. ASSUME NEW x \in Backups, NEW old \in Backup, NEW new \in Backup,
             \/ api' = api
             \/ api' = [api EXCEPT ![x] = Patched(api[x], old, new)]
      PROVE  Milder(api[b], api'[b])
  <2>1. Milder(api[b], Patched(api[b], old, new))
    BY <1>0, WritesAreMilder
  <2> QED BY <2>1, <1>6, <1>s DEF TypeOK
<1>7. CASE reconcileBackupMetadata
  <2>1. rb \in Backups /\ rcopy \in Backup
    BY <1>7 DEF reconcileBackupMetadata, TypeOK
  <2>2. WithMetadata(rb, rcopy) \in Backup
    BY <2>1, MetadataType
  <2>3. \/ api' = api
        \/ api' = [api EXCEPT ![rb] = Patched(api[rb], rcopy, WithMetadata(rb, rcopy))]
    BY <1>7 DEF reconcileBackupMetadata
  <2> QED BY <2>1, <2>2, <2>3, <1>6
<1>8. ASSUME NEW c \in Backups, reconcileRelatedBackupsMetadata(c)
      PROVE  Milder(api[b], api'[b])
  <2>1. rlist[c] \in Backup
    BY DEF TypeOK
  <2>2. WithMetadata(c, rlist[c]) \in Backup
    BY <2>1, MetadataType
  <2>3. \/ api' = api
        \/ api' = [api EXCEPT ![c] = Patched(api[c], rlist[c], WithMetadata(c, rlist[c]))]
    BY <1>8 DEF reconcileRelatedBackupsMetadata
  <2> QED BY <2>1, <2>2, <2>3, <1>6
<1>9. ASSUME NEW x, NEW f \in BOOLEAN,
             api' = api \/ api' = [api EXCEPT ![x] = Stored([api[x] EXCEPT !.fin = f])]
      PROVE  Milder(api[b], api'[b])
  <2>1. Milder(api[b], Stored([api[b] EXCEPT !.fin = f]))
    BY <1>0, WritesAreMilder
  <2> QED BY <2>1, <1>9, <1>s DEF TypeOK
<1>10. CASE reconcileFinalizers
  <2>1. \/ api' = api
        \/ api' = [api EXCEPT ![rb] = Stored([api[rb] EXCEPT !.fin = ~IgnoreForBackupDeletion])]
    BY <1>10 DEF reconcileFinalizers
  <2>2. (~IgnoreForBackupDeletion) \in BOOLEAN
    OBVIOUS
  <2> QED BY <2>1, <2>2, <1>9
<1>11. CASE EnqueueBackupDeletion
  <2>1. \/ api' = api
        \/ api' = [api EXCEPT ![rb] = Stored([api[rb] EXCEPT !.fin = FALSE])]
    BY <1>11 DEF EnqueueBackupDeletion
  <2> QED BY <2>1, <1>9
<1>12. CASE removeBackupFinalizer
  <2>1. \/ api' = api
        \/ api' = [api EXCEPT ![wb] = Stored([api[wb] EXCEPT !.fin = FALSE])]
    BY <1>12 DEF removeBackupFinalizer
  <2> QED BY <2>1, <1>9
<1>13. CASE UNCHANGED api
  BY <1>13, <1>s
<1>14. \/ UNCHANGED api
       \/ \E x \in Backups : \/ CreateBackup(x) \/ CompleteBackup(x) \/ FailBackup(x)
                             \/ DeleteBackup(x) \/ reconcileRelatedBackupsMetadata(x)
       \/ reconcileOwnerReference \/ reconcileBackupMetadata \/ reconcileFinalizers
       \/ EnqueueBackupDeletion \/ removeBackupFinalizer
  BY WhoWrites
<1> QED BY <1>1, <1>2, <1>3, <1>4, <1>5, <1>7, <1>8, <1>10, <1>11, <1>12, <1>13, <1>14

(* A push that is over stays over; data appears only by a running push.    *)
LEMMA PushSteps ==
    ASSUME TypeOK, ~Recreate, Next, NEW b \in Backups
    PROVE  /\ push[b] = "done" => push'[b] = "done" \/ api[b].st = "unborn"
           /\ b \in phys' => b \in phys \/ push[b] = "running"
<1> USE DEF walgVars
<1>1. ASSUME NEW x \in Backups, CreateBackup(x)
      PROVE  /\ push[b] = "done" => push'[b] = "done" \/ api[b].st = "unborn"
             /\ phys' = phys
  BY <1>1 DEF CreateBackup, TypeOK
<1>2. ASSUME NEW x \in Backups, StartPush(x) \/ FailBackup(x)
      PROVE  (push[b] = "done" => push'[b] = "done") /\ phys' = phys
  BY <1>2 DEF StartPush, FailBackup, TypeOK
<1>3. ASSUME NEW x \in Backups, FinishPush(x)
      PROVE  /\ push[b] = "done" => push'[b] = "done"
             /\ b \in phys' => b \in phys \/ push[b] = "running"
  BY <1>3 DEF FinishPush, TypeOK
<1>4. ASSUME NEW x \in Backups, CompleteBackup(x) \/ DeleteBackup(x) \/ CacheSync(x)
                                \/ reconcileRelatedBackupsMetadata(x) \/ StartReconcile(x)
      PROVE  push' = push /\ phys' = phys
  BY <1>4 DEF CompleteBackup, DeleteBackup, CacheSync, reconcileRelatedBackupsMetadata,
     StartReconcile
<1>5. (\/ DeleteConfig \/ StorageStatus \/ Resync \/ ReconcileConfig \/ Crash)
          => push' = push /\ phys' = phys
  BY DEF DeleteConfig, StorageStatus, Resync, ReconcileConfig, Crash, Restart
<1>6. ReconcileStep => push' = push /\ phys' = phys
  <2>1. (\/ reconcileOwnerReference \/ reconcileBackupMetadata \/ reconcileFinalizers
         \/ reconcileBackupPermanence \/ EnqueueBackupDeletion) => push' = push /\ phys' = phys
    BY DEF reconcileOwnerReference, reconcileBackupMetadata, reconcileFinalizers,
       reconcileBackupPermanence, EnqueueBackupDeletion
  <2>2. ReconcileFails => push' = push /\ phys' = phys
    BY DEF ReconcileFails, ReconcileError
  <2> QED BY <1>4, <2>1, <2>2 DEF ReconcileStep
<1>7. Worker => push' = push /\ phys' \subseteq phys
  BY DEF Worker, TakeBackupRequest, UnmarkBackupPermanent, DeleteTarget,
     removeBackupFinalizer, TakeConfigRequest, WipeStorage, removeConfigFinalizer,
     Panic, Restart
<1> QED BY <1>1, <1>2, <1>3, <1>4, <1>5, <1>6, <1>7 DEF Next, Environment, Reconcile

(* The cache is only ever replaced by what the API server holds. *)
LEMMA CacheSteps ==
    ASSUME TypeOK, Next, NEW b \in Backups
    PROVE  cache'[b] = cache[b] \/ cache'[b] = api[b]
<1>1. ASSUME NEW x \in Backups, CacheSync(x) PROVE cache'[b] = cache[b] \/ cache'[b] = api[b]
  BY <1>1 DEF CacheSync, TypeOK
<1>2. Restart => cache'[b] = api[b]
  BY DEF Restart
<1>3. Environment \/ Resync \/ ReconcileConfig => cache' = cache
  BY DEF Environment, Resync, ReconcileConfig, CreateBackup, StartPush, FinishPush,
     CompleteBackup, FailBackup, DeleteBackup, DeleteConfig, StorageStatus
<1>4. Reconcile => cache' = cache
  BY DEF Reconcile, ReconcileStep, StartReconcile, reconcileOwnerReference,
     reconcileBackupMetadata, reconcileRelatedBackupsMetadata, reconcileFinalizers,
     reconcileBackupPermanence, EnqueueBackupDeletion, ReconcileFails, ReconcileError
<1>5. Worker => cache' = cache \/ Restart
  BY DEF Worker, TakeBackupRequest, UnmarkBackupPermanent, DeleteTarget,
     removeBackupFinalizer, TakeConfigRequest, WipeStorage, removeConfigFinalizer, Panic
<1> QED BY <1>1, <1>2, <1>3, <1>4, <1>5 DEF Next, Crash

(* The worker keeps its request and its copy until it ends; a new request  *)
(* brings the cached copy, and the step the code takes with it.            *)
LEMMA WorkerSteps ==
    ASSUME TypeOK, Next
    PROVE  \/ ~WorksOnBackup'
           \/ /\ WorksOnBackup /\ wb' = wb /\ wcopy' = wcopy
              /\ wpc' = wpc \/ (UnmarkBackupPermanent /\ wpc' = "target") \/ DeleteTarget
           \/ /\ wb' \in Backups /\ wcopy' = cache[wb'] /\ cfg' = cfg
              /\ wpc' = DeletionStep(wcopy')
<1> USE DEF workerVars
<1>1. Environment \/ Resync \/ ReconcileConfig => UNCHANGED workerVars
  BY DEF Environment, Resync, ReconcileConfig, CreateBackup, StartPush, FinishPush,
     CompleteBackup, FailBackup, DeleteBackup, DeleteConfig, StorageStatus
<1>2. Reconcile \/ (\E b \in Backups : CacheSync(b)) => UNCHANGED workerVars
  BY DEF Reconcile, ReconcileStep, StartReconcile, reconcileOwnerReference,
     reconcileBackupMetadata, reconcileRelatedBackupsMetadata, reconcileFinalizers,
     reconcileBackupPermanence, EnqueueBackupDeletion, ReconcileFails, ReconcileError, CacheSync
<1>3. Restart \/ removeBackupFinalizer \/ TakeConfigRequest \/ WipeStorage
         \/ removeConfigFinalizer => ~WorksOnBackup'
  BY DEF Restart, removeBackupFinalizer, TakeConfigRequest, WipeStorage,
     removeConfigFinalizer, WorkerEnds, WorkerGoes, WorksOnBackup
<1>4. UnmarkBackupPermanent => WorksOnBackup /\ wb' = wb /\ wcopy' = wcopy /\ wpc' = "target"
  BY DEF UnmarkBackupPermanent, WorkerGoes, WorksOnBackup
<1>5. DeleteTarget => (WorksOnBackup /\ wb' = wb /\ wcopy' = wcopy) \/ ~WorksOnBackup'
  BY DEF DeleteTarget, WorkerGoes, WorkerEnds, WorksOnBackup
<1>6. ASSUME TakeBackupRequest
      PROVE  \/ ~WorksOnBackup'
             \/ /\ wb' \in Backups /\ wcopy' = cache[wb'] /\ cfg' = cfg
                /\ wpc' = DeletionStep(wcopy')
  <2>1. Head(queue) \in Backups
    BY <1>6, QueueTypes DEF TakeBackupRequest, TypeOK
  <2>2. cfg' = cfg
    BY <1>6 DEF TakeBackupRequest, apiVars
  <2>3. WorkerEnds => ~WorksOnBackup'
    BY DEF WorkerEnds, WorkerGoes, WorksOnBackup
  <2>4. \/ WorkerEnds
        \/ WorkerGoes(DeletionStep(cache[Head(queue)]), Head(queue), cache[Head(queue)])
    BY <1>6 DEF TakeBackupRequest
  <2> QED BY <2>1, <2>2, <2>3, <2>4 DEF WorkerGoes
<1>7. UNCHANGED workerVars => (WorksOnBackup' <=> WorksOnBackup)
  BY DEF WorksOnBackup
<1> QED BY <1>1, <1>2, <1>3, <1>4, <1>5, <1>6, <1>7 DEF Next, Worker, Panic, Crash

LEMMA UnwritableStep ==
    ASSUME TypeOK, Next, cfg.unwritable => MayBeUnwritable
    PROVE  cfg'.unwritable => MayBeUnwritable
<1>1. CASE DeleteConfig
  <2> DEFINE x == IF cfg.fin THEN "terminating" ELSE "gone"
  <2>1. cfg' = [cfg EXCEPT !.st = x]
    BY <1>1 DEF DeleteConfig
  <2> HIDE DEF x
  <2> QED BY <2>1 DEF TypeOK
<1>2. CASE StorageStatus
  BY <1>2 DEF StorageStatus
<1>3. CASE removeConfigFinalizer
  <2> DEFINE x == IF cfg.st = "terminating" THEN "gone" ELSE cfg.st
  <2>1. cfg' = cfg \/ cfg' = [cfg EXCEPT !.fin = FALSE, !.st = x]
    BY <1>3 DEF removeConfigFinalizer
  <2> HIDE DEF x
  <2> QED BY <2>1 DEF TypeOK
<1> QED BY <1>1, <1>2, <1>3, WhoWritesConfig

LEMMA DataInvNext == ~Recreate /\ DataInv /\ [Next]_vars => DataInv'
<1> SUFFICES ASSUME ~Recreate, DataInv, [Next]_vars PROVE DataInv'
  OBVIOUS
<1>0. DeletionInv /\ TypeOK /\ PushedBehind /\ RemovedFirst /\ ~Recreate
  BY DEF DataInv, DeletionInv
<1>d. DeletionInv'
  BY <1>0, DeletionInvNext
<1>u. CASE UNCHANGED vars
  BY <1>u, <1>0, <1>d DEF vars, apiVars, workerVars, walgVars, DataInv, PushedBehind,
     RemovedFirst, WorksOnBackup
<1>n. SUFFICES ASSUME Next PROVE PushedBehind' /\ RemovedFirst'
  BY <1>0, <1>u, <1>d DEF DataInv
<1>c. cfg'.unwritable => MayBeUnwritable
  BY <1>0, <1>n, UnwritableStep DEF RemovedFirst
<1>1. \A b \in Backups : api'[b].phase = "completed" => push'[b] = "done"
  <2> SUFFICES ASSUME NEW b \in Backups, api'[b].phase = "completed" PROVE push'[b] = "done"
    OBVIOUS
  <2>1. CASE Milder(api[b], api'[b])
    BY <2>1, <1>0, <1>n, PushSteps DEF Milder, PushedBehind
  <2>2. CASE CompleteBackup(b)
    BY <2>2 DEF CompleteBackup, walgVars
  <2> QED BY <2>1, <2>2, <1>0, <1>n, ObjectSteps
<1>2. \A b \in Backups : cache'[b].phase = "completed" => push'[b] = "done"
  BY <1>0, <1>n, CacheSteps, PushSteps DEF PushedBehind
<1>3. \A b \in Backups : api'[b].st = "unborn" => api'[b].phase = "new" /\ cache'[b].phase = "new"
  <2> SUFFICES ASSUME NEW b \in Backups, api'[b].st = "unborn"
               PROVE  api'[b].phase = "new" /\ cache'[b].phase = "new"
    OBVIOUS
  <2>1. CASE Milder(api[b], api'[b])
    BY <2>1, <1>0, <1>n, CacheSteps DEF Milder, PushedBehind
  <2>2. ASSUME CompleteBackup(b) PROVE FALSE
    <3>1. api' = [api EXCEPT ![b] = [api[b] EXCEPT !.phase = "completed"]]
      BY <2>2 DEF CompleteBackup
    <3>2. [api[b] EXCEPT !.phase = "completed"].st = api[b].st
      BY <1>0 DEF TypeOK, Backup
    <3> QED BY <2>2, <1>0, <3>1, <3>2 DEF CompleteBackup, Present, TypeOK
  <2> QED BY <2>1, <2>2, <1>0, <1>n, ObjectSteps
<1>w. \/ ~WorksOnBackup'
      \/ /\ WorksOnBackup /\ wb' = wb /\ wcopy' = wcopy
         /\ wpc' = wpc \/ (UnmarkBackupPermanent /\ wpc' = "target") \/ DeleteTarget
      \/ /\ wb' \in Backups /\ wcopy' = cache[wb'] /\ cfg' = cfg
         /\ wpc' = DeletionStep(wcopy')
  BY <1>0, <1>n, WorkerSteps
<1>v. WorksOnBackup => wb \in Backups /\ api[wb].st # "unborn"
  BY <1>0 DEF DeletionInv, TypeOK, WorkerBehind, WorksOnBackup, Ending
<1>4. (WorksOnBackup' /\ wcopy'.phase = "completed") => push'[wb'] = "done"
  <2>1. CASE WorksOnBackup /\ wb' = wb /\ wcopy' = wcopy
    BY <2>1, <1>0, <1>n, <1>v, PushSteps DEF PushedBehind
  <2>2. CASE wb' \in Backups /\ wcopy' = cache[wb']
    BY <2>2, <1>0, <1>n, PushSteps DEF PushedBehind
  <2> QED BY <1>w, <2>1, <2>2
<1>5. PushedBehind'
  BY <1>1, <1>2, <1>3, <1>4 DEF PushedBehind
<1>6. RemovedFirst'
  <2> USE <1>c
  <2>1. CASE ~WorksOnBackup'
    BY <2>1 DEF RemovedFirst, WorksOnBackup
  <2>2. CASE WorksOnBackup /\ wb' = wb /\ wcopy' = wcopy /\ wpc' = wpc
    <3>1. (wpc = "unfinalize" /\ wcopy.phase = "completed") => wb \notin phys' \/ LeavesData
      BY <1>0, <1>n, <1>v, PushSteps DEF RemovedFirst, PushedBehind, WorksOnBackup
    <3> QED BY <2>2, <3>1, <1>0 DEF RemovedFirst
  <2>3. CASE WorksOnBackup /\ wb' = wb /\ wcopy' = wcopy /\ UnmarkBackupPermanent /\ wpc' = "target"
    BY <2>3, <1>0 DEF RemovedFirst, UnmarkBackupPermanent
  <2>4. CASE DeleteTarget
    <3>1. wpc' \in {"idle", "unfinalize"} /\ (wpc' = "unfinalize" => wb' \notin phys')
      BY <2>4 DEF DeleteTarget, WorkerGoes, WorkerEnds
    <3> QED BY <3>1 DEF RemovedFirst
  <2>5. CASE wcopy' = cache[wb'] /\ wpc' = DeletionStep(wcopy')
    BY <2>5, <1>0 DEF DeletionStep, RemovedFirst, LeavesData
  <2> QED BY <1>w, <2>1, <2>2, <2>3, <2>4, <2>5
<1> QED BY <1>5, <1>6

(* The setting in which a finalizer means what its documentation says:     *)
(* nothing tells the code to leave data.                                   *)
Managed == ~Recreate /\ ~LeavesData

LEMMA WritesKeepFinalizer ==
    ASSUME NEW o \in Backup, o.fin
    PROVE  /\ [o EXCEPT !.owned = TRUE].fin /\ DeleteCall(o).fin
           /\ [o EXCEPT !.phase = "completed"].fin /\ [o EXCEPT !.phase = "failed"].fin
           /\ Stored([o EXCEPT !.fin = TRUE]).fin
           /\ \A old, new \in Backup : Patched(o, old, new).fin
<1>1. /\ [o EXCEPT !.owned = TRUE].fin /\ [o EXCEPT !.phase = "completed"].fin
      /\ [o EXCEPT !.phase = "failed"].fin
  BY DEF Backup
<1>2. DeleteCall(o).fin
  BY DEF Backup, DeleteCall, Stored
<1>3. Stored([o EXCEPT !.fin = TRUE]).fin
  BY DEF Backup, Stored
<1>4. \A old, new \in Backup : Patched(o, old, new).fin
  <2> TAKE old, new \in Backup
  <2> DEFINE D == IF new.deps = old.deps THEN o.deps ELSE new.deps
             M == IF new.meta = old.meta THEN o.meta ELSE new.meta
  <2>1. Patched(o, old, new) = [o EXCEPT !.deps = D, !.meta = M]
    BY DEF Patched
  <2> HIDE DEF D, M
  <2> QED BY <2>1 DEF Backup
<1> QED BY <1>1, <1>2, <1>3, <1>4

LEMMA OthersKeepFinalizers ==
    ASSUME DataInv, Managed, Next, ~removeBackupFinalizer, cfg.st # "gone",
           NEW b \in Backups, api[b].fin, api[b].phase = "completed"
    PROVE  api'[b].fin
<1>0. /\ TypeOK /\ PushedBehind /\ cfg.st # "gone" /\ ~IgnoreForBackupDeletion /\ ~Recreate
      /\ api[b] \in Backup
  BY DEF DataInv, DeletionInv, Managed, LeavesData, TypeOK
<1>1. ASSUME NEW x \in Backups, CreateBackup(x) PROVE api'[b].fin
  <2>1. x # b
    BY <1>0, <1>1 DEF CreateBackup, PushedBehind
  <2> QED BY <1>0, <1>1, <2>1 DEF CreateBackup, TypeOK
<1>2. ASSUME NEW x \in Backups, CompleteBackup(x) PROVE api'[b].fin
  <2>1. api' = [api EXCEPT ![x] = [api[x] EXCEPT !.phase = "completed"]]
    BY <1>2 DEF CompleteBackup
  <2> QED BY <2>1, <1>0, WritesKeepFinalizer DEF TypeOK
<1>3. ASSUME NEW x \in Backups, FailBackup(x) PROVE api'[b].fin
  <2>1. api' = [api EXCEPT ![x] = [api[x] EXCEPT !.phase = "failed"]]
    BY <1>3 DEF FailBackup
  <2> QED BY <2>1, <1>0, WritesKeepFinalizer DEF TypeOK
<1>4. ASSUME NEW x \in Backups, DeleteBackup(x) PROVE api'[b].fin
  <2>1. api' = [api EXCEPT ![x] = DeleteCall(api[x])]
    BY <1>4 DEF DeleteBackup
  <2> QED BY <2>1, <1>0, WritesKeepFinalizer DEF TypeOK
<1>5. CASE reconcileOwnerReference
  <2>1. api' = api \/ api' = [api EXCEPT ![rb] = [api[rb] EXCEPT !.owned = TRUE]]
    BY <1>5 DEF reconcileOwnerReference
  <2>2. [api[b] EXCEPT !.owned = TRUE].fin
    BY <1>0, WritesKeepFinalizer
  <2> QED BY <2>1, <2>2, <1>0 DEF TypeOK
<1>6. CASE reconcileBackupMetadata
  <2>1. rb \in Backups /\ rcopy \in Backup
    BY <1>6, <1>0 DEF reconcileBackupMetadata, TypeOK
  <2>2. WithMetadata(rb, rcopy) \in Backup
    BY <1>0, <2>1, MetadataType
  <2>3. \/ api' = api
        \/ api' = [api EXCEPT ![rb] = Patched(api[rb], rcopy, WithMetadata(rb, rcopy))]
    BY <1>6 DEF reconcileBackupMetadata
  <2>4. Patched(api[b], rcopy, WithMetadata(rb, rcopy)).fin
    BY <1>0, <2>1, <2>2, WritesKeepFinalizer
  <2> QED BY <2>3, <2>4, <1>0 DEF TypeOK
<1>7. ASSUME NEW c \in Backups, reconcileRelatedBackupsMetadata(c) PROVE api'[b].fin
  <2>1. rlist[c] \in Backup
    BY <1>0 DEF TypeOK
  <2>2. WithMetadata(c, rlist[c]) \in Backup
    BY <1>0, <2>1, MetadataType
  <2>3. \/ api' = api
        \/ api' = [api EXCEPT ![c] = Patched(api[c], rlist[c], WithMetadata(c, rlist[c]))]
    BY <1>7 DEF reconcileRelatedBackupsMetadata
  <2>4. Patched(api[b], rlist[c], WithMetadata(c, rlist[c])).fin
    BY <1>0, <2>1, <2>2, WritesKeepFinalizer
  <2> QED BY <2>3, <2>4, <1>0 DEF TypeOK
<1>8. CASE reconcileFinalizers
  <2>1. api' = api \/ api' = [api EXCEPT ![rb] = Stored([api[rb] EXCEPT !.fin = TRUE])]
    BY <1>8, <1>0 DEF reconcileFinalizers
  <2>2. Stored([api[b] EXCEPT !.fin = TRUE]).fin
    BY <1>0, WritesKeepFinalizer
  <2> QED BY <2>1, <2>2, <1>0 DEF TypeOK
<1>9. CASE EnqueueBackupDeletion
  BY <1>9, <1>0 DEF EnqueueBackupDeletion
<1>10. CASE UNCHANGED api
  BY <1>10
<1> QED
  BY <1>1, <1>2, <1>3, <1>4, <1>5, <1>6, <1>7, <1>8, <1>9, <1>10, WhoWrites

(* The finalizer of a Backup with a BackupID goes only after its data, in  *)
(* every interleaving of the reconciler, the worker, the sidecar, the      *)
(* deletion of the BackupConfig, cache lag, failed calls and crashes, as   *)
(* long as the BackupConfig is not gone, its storage is reported writable  *)
(* and deletion management is on.                                          *)
THEOREM FinalizersGuardData ==
    ASSUME Managed PROVE Spec => FinalizerGuardsData
<1>1. DataInv /\ [Next]_vars => [ReleaseIsSafe]_vars
  <2> SUFFICES ASSUME DataInv, Next, NEW b \in Backups, cfg.st # "gone",
                      api[b].fin, ~api'[b].fin, api[b].phase = "completed"
               PROVE  b \notin phys'
    BY DEF ReleaseIsSafe
  <2>0. TypeOK /\ RemovedFirst
    BY DEF DataInv, DeletionInv
  <2>1. CASE removeBackupFinalizer
    <3>1. wcopy = api[wb] /\ b = wb /\ phys' = phys /\ wpc = "unfinalize"
      BY <2>1, <2>0 DEF removeBackupFinalizer, CanUpdate, TypeOK, walgVars
    <3>2. wcopy.phase = "completed"
      BY <3>1
    <3>3. wb \notin phys \/ LeavesData
      BY <3>1, <3>2, <2>0 DEF RemovedFirst
    <3>4. ~LeavesData
      BY DEF Managed
    <3> QED BY <3>1, <3>3, <3>4
  <2>2. CASE ~removeBackupFinalizer
    <3>1. api'[b].fin
      BY <2>2, OthersKeepFinalizers
    <3> QED BY <3>1
  <2> QED BY <2>1, <2>2
<1>2. DataInv /\ [Next]_vars => DataInv'
  BY DataInvNext DEF Managed
<1> QED BY <1>1, <1>2, DataInvInit, PTL DEF Spec, FinalizerGuardsData

-----------------------------------------------------------------------------
(* The dependent-backups annotation.  A copy o of an object is not ahead   *)
(* of the object p; an object without BackupID has no dependents; a Backup *)
(* that some annotation names is being deleted or gone, or the cache shows *)
(* it with all that a new computation of the annotation asks for.          *)
CopyBehind(o, p) ==
    \/ p.st = "gone"
    \/ /\ o.phase = "completed" => p.phase = "completed"
       /\ o.owned => p.owned
DepsLate(o) == o.phase # "completed" => o.deps = {}
Showing(c) == cache[c].st = "live" /\ cache[c].phase = "completed" /\ cache[c].owned

CopiesBehind ==
    /\ \A b \in Backups : CopyBehind(cache[b], api[b]) /\ CopyBehind(rlist[b], api[b])
    /\ rpc # "idle" => CopyBehind(rcopy, api[rb])
AllDepsLate ==
    /\ \A b \in Backups : DepsLate(api[b]) /\ DepsLate(cache[b]) /\ DepsLate(rlist[b])
    /\ DepsLate(rcopy)
NamedShown == \A a \in Backups : \A c \in api[a].deps : Ending(api[c]) \/ Showing(c)
PushedOnce ==
    \A b \in Backups : /\ api[b].st = "unborn" => api[b] = NoObject("unborn") /\ push[b] = "idle"
                       /\ push[b] = "idle" => b \notin phys
                       /\ parent[b] # b

DepsInv == DeletionInv /\ CopiesBehind /\ AllDepsLate /\ NamedShown /\ PushedOnce

(* What a write other than the patch of the annotation does to an object.  *)
Plain(o, p) ==
    /\ CopyBehind(o, p) /\ (o.st = "gone" => p.st = "gone")
    /\ p.st = "unborn" => p = o
    /\ DepsLate(o) => DepsLate(p)
    /\ p.deps = o.deps \/ (p.deps = {} /\ ~Present(p)) \/ (o.st = "unborn" /\ p.deps = {})

LEMMA NothingPlain ==
    /\ DepsLate(NoObject("gone")) /\ DepsLate(NoObject("unborn"))
    /\ Plain(NoObject("unborn"), NewBackup)
    /\ \A p : CopyBehind(NoObject("gone"), p) /\ CopyBehind(NoObject("unborn"), p)
BY DEF DepsLate, NoObject, NewBackup, Plain, CopyBehind, Present

LEMMA PlainWrites ==
    ASSUME NEW o \in Backup
    PROVE  /\ Plain(o, o)
           /\ Present(o) =>
                /\ Plain(o, [o EXCEPT !.owned = TRUE]) /\ Plain(o, DeleteCall(o))
                /\ \A f \in BOOLEAN : Plain(o, Stored([o EXCEPT !.fin = f]))
                /\ o.phase = "new" => Plain(o, [o EXCEPT !.phase = "failed"])
                /\ Plain(o, [o EXCEPT !.phase = "completed"])
<1> USE DEF Plain, CopyBehind, DepsLate, Present
<1>1. Plain(o, o)
  BY DEF Backup
<1> SUFFICES ASSUME Present(o)
             PROVE  /\ Plain(o, [o EXCEPT !.owned = TRUE]) /\ Plain(o, DeleteCall(o))
                    /\ \A f \in BOOLEAN : Plain(o, Stored([o EXCEPT !.fin = f]))
                    /\ o.phase = "new" => Plain(o, [o EXCEPT !.phase = "failed"])
                    /\ Plain(o, [o EXCEPT !.phase = "completed"])
  BY <1>1
<1>2. Plain(o, [o EXCEPT !.owned = TRUE]) /\ Plain(o, [o EXCEPT !.phase = "completed"])
  BY DEF Backup
<1>3. o.phase = "new" => Plain(o, [o EXCEPT !.phase = "failed"])
  BY DEF Backup
<1>4. Plain(o, NoObject("gone"))
  BY DEF NoObject
<1>5. Plain(o, DeleteCall(o))
  <2>1. Plain(o, [o EXCEPT !.st = "terminating"])
    BY DEF Backup
  <2> QED BY <1>4, <2>1 DEF DeleteCall, Stored
<1>6. ASSUME NEW f \in BOOLEAN PROVE Plain(o, Stored([o EXCEPT !.fin = f]))
  <2>1. Plain(o, [o EXCEPT !.fin = f])
    BY DEF Backup
  <2> QED BY <1>4, <2>1 DEF Stored
<1> QED BY <1>2, <1>3, <1>5, <1>6

(* The patch computed from copy old of x: it changes the annotation only.  *)
Patch(x, old) ==
    /\ Present(api[x]) /\ UNCHANGED cache
    /\ api' = [api EXCEPT ![x] = Patched(api[x], old, WithMetadata(x, old))]

LEMMA PatchWrites ==
    ASSUME NEW o \in Backup, NEW x, NEW old \in Backup, WithMetadata(x, old) \in Backup
    PROVE  LET p == Patched(o, old, WithMetadata(x, old))
               deps == buildDependentBackupsForBackup(x, old)
           IN  /\ p.st = o.st /\ p.phase = o.phase /\ p.owned = o.owned
               /\ p.deps = IF deps = old.deps THEN o.deps ELSE deps
<1> DEFINE new == WithMetadata(x, old)
           deps == buildDependentBackupsForBackup(x, old)
           D == IF new.deps = old.deps THEN o.deps ELSE new.deps
           M == IF new.meta = old.meta THEN o.meta ELSE new.meta
<1>1. new.deps = deps
  <2> DEFINE N == IF old.phase = "completed" THEN "typed"
                  ELSE IF old.meta = "none" THEN "base" ELSE old.meta
  <2>1. new = [old EXCEPT !.deps = deps, !.meta = N]
    BY DEF WithMetadata
  <2> HIDE DEF N, new, deps
  <2> QED BY <2>1 DEF Backup
<1>2. Patched(o, old, new) = [o EXCEPT !.deps = D, !.meta = M]
  BY DEF Patched
<1> HIDE DEF M
<1>3. D = IF deps = old.deps THEN o.deps ELSE deps
  BY <1>1
<1> HIDE DEF D, new, deps
<1>4. LET p == [o EXCEPT !.deps = D, !.meta = M]
      IN  p.st = o.st /\ p.phase = o.phase /\ p.owned = o.owned /\ p.deps = D
  BY DEF Backup
<1> QED BY <1>2, <1>3, <1>4 DEF new, deps

LEMMA DepsShowing ==
    ASSUME NEW x, NEW old, NEW c \in buildDependentBackupsForBackup(x, old)
    PROVE  Showing(c) /\ old.phase = "completed"
BY DEF buildDependentBackupsForBackup, listBackupsOwnedByBackupConfig, Showing

(* A direct dependent that the cache shows is in a new computation.        *)
LEMMA ShowingInDeps ==
    ASSUME TypeOK, NEW x \in Backups, NEW old, NEW c \in Backups,
           old.phase = "completed", Showing(c), parent[c] = x, x # c
    PROVE  c \in buildDependentBackupsForBackup(x, old)
<1> DEFINE withID == { d \in listBackupsOwnedByBackupConfig : cache[d].phase = "completed" }
           names == { NameOf(d) : d \in withID }
<1>1. c \in withID /\ cache[c].st = "live"
  BY DEF listBackupsOwnedByBackupConfig, Showing, Present
<1>2. NameOf(c) \in names
  BY <1>1
<1>3. NameOf(c) \in findDirectDependencies(NameOf(x), names)
  <2>1. /\ NameOf(c).base = x /\ NameOf(c).wal = c /\ NameOf(x).wal = x
        /\ x # NoBase
    BY LifecycleAssumption DEF NameOf, BackupName
  <2> HIDE DEF names
  <2> QED BY <1>2, <2>1 DEF findDirectDependencies, IsDelta
<1>4. NameOf(c) \in GetDependentBackups(NameOf(x), names)
  <2> HIDE DEF names
  <2> QED BY <1>2, <1>3 DEF GetDependentBackups
<1> QED BY <1>1, <1>4 DEF buildDependentBackupsForBackup

(* Every write is a plain one or the patch of one annotation.              *)
LEMMA WriteSteps ==
    ASSUME TypeOK, PushedOnce, ~Recreate, Next
    PROVE  \/ \A b \in Backups : Plain(api[b], api'[b])
           \/ rpc # "idle" /\ Patch(rb, rcopy)
           \/ \E x \in Backups : Patch(x, rlist[x])
<1> DEFINE AllPlain == \A b \in Backups : Plain(api[b], api'[b])
<1>0. \A b \in Backups : api[b] \in Backup /\ Plain(api[b], api[b])
  BY PlainWrites DEF TypeOK
<1>a. ASSUME NEW x \in Backups, NEW o, api' = [api EXCEPT ![x] = o], Plain(api[x], o)
      PROVE  AllPlain
  BY <1>a, <1>0 DEF TypeOK
<1>s. api' = api => AllPlain
  BY <1>0
<1> HIDE DEF AllPlain
<1>1. ASSUME NEW x \in Backups, CreateBackup(x) PROVE AllPlain
  <2>1. api' = [api EXCEPT ![x] = NewBackup] /\ api[x] = NoObject("unborn")
    BY <1>1 DEF CreateBackup, PushedOnce
  <2> QED BY <2>1, <1>a, NothingPlain
<1>2. ASSUME NEW x \in Backups, CompleteBackup(x) PROVE AllPlain
  <2>1. api' = [api EXCEPT ![x] = [api[x] EXCEPT !.phase = "completed"]] /\ Present(api[x])
    BY <1>2 DEF CompleteBackup
  <2>2. Plain(api[x], [api[x] EXCEPT !.phase = "completed"])
    BY <2>1, <1>0, PlainWrites
  <2> QED BY <2>1, <2>2, <1>a
<1>3. ASSUME NEW x \in Backups, FailBackup(x) PROVE AllPlain
  <2>1. /\ api' = [api EXCEPT ![x] = [api[x] EXCEPT !.phase = "failed"]]
        /\ Present(api[x]) /\ api[x].phase = "new"
    BY <1>3 DEF FailBackup
  <2>2. Plain(api[x], [api[x] EXCEPT !.phase = "failed"])
    BY <2>1, <1>0, PlainWrites
  <2> QED BY <2>1, <2>2, <1>a
<1>4. ASSUME NEW x \in Backups, DeleteBackup(x) PROVE AllPlain
  <2>1. api' = [api EXCEPT ![x] = DeleteCall(api[x])] /\ Present(api[x])
    BY <1>4 DEF DeleteBackup, Present
  <2>2. Plain(api[x], DeleteCall(api[x]))
    BY <2>1, <1>0, PlainWrites
  <2> QED BY <2>1, <2>2, <1>a
<1>5. ASSUME reconcileOwnerReference PROVE AllPlain
  <2>1. CASE api' = api
    BY <2>1, <1>s
  <2>2. CASE Present(api[rb]) /\ api' = [api EXCEPT ![rb] = [api[rb] EXCEPT !.owned = TRUE]]
    <3>1. rb \in Backups
      BY <1>5 DEF reconcileOwnerReference, TypeOK
    <3>2. Plain(api[rb], [api[rb] EXCEPT !.owned = TRUE])
      BY <2>2, <3>1, <1>0, PlainWrites
    <3> QED BY <2>2, <3>1, <3>2, <1>a
  <2> QED BY <1>5, <2>1, <2>2 DEF reconcileOwnerReference, CanUpdate
<1>6. ASSUME reconcileBackupMetadata PROVE AllPlain \/ Patch(rb, rcopy)
  <2>1. \/ api' = api
        \/ /\ Present(api[rb]) /\ cache' = cache
           /\ api' = [api EXCEPT ![rb] = Patched(api[rb], rcopy, WithMetadata(rb, rcopy))]
    BY <1>6 DEF reconcileBackupMetadata
  <2> QED BY <2>1, <1>s DEF Patch
<1>7. ASSUME NEW c \in Backups, reconcileRelatedBackupsMetadata(c)
      PROVE  AllPlain \/ Patch(c, rlist[c])
  <2>1. \/ api' = api
        \/ /\ Present(api[c]) /\ cache' = cache
           /\ api' = [api EXCEPT ![c] = Patched(api[c], rlist[c], WithMetadata(c, rlist[c]))]
    BY <1>7 DEF reconcileRelatedBackupsMetadata
  <2> QED BY <2>1, <1>s DEF Patch
<1>8. ASSUME NEW x \in Backups, NEW f \in BOOLEAN, Present(api[x]),
             api' = [api EXCEPT ![x] = Stored([api[x] EXCEPT !.fin = f])]
      PROVE  AllPlain
  <2>1. Plain(api[x], Stored([api[x] EXCEPT !.fin = f]))
    BY <1>8, <1>0, PlainWrites
  <2> QED BY <2>1, <1>8, <1>a
<1>9. ASSUME reconcileFinalizers PROVE AllPlain
  <2>1. /\ rb \in Backups /\ (~IgnoreForBackupDeletion) \in BOOLEAN
        /\ \/ api' = api
           \/ /\ Present(api[rb])
              /\ api' = [api EXCEPT ![rb] =
                            Stored([api[rb] EXCEPT !.fin = ~IgnoreForBackupDeletion])]
    BY <1>9 DEF reconcileFinalizers, CanUpdate, TypeOK
  <2> QED BY <2>1, <1>8, <1>s
<1>10. ASSUME EnqueueBackupDeletion PROVE AllPlain
  <2>1. /\ rb \in Backups
        /\ \/ api' = api
           \/ /\ Present(api[rb])
              /\ api' = [api EXCEPT ![rb] = Stored([api[rb] EXCEPT !.fin = FALSE])]
    BY <1>10 DEF EnqueueBackupDeletion, CanUpdate, TypeOK
  <2> QED BY <2>1, <1>8, <1>s
<1>11. ASSUME removeBackupFinalizer PROVE AllPlain
  <2>1. /\ wb \in Backups
        /\ \/ api' = api
           \/ /\ Present(api[wb])
              /\ api' = [api EXCEPT ![wb] = Stored([api[wb] EXCEPT !.fin = FALSE])]
    BY <1>11 DEF removeBackupFinalizer, CanUpdate, TypeOK
  <2> QED BY <2>1, <1>8, <1>s
<1>12. \/ UNCHANGED api
       \/ \E x \in Backups : \/ CreateBackup(x) \/ CompleteBackup(x) \/ FailBackup(x)
                             \/ DeleteBackup(x) \/ reconcileRelatedBackupsMetadata(x)
       \/ reconcileOwnerReference \/ reconcileBackupMetadata \/ reconcileFinalizers
       \/ EnqueueBackupDeletion \/ removeBackupFinalizer
  BY WhoWrites
<1>13. reconcileBackupMetadata => rpc # "idle"
  BY DEF reconcileBackupMetadata
<1>14. \/ AllPlain
       \/ rpc # "idle" /\ Patch(rb, rcopy)
       \/ \E x \in Backups : Patch(x, rlist[x])
  BY <1>1, <1>2, <1>3, <1>4, <1>5, <1>6, <1>7, <1>9, <1>10, <1>11, <1>12, <1>13, <1>s
<1> QED BY <1>14 DEF AllPlain

(* What becomes of the copies the reconciler holds.                        *)
LEMMA CopySteps ==
    ASSUME TypeOK, Next
    PROVE  /\ \/ rpc' = "idle" /\ rcopy' \in {rcopy, NoObject("gone")}
              \/ rpc # "idle" /\ rb' = rb /\ rcopy' \in {rcopy, api'[rb]}
              \/ /\ rpc # "idle" /\ rb' = rb /\ rcopy = api[rb]
                 /\ rcopy' = [rcopy EXCEPT !.fin = ~IgnoreForBackupDeletion]
              \/ rb' \in Backups /\ rcopy' = cache[rb'] /\ api' = api
           /\ rlist' \in {rlist, cache, NoList}
<1> USE DEF recVars
<1> DEFINE Goal ==
      /\ \/ rpc' = "idle" /\ rcopy' \in {rcopy, NoObject("gone")}
         \/ rpc # "idle" /\ rb' = rb /\ rcopy' \in {rcopy, api'[rb]}
         \/ /\ rpc # "idle" /\ rb' = rb /\ rcopy = api[rb]
            /\ rcopy' = [rcopy EXCEPT !.fin = ~IgnoreForBackupDeletion]
         \/ rb' \in Backups /\ rcopy' = cache[rb'] /\ api' = api
      /\ rlist' \in {rlist, cache, NoList}
<1>1. UNCHANGED recVars => Goal
  OBVIOUS
<1>2. (rpc' = "idle" /\ rcopy' = NoObject("gone") /\ rlist' = NoList) => Goal
  OBVIOUS
<1>3. (rpc # "idle" /\ rb' = rb /\ rcopy' = rcopy /\ rlist' \in {rlist, NoList}) => Goal
  OBVIOUS
<1>4. ASSUME reconcileOwnerReference PROVE Goal
  BY <1>4 DEF reconcileOwnerReference, Proceed
<1>5. ASSUME reconcileBackupMetadata PROVE Goal
  BY <1>5 DEF reconcileBackupMetadata, AfterMetadata
<1>6. ASSUME reconcileFinalizers PROVE Goal
  BY <1>6 DEF reconcileFinalizers, Proceed, CanUpdate
<1>7. ASSUME NEW b \in Backups, StartReconcile(b) PROVE Goal
  BY <1>7 DEF StartReconcile, apiVars
<1> HIDE DEF Goal
<1>8. Environment \/ Resync \/ ReconcileConfig => UNCHANGED recVars
  BY DEF Environment, Resync, ReconcileConfig, CreateBackup, StartPush, FinishPush,
     CompleteBackup, FailBackup, DeleteBackup, DeleteConfig, StorageStatus
<1>9. ASSUME NEW b \in Backups, CacheSync(b) PROVE UNCHANGED recVars
  BY <1>9 DEF CacheSync
<1>10. ASSUME NEW c \in Backups, reconcileRelatedBackupsMetadata(c) PROVE Goal
  BY <1>10, <1>3 DEF reconcileRelatedBackupsMetadata
<1>11. reconcileBackupPermanence \/ EnqueueBackupDeletion \/ ReconcileFails => Goal
  BY <1>2 DEF reconcileBackupPermanence, EnqueueBackupDeletion, ReconcileFails,
     ReconcileError, EndReconcile
<1>12. Restart => Goal
  BY <1>2 DEF Restart
<1>13. Worker => UNCHANGED recVars \/ Restart
  BY DEF Worker, TakeBackupRequest, UnmarkBackupPermanent, DeleteTarget,
     removeBackupFinalizer, TakeConfigRequest, WipeStorage, removeConfigFinalizer, Panic
<1>14. Reconcile => Goal
  BY <1>4, <1>5, <1>6, <1>7, <1>10, <1>11 DEF Reconcile, ReconcileStep
<1>15. Goal
  BY <1>1, <1>8, <1>9, <1>12, <1>13, <1>14 DEF Next, Crash
<1> QED BY <1>15 DEF Goal

(* What a step does to an object: it does not fall behind its copies, and  *)
(* its annotation gains only Backups that the cache shows and loses no     *)
(* direct dependent that the cache shows.                                  *)
ObjectKept(b) ==
    /\ CopyBehind(api[b], api'[b]) /\ (api[b].st = "gone" => api'[b].st = "gone")
    /\ api'[b].st = "unborn" => api'[b] = api[b]
    /\ DepsLate(api'[b])
    /\ \A c \in api'[b].deps : c \in api[b].deps \/ (Showing(c) /\ cache' = cache)
    /\ \A c \in api[b].deps :
          (parent[c] = b /\ Present(api'[b]) /\ Showing(c)) => c \in api'[b].deps

LEMMA PatchKeeps ==
    ASSUME DepsInv, NEW x \in Backups, NEW old \in Backup, Patch(x, old),
           CopyBehind(old, api[x]), DepsLate(old), NEW b \in Backups
    PROVE  ObjectKept(b)
<1> DEFINE p == Patched(api[x], old, WithMetadata(x, old))
           deps == buildDependentBackupsForBackup(x, old)
<1>0. /\ TypeOK /\ api[b] \in Backup /\ api[x] \in Backup /\ DepsLate(api[b])
      /\ Present(api[x]) /\ cache' = cache /\ api' = [api EXCEPT ![x] = p]
      /\ \A c \in api[b].deps : c \in Backups /\ parent[c] # c
  BY DEF DepsInv, DeletionInv, TypeOK, Patch, AllDepsLate, PushedOnce, Backup
<1>1. CASE b # x
  <2>1. api'[b] = api[b]
    BY <1>0, <1>1 DEF TypeOK
  <2> QED BY <2>1, <1>0 DEF ObjectKept, CopyBehind
<1>2. CASE b = x
  <2>1. WithMetadata(x, old) \in Backup
    BY <1>0, MetadataType
  <2>2. /\ p.st = api[x].st /\ p.phase = api[x].phase /\ p.owned = api[x].owned
        /\ p.deps = IF deps = old.deps THEN api[x].deps ELSE deps
    BY <1>0, <2>1, PatchWrites
  <2>3. api'[b] = p
    BY <1>0, <1>2 DEF TypeOK
  <2>4. \A c \in deps : Showing(c) /\ old.phase = "completed"
    BY DepsShowing
  <2>5. old.phase # "completed" => p.deps = api[x].deps
    BY <2>2, <2>4 DEF DepsLate
  <2>6. \A c \in api[b].deps : (old.phase = "completed" /\ parent[c] = b /\ Showing(c)) => c \in deps
    BY <1>0, <1>2, ShowingInDeps
  <2> HIDE DEF p, deps
  <2>7. api[x].st # "gone" /\ api[x].st # "unborn"
    BY <1>0 DEF Present
  <2>8. DepsLate(api'[b])
    BY <2>2, <2>3, <2>5, <2>7, <1>0, <1>2 DEF DepsLate, CopyBehind
  <2>9. \A c \in api'[b].deps : c \in api[b].deps \/ (Showing(c) /\ cache' = cache)
    BY <2>2, <2>3, <2>4, <1>0, <1>2
  <2>10. \A c \in api[b].deps : (parent[c] = b /\ Showing(c)) => c \in api'[b].deps
    BY <2>2, <2>3, <2>5, <2>6, <1>2
  <2> QED BY <2>2, <2>3, <2>7, <2>8, <2>9, <2>10, <1>2 DEF ObjectKept, CopyBehind
<1> QED BY <1>1, <1>2

LEMMA ObjectsKept ==
    ASSUME DepsInv, ~Recreate, Next, NEW b \in Backups PROVE ObjectKept(b)
<1>0. TypeOK /\ PushedOnce /\ CopiesBehind /\ AllDepsLate
  BY DEF DepsInv, DeletionInv
<1>1. CASE \A x \in Backups : Plain(api[x], api'[x])
  <2>1. Plain(api[b], api'[b]) /\ DepsLate(api[b])
    BY <1>0, <1>1 DEF AllDepsLate
  <2>2. api[b].st = "unborn" => api[b].deps = {}
    BY <1>0 DEF PushedOnce, NoObject
  <2> QED BY <2>1, <2>2 DEF Plain, ObjectKept
<1>2. CASE rpc # "idle" /\ Patch(rb, rcopy)
  <2>1. rb \in Backups /\ rcopy \in Backup /\ CopyBehind(rcopy, api[rb]) /\ DepsLate(rcopy)
    BY <1>0, <1>2 DEF TypeOK, CopiesBehind, AllDepsLate
  <2> QED BY <1>2, <2>1, PatchKeeps
<1>3. ASSUME NEW x \in Backups, Patch(x, rlist[x]) PROVE ObjectKept(b)
  <2>1. rlist[x] \in Backup /\ CopyBehind(rlist[x], api[x]) /\ DepsLate(rlist[x])
    BY <1>0 DEF TypeOK, CopiesBehind, AllDepsLate
  <2> QED BY <1>3, <2>1, PatchKeeps
<1> QED BY <1>0, <1>1, <1>2, <1>3, WriteSteps

(* A backup is pushed once, on top of another one.                         *)
LEMMA PushedOnceNext ==
    ASSUME DepsInv, ~Recreate, Next PROVE PushedOnce'
<1> USE DEF walgVars
<1>0. TypeOK /\ PushedOnce
  BY DEF DepsInv, DeletionInv
<1> DEFINE Pushes(b) == /\ push[b] = "idle" => push'[b] = "idle" \/ api[b].st # "unborn"
                        /\ push'[b] = "idle" => b \notin phys'
                        /\ parent'[b] # b
<1>a. ASSUME UNCHANGED <<push, parent>>, phys' \subseteq phys PROVE \A b \in Backups : Pushes(b)
  BY <1>a, <1>0 DEF PushedOnce
<1>1. ASSUME NEW x \in Backups, CreateBackup(x) PROVE \A b \in Backups : Pushes(b)
  <2>1. push[x] = "idle"
    BY <1>0, <1>1 DEF CreateBackup, PushedOnce
  <2>2. push' = push /\ parent' = parent /\ phys' = phys
    BY <1>0, <1>1, <2>1 DEF CreateBackup, TypeOK
  <2> QED BY <2>2, <1>a
<1>2. ASSUME NEW x \in Backups, StartPush(x) PROVE \A b \in Backups : Pushes(b)
  <2>1. x \notin phys /\ x # NoBase /\ api[x].st = "live"
    BY <1>0, <1>2, LifecycleAssumption DEF StartPush, PushedOnce
  <2> QED BY <2>1, <1>0, <1>2 DEF StartPush, PushedOnce, TypeOK
<1>3. ASSUME NEW x \in Backups, FinishPush(x) PROVE \A b \in Backups : Pushes(b)
  BY <1>0, <1>3 DEF FinishPush, PushedOnce, TypeOK
<1>4. ASSUME NEW x \in Backups, FailBackup(x) PROVE \A b \in Backups : Pushes(b)
  BY <1>0, <1>4 DEF FailBackup, PushedOnce, TypeOK
<1> HIDE DEF Pushes
<1>5. ASSUME NEW x \in Backups, CompleteBackup(x) \/ DeleteBackup(x) \/ CacheSync(x)
                                \/ reconcileRelatedBackupsMetadata(x) \/ StartReconcile(x)
      PROVE  \A b \in Backups : Pushes(b)
  BY <1>5, <1>a DEF CompleteBackup, DeleteBackup, CacheSync, reconcileRelatedBackupsMetadata,
     StartReconcile
<1>6. (\/ DeleteConfig \/ StorageStatus \/ Resync \/ ReconcileConfig \/ Crash)
          => \A b \in Backups : Pushes(b)
  BY <1>a DEF DeleteConfig, StorageStatus, Resync, ReconcileConfig, Crash, Restart
<1>7. ReconcileStep => \A b \in Backups : Pushes(b)
  <2>1. (\/ reconcileOwnerReference \/ reconcileBackupMetadata \/ reconcileFinalizers
         \/ reconcileBackupPermanence \/ EnqueueBackupDeletion \/ ReconcileFails)
           => UNCHANGED <<push, parent, phys>>
    BY DEF reconcileOwnerReference, reconcileBackupMetadata, reconcileFinalizers,
       reconcileBackupPermanence, EnqueueBackupDeletion, ReconcileFails, ReconcileError
  <2> QED BY <1>5, <1>a, <2>1 DEF ReconcileStep
<1>8. Worker => UNCHANGED <<push, parent>> /\ phys' \subseteq phys
  BY DEF Worker, TakeBackupRequest, UnmarkBackupPermanent, DeleteTarget,
     removeBackupFinalizer, TakeConfigRequest, WipeStorage, removeConfigFinalizer,
     Panic, Restart
<1>9. \A b \in Backups : Pushes(b)
  BY <1>1, <1>2, <1>3, <1>4, <1>5, <1>6, <1>7, <1>8, <1>a DEF Next, Environment, Reconcile
<1>10. \A b \in Backups : api'[b].st = "unborn" => api'[b] = api[b]
  BY ObjectsKept DEF ObjectKept
<1> QED BY <1>0, <1>9, <1>10 DEF PushedOnce, Pushes

LEMMA DepsInvInit == Init => DepsInv
<1> SUFFICES ASSUME Init PROVE DepsInv OBVIOUS
<1>1. DeletionInv
  BY DeletionInvInit
<1>2. CopiesBehind /\ AllDepsLate
  BY NothingPlain DEF Init, CopiesBehind, AllDepsLate, NoList
<1>3. NamedShown
  BY DEF Init, NamedShown, NoObject
<1>4. PushedOnce
  BY LifecycleAssumption DEF Init, PushedOnce
<1> QED BY <1>1, <1>2, <1>3, <1>4 DEF DepsInv

LEMMA DepsInvNext == ~Recreate /\ DepsInv /\ [Next]_vars => DepsInv'
<1> SUFFICES ASSUME ~Recreate, DepsInv, [Next]_vars PROVE DepsInv'
  OBVIOUS
<1>0. DeletionInv /\ TypeOK /\ CopiesBehind /\ AllDepsLate /\ NamedShown /\ PushedOnce
  BY DEF DepsInv, DeletionInv
<1>d. DeletionInv' /\ TypeOK'
  BY <1>0, DeletionInvNext DEF DeletionInv
<1>u. CASE UNCHANGED vars
  BY <1>u, <1>0, <1>d DEF vars, apiVars, recVars, walgVars, DepsInv, CopiesBehind, AllDepsLate,
     NamedShown, Showing, PushedOnce
<1>n. SUFFICES ASSUME Next PROVE CopiesBehind' /\ AllDepsLate' /\ NamedShown' /\ PushedOnce'
  BY <1>u, <1>d DEF DepsInv
<1>k. \A b \in Backups : ObjectKept(b)
  BY <1>n, ObjectsKept
<1>p. \A b \in Backups : \A o : CopyBehind(o, api[b]) => CopyBehind(o, api'[b])
  BY <1>k DEF ObjectKept, CopyBehind
<1>c. \A b \in Backups : cache'[b] = cache[b] \/ cache'[b] = api[b]
  BY <1>0, <1>n, CacheSteps
<1>1. \A b \in Backups : CopyBehind(cache'[b], api'[b]) /\ DepsLate(cache'[b])
  <2>1. \A b \in Backups : CopyBehind(api[b], api[b])
    BY DEF CopyBehind
  <2> QED BY <2>1, <1>0, <1>c, <1>p DEF CopiesBehind, AllDepsLate
<1>2. \A b \in Backups : CopyBehind(rlist'[b], api'[b]) /\ DepsLate(rlist'[b])
  <2>1. rlist' \in {rlist, cache, NoList}
    BY <1>0, <1>n, CopySteps
  <2>2. \A b \in Backups : CopyBehind(NoList[b], api'[b]) /\ DepsLate(NoList[b])
    BY NothingPlain DEF NoList
  <2> QED BY <2>1, <2>2, <1>0, <1>p DEF CopiesBehind, AllDepsLate
<1>3. (rpc' # "idle" => CopyBehind(rcopy', api'[rb'])) /\ DepsLate(rcopy')
  <2>1. CASE rpc' = "idle" /\ rcopy' \in {rcopy, NoObject("gone")}
    BY <2>1, <1>0, NothingPlain DEF AllDepsLate
  <2>2. CASE rpc # "idle" /\ rb' = rb /\ rcopy' \in {rcopy, api'[rb]}
    <3>1. rb \in Backups
      BY <2>2, <1>0 DEF TypeOK
    <3>2. CopyBehind(api'[rb], api'[rb])
      BY DEF CopyBehind
    <3> QED BY <2>2, <3>1, <3>2, <1>0, <1>p, <1>k DEF CopiesBehind, AllDepsLate, ObjectKept
  <2>3. CASE /\ rpc # "idle" /\ rb' = rb /\ rcopy = api[rb]
             /\ rcopy' = [rcopy EXCEPT !.fin = ~IgnoreForBackupDeletion]
    <3>1. rb \in Backups /\ rcopy \in Backup
      BY <2>3, <1>0 DEF TypeOK
    <3>2. /\ rcopy'.phase = rcopy.phase /\ rcopy'.owned = rcopy.owned
          /\ rcopy'.deps = rcopy.deps
      BY <2>3, <3>1 DEF Backup
    <3>3. CopyBehind(rcopy, api[rb]) /\ DepsLate(rcopy)
      BY <2>3, <1>0 DEF CopiesBehind, AllDepsLate
    <3>4. CopyBehind(rcopy', api[rb]) /\ DepsLate(rcopy')
      BY <3>2, <3>3 DEF CopyBehind, DepsLate
    <3> QED BY <2>3, <3>1, <3>4, <1>p
  <2>4. CASE rb' \in Backups /\ rcopy' = cache[rb'] /\ api' = api
    BY <2>4, <1>0 DEF CopiesBehind, AllDepsLate
  <2> QED BY <2>1, <2>2, <2>3, <2>4, <1>0, <1>n, CopySteps
<1>4. CopiesBehind'
  BY <1>1, <1>2, <1>3 DEF CopiesBehind
<1>5. AllDepsLate'
  BY <1>1, <1>2, <1>3, <1>k DEF AllDepsLate, ObjectKept
<1>6. NamedShown'
  <2> SUFFICES ASSUME NEW a \in Backups, NEW c \in api'[a].deps, ~Ending(api'[c])
               PROVE  Showing(c)'
    BY DEF NamedShown
  <2>1. c \in Backups
    BY <1>d DEF TypeOK, Backup
  <2>2. ~Ending(api[c])
    BY <2>1, <1>0, <1>n, NoReturn
  <2>3. Showing(c)
    BY <2>2, <1>0, <1>k DEF NamedShown, ObjectKept
  <2>4. CASE cache'[c] = cache[c]
    BY <2>3, <2>4 DEF Showing
  <2>5. CASE cache'[c] = api[c]
    <3>1. api[c].phase = "completed" /\ api[c].owned
      BY <2>1, <2>2, <2>3, <1>0 DEF CopiesBehind, CopyBehind, Showing, Ending
    <3>2. api[c].st # "unborn"
      BY <2>1, <3>1, <1>0 DEF PushedOnce, NoObject
    <3>3. api[c].st = "live"
      BY <2>1, <2>2, <3>2, <1>0 DEF TypeOK, Backup, Ending
    <3> QED BY <2>5, <3>1, <3>3 DEF Showing
  <2> QED BY <2>1, <2>4, <2>5, <1>c
<1>7. PushedOnce'
  BY <1>n, PushedOnceNext
<1> QED BY <1>4, <1>5, <1>6, <1>7

(* A name in the dependent-backups annotation of a base stays as long as   *)
(* the delta taken on the base is live: patches computed from old copies,  *)
(* from a lagging cache or from one list for many Backups, in any          *)
(* interleaving with failures and crashes, never drop it.                  *)
THEOREM DependentsStay ==
    ASSUME ~Recreate PROVE Spec => DependentsNotForgotten
<1>1. DepsInv /\ [Next]_vars => [KeepsDependents]_vars
  <2> SUFFICES ASSUME DepsInv, Next, NEW a \in Backups, NEW c \in Backups,
                      c \in api[a].deps, parent[c] = a,
                      Present(api'[a]), api'[c].st = "live"
               PROVE  c \in api'[a].deps
    BY DEF KeepsDependents
  <2>1. ~Ending(api'[c])
    BY DEF Ending
  <2>2. ~Ending(api[c])
    BY <2>1, NoReturn DEF DepsInv, DeletionInv
  <2>3. Showing(c)
    BY <2>2 DEF DepsInv, NamedShown
  <2> QED BY <2>3, ObjectsKept DEF ObjectKept
<1> QED BY <1>1, DepsInvInit, DepsInvNext, PTL DEF Spec, DependentsNotForgotten

-----------------------------------------------------------------------------
(* BackupLifecycle implements BackupPromise: every step is a step of the   *)
(* promise or leaves what it speaks of alone.                              *)

(* What the promise sees of the objects. *)
Life == [b \in Backups |-> api[b].st]
Recorded == { b \in Backups : api[b].phase = "completed" }
Guarded == { b \in Backups : api[b].fin }
Report == <<cfg.st = "live", ~cfg.unwritable>>
Seen == <<Life, Recorded, Guarded, phys, parent, Left, Report>>

(* The API server holds no terminating object without a finalizer, and an  *)
(* object that was never created has none and no push.                     *)
WellFormed(o, p) ==
    /\ o.st = "terminating" => o.fin
    /\ o.st = "unborn" => ~o.fin /\ p = "idle"
PromiseInv == DataInv /\ \A b \in Backups : WellFormed(api[b], push[b])

LEMMA SeenVars == UNCHANGED Seen => UNCHANGED (Promise!vars)
BY DEF Promise!vars, Promise!config, Seen, Report, Life, Recorded, Guarded

(* The worker's place and the data decide what is left. *)
LEMMA LeftStays == ASSUME UNCHANGED <<wpc, wb, wcopy, phys>> PROVE Left' = Left
BY DEF Left

LEMMA SameDeltas == \A b \in Backups : Promise!Deltas(b) = DeltasOn(b)
BY DEF Promise!Deltas, DeltasOn, Promise!NameOf, NameOf, Promise!BackupName, BackupName,
   Promise!GetDependentBackups, GetDependentBackups, Promise!findDirectDependencies,
   findDirectDependencies, Promise!ClosedUnder, ClosedUnder, Promise!IsDelta, IsDelta

(* A write to one object, as the promise sees it. *)
LEMMA OneObject ==
    ASSUME TypeOK, NEW b \in Backups, NEW o \in Backup, api' = [api EXCEPT ![b] = o]
    PROVE  /\ Life' = [Life EXCEPT ![b] = o.st]
           /\ Recorded' = IF o.phase = "completed" THEN Recorded \cup {b} ELSE Recorded \ {b}
           /\ Guarded' = IF o.fin THEN Guarded \cup {b} ELSE Guarded \ {b}
<1>1. /\ api'[b] = o /\ \A c \in Backups : c # b => api'[c] = api[c]
  BY DEF TypeOK
<1>2. Life' = [Life EXCEPT ![b] = o.st]
  <2>1. Life' = [c \in Backups |-> IF c = b THEN o.st ELSE api[c].st]
    BY <1>1 DEF Life
  <2>2. [Life EXCEPT ![b] = o.st] = [c \in Backups |-> IF c = b THEN o.st ELSE api[c].st]
    BY DEF Life
  <2> QED BY <2>1, <2>2
<1>3. Recorded' = IF o.phase = "completed" THEN Recorded \cup {b} ELSE Recorded \ {b}
  BY <1>1 DEF Recorded
<1>4. Guarded' = IF o.fin THEN Guarded \cup {b} ELSE Guarded \ {b}
  BY <1>1 DEF Guarded
<1> QED BY <1>2, <1>3, <1>4

(* A write the promise does not see. *)
Alike(o, p) ==
    p.st = o.st /\ (p.phase = "completed" <=> o.phase = "completed") /\ p.fin = o.fin

LEMMA Unseen ==
    ASSUME \A b \in Backups : Alike(api[b], api'[b]), UNCHANGED <<cfg, phys, parent, workerVars>>
    PROVE  UNCHANGED Seen
<1>1. Life' = Life BY DEF Life, Alike
<1>2. Recorded' = Recorded BY DEF Recorded, Alike
<1>3. Guarded' = Guarded BY DEF Guarded, Alike
<1> QED BY <1>1, <1>2, <1>3, LeftStays DEF Seen, Report, workerVars

LEMMA AlikeWrites ==
    ASSUME NEW o \in Backup
    PROVE  /\ Alike(o, o) /\ Alike(o, [o EXCEPT !.owned = TRUE])
           /\ o.phase = "new" => Alike(o, [o EXCEPT !.phase = "failed"])
           /\ \A old, new \in Backup : Alike(o, Patched(o, old, new))
<1> USE DEF Alike
<1>1. Alike(o, o) /\ Alike(o, [o EXCEPT !.owned = TRUE])
  BY DEF Backup
<1>2. o.phase = "new" => Alike(o, [o EXCEPT !.phase = "failed"])
  BY DEF Backup
<1>3. \A old, new \in Backup : Alike(o, Patched(o, old, new))
  <2> TAKE old, new \in Backup
  <2> DEFINE D == IF new.deps = old.deps THEN o.deps ELSE new.deps
             M == IF new.meta = old.meta THEN o.meta ELSE new.meta
  <2>1. Patched(o, old, new) = [o EXCEPT !.deps = D, !.meta = M]
    BY DEF Patched
  <2> HIDE DEF D, M
  <2> QED BY <2>1 DEF Backup
<1> QED BY <1>1, <1>2, <1>3

LEMMA AlikeKeepsForm ==
    ASSUME \A b \in Backups : WellFormed(api[b], push[b]),
           \A b \in Backups : Alike(api[b], api'[b]),
           \A b \in Backups : push'[b] = push[b] \/ api[b].st # "unborn"
    PROVE  \A b \in Backups : WellFormed(api'[b], push'[b])
BY DEF WellFormed, Alike

-----------------------------------------------------------------------------
(* The steps outside the operator and the worker's two decisive steps, one *)
(* lemma each: the action of the promise they implement.                   *)
LEMMA Facts ==
    ASSUME ~Recreate, PromiseInv
    PROVE  /\ TypeOK /\ PushedBehind /\ RemovedFirst /\ WorkerBehind /\ ReconcileBehind
           /\ ~Recreate /\ \A b \in Backups : api[b] \in Backup /\ WellFormed(api[b], push[b])
BY DEF PromiseInv, DataInv, DeletionInv, TypeOK

LEMMA CreateStep ==
    ASSUME ~Recreate, PromiseInv, NEW b \in Backups, CreateBackup(b)
    PROVE  Promise!Create(b) /\ \A c \in Backups : WellFormed(api'[c], push'[c])
<1>1. /\ api' = [api EXCEPT ![b] = NewBackup] /\ push' = [push EXCEPT ![b] = "idle"]
      /\ api[b].st = "unborn" /\ UNCHANGED <<cfg, phys, parent>> /\ Left' = Left
  BY Facts, LeftStays DEF CreateBackup, workerVars
<1>2. NewBackup \in Backup /\ NewBackup.st = "live" /\ NewBackup.phase = "new" /\ ~NewBackup.fin
  BY DEF NewBackup, NoObject, Backup
<1>3. b \notin Recorded /\ b \notin Guarded
  BY <1>1, Facts DEF Recorded, Guarded, PushedBehind, WellFormed
<1>4. /\ Life' = [Life EXCEPT ![b] = "live"]
      /\ Recorded' = Recorded /\ Guarded' = Guarded
  <2> DEFINE o == NewBackup
  <2> HIDE DEF o
  <2>1. o \in Backup /\ api' = [api EXCEPT ![b] = o] /\ o.st = "live" /\ o.phase = "new" /\ ~o.fin
    BY <1>1, <1>2 DEF o
  <2>2. Life' = [Life EXCEPT ![b] = o.st] /\ Recorded' = Recorded \ {b} /\ Guarded' = Guarded \ {b}
    BY <2>1, Facts, OneObject
  <2> QED BY <1>3, <2>1, <2>2
<1>5. Promise!Create(b)
  BY <1>1, <1>4 DEF Promise!Create, Promise!config, Life, Recorded, Guarded
<1>6. \A c \in Backups : WellFormed(api'[c], push'[c])
  BY <1>1, <1>2, Facts DEF WellFormed, TypeOK
<1> QED BY <1>5, <1>6

LEMMA PushStep ==
    ASSUME ~Recreate, PromiseInv, NEW b \in Backups, StartPush(b) \/ FinishPush(b)
    PROVE  /\ Promise!Begin(b) \/ Promise!Store(b)
           /\ \A c \in Backups : WellFormed(api'[c], push'[c])
<1>1. UNCHANGED <<api, cfg>> /\ Life' = Life /\ Recorded' = Recorded /\ Guarded' = Guarded
  BY DEF StartPush, FinishPush, apiVars, Life, Recorded, Guarded
<1>2. api[b].st # "unborn"
  BY Facts DEF StartPush, FinishPush, WellFormed
<1>3. b \notin Recorded
  BY Facts DEF StartPush, FinishPush, Recorded, PushedBehind
<1>l. Left' = Left
  <2>1. CASE StartPush(b)
    BY <2>1, LeftStays DEF StartPush, workerVars
  <2>2. CASE FinishPush(b)
    <3>1. UNCHANGED <<wpc, wb, wcopy>> /\ phys' = phys \cup {b} /\ push[b] # "done"
      BY <2>2 DEF FinishPush, workerVars
    <3>2. (wpc = "unfinalize" /\ wcopy.phase = "completed") => wb # b
      BY <3>1, Facts DEF PushedBehind, WorksOnBackup
    <3> QED BY <3>1, <3>2 DEF Left
  <2> QED BY <2>1, <2>2
<1>4. StartPush(b) => Promise!Begin(b)
  BY <1>1, <1>3, <1>l DEF StartPush, Promise!Begin, Promise!config, Life, Recorded, Guarded
<1>5. FinishPush(b) => Promise!Store(b)
  BY <1>1, <1>2, <1>3, <1>l DEF FinishPush, Promise!Store, Promise!config, Life, Recorded, Guarded
<1>6. \A c \in Backups : c # b => push'[c] = push[c]
  BY Facts DEF StartPush, FinishPush, TypeOK
<1>7. \A c \in Backups : WellFormed(api'[c], push'[c])
  BY <1>1, <1>2, <1>6, Facts DEF WellFormed
<1> QED BY <1>4, <1>5, <1>7

LEMMA CompleteStep ==
    ASSUME ~Recreate, PromiseInv, NEW b \in Backups, CompleteBackup(b)
    PROVE  Promise!Record(b) /\ \A c \in Backups : WellFormed(api'[c], push'[c])
<1> DEFINE o == [api[b] EXCEPT !.phase = "completed"]
<1>1. /\ api' = [api EXCEPT ![b] = o] /\ UNCHANGED <<cfg, phys, parent, push>>
      /\ api[b].st \in {"live", "terminating"} /\ b \in phys /\ Left' = Left
  BY LeftStays DEF CompleteBackup, walgVars, workerVars, Present
<1>2. o \in Backup /\ o.st = api[b].st /\ o.phase = "completed" /\ o.fin = api[b].fin
  BY Facts DEF Backup
<1> HIDE DEF o
<1>3. /\ Life' = [Life EXCEPT ![b] = o.st] /\ Recorded' = Recorded \cup {b}
      /\ Guarded' = IF o.fin THEN Guarded \cup {b} ELSE Guarded \ {b}
  BY <1>1, <1>2, Facts, OneObject
<1>4. Life' = Life /\ Guarded' = Guarded
  BY <1>2, <1>3 DEF Life, Guarded
<1>5. Promise!Record(b)
  BY <1>1, <1>3, <1>4 DEF Promise!Record, Promise!config, Life, Recorded, Guarded
<1>6. \A c \in Backups : WellFormed(api'[c], push'[c])
  BY <1>1, <1>2, Facts DEF WellFormed, TypeOK
<1> QED BY <1>5, <1>6

(* The end of an object: Stored drops it. *)
LEMMA GoneObject ==
    /\ NoObject("gone") \in Backup /\ NoObject("gone").st = "gone"
    /\ NoObject("gone").phase = "new" /\ ~NoObject("gone").fin
BY DEF NoObject, Backup

LEMMA DeleteStep ==
    ASSUME ~Recreate, PromiseInv, NEW b \in Backups, DeleteBackup(b)
    PROVE  Promise!Delete(b) /\ \A c \in Backups : WellFormed(api'[c], push'[c])
<1> DEFINE o == DeleteCall(api[b])
<1>1. /\ api' = [api EXCEPT ![b] = o] /\ UNCHANGED <<cfg, phys, parent, push>>
      /\ api[b].st = "live" /\ Left' = Left
  BY LeftStays DEF DeleteBackup, walgVars, workerVars
<1>2. /\ o \in Backup
      /\ api[b].fin => o.st = "terminating" /\ o.fin /\ o.phase = api[b].phase
      /\ ~api[b].fin => o = NoObject("gone")
  <2>1. o \in Backup BY Facts, StoredType
  <2>2. DeleteCall(api[b]) = IF ~api[b].fin THEN NoObject("gone")
                                            ELSE [api[b] EXCEPT !.st = "terminating"]
    BY Facts DEF DeleteCall, Stored, Backup
  <2> QED BY <2>1, <2>2, Facts DEF Backup
<1> HIDE DEF o
<1>3. /\ Life' = [Life EXCEPT ![b] = o.st]
      /\ Recorded' = IF o.phase = "completed" THEN Recorded \cup {b} ELSE Recorded \ {b}
      /\ Guarded' = IF o.fin THEN Guarded \cup {b} ELSE Guarded \ {b}
  BY <1>1, <1>2, Facts, OneObject
<1>4. CASE api[b].fin
  <2>1. Recorded' = Recorded /\ Guarded' = Guarded
    BY <1>2, <1>3, <1>4 DEF Recorded, Guarded
  <2>2. Promise!Delete(b)
    BY <1>1, <1>2, <1>3, <1>4, <2>1 DEF Promise!Delete, Promise!config, Life, Recorded, Guarded
  <2> QED BY <1>1, <1>2, <1>4, <2>2, Facts DEF WellFormed, TypeOK
<1>5. CASE ~api[b].fin
  <2>1. o.st = "gone" /\ o.phase = "new" /\ ~o.fin
    BY <1>2, <1>5, GoneObject
  <2>2. /\ Life' = [Life EXCEPT ![b] = "gone"]
        /\ Recorded' = Recorded \ {b} /\ Guarded' = Guarded \ {b}
    BY <1>3, <2>1
  <2>3. Promise!Delete(b)
    BY <1>1, <1>5, <2>2 DEF Promise!Delete, Promise!Ends, Promise!config, Life, Recorded, Guarded
  <2> QED BY <1>1, <2>1, <2>3, Facts DEF WellFormed, TypeOK
<1> QED BY <1>4, <1>5

(* delete target takes the data of a Backup that is being deleted or gone. *)
LEMMA TargetStep ==
    ASSUME ~Recreate, PromiseInv, DeleteTarget
    PROVE  /\ (\E b \in Backups : Promise!Remove(b)) \/ UNCHANGED Seen
           /\ \A c \in Backups : WellFormed(api'[c], push'[c])
<1>1. UNCHANGED <<api, cfg, parent, push>> /\ wb \in Backups
  BY Facts DEF DeleteTarget, apiVars, TypeOK
<1>2. phys' = phys \/ phys' = phys \ ({wb} \cup DeltasOn(wb))
  BY DEF DeleteTarget
<1>3. Life' = Life /\ Recorded' = Recorded /\ Guarded' = Guarded
  BY <1>1 DEF Life, Recorded, Guarded
<1>4. \A c \in Backups : WellFormed(api'[c], push'[c])
  BY <1>1, Facts
<1>l. Left = {} /\ Left' = {}
  <2>1. wpc = "target" /\ (wpc' = "idle" \/ (wpc' = "unfinalize" /\ wb' = wb /\ wb \notin phys'))
    BY DEF DeleteTarget, WorkerGoes, WorkerEnds
  <2> QED BY <2>1 DEF Left
<1>5. CASE phys' = phys
  BY <1>1, <1>3, <1>4, <1>5, <1>l DEF Seen, Report
<1>6. CASE phys' = phys \ ({wb} \cup DeltasOn(wb))
  <2>1. api[wb].st \in {"terminating", "gone"}
    BY Facts DEF DeleteTarget, WorkerBehind, WorksOnBackup, Ending
  <2>2. phys' = phys \ ({wb} \cup Promise!Deltas(wb))
    BY <1>1, <1>6, SameDeltas
  <2>3. \E b \in Backups : Promise!Remove(b)
    BY <1>1, <1>3, <1>l, <2>1, <2>2
       DEF Promise!Remove, Promise!Ending, Promise!config, Life, Recorded, Guarded
  <2> QED BY <1>1, <1>4, <2>3
<1> QED BY <1>2, <1>5, <1>6

(* Dropping the finalizer releases a Backup that is being deleted: its     *)
(* data is gone, or the code is told to leave it, or the config is going.  *)
LEMMA Release ==
    ASSUME ~Recreate, PromiseInv, NEW b \in Backups, api[b].st = "terminating",
           api' = [api EXCEPT ![b] = Stored([api[b] EXCEPT !.fin = FALSE])],
           UNCHANGED <<cfg, phys, parent, push>>,
           Left' \in {Left, Left \ {b}},
           api[b].phase = "completed" =>
              b \notin phys \/ b \in Left \/ IgnoreForBackupDeletion \/ cfg.st # "live"
    PROVE  Promise!Release(b) /\ \A c \in Backups : WellFormed(api'[c], push'[c])
<1>1. Stored([api[b] EXCEPT !.fin = FALSE]) = NoObject("gone")
  BY Facts DEF Stored, Backup
<1> DEFINE o == NoObject("gone")
<1> HIDE DEF o
<1>2. /\ o \in Backup /\ o.st = "gone" /\ o.phase = "new" /\ ~o.fin
      /\ api' = [api EXCEPT ![b] = o]
  BY <1>1, GoneObject DEF o
<1>3. /\ Life' = [Life EXCEPT ![b] = "gone"]
      /\ Recorded' = Recorded \ {b} /\ Guarded' = Guarded \ {b}
  <2>1. /\ Life' = [Life EXCEPT ![b] = o.st]
        /\ Recorded' = IF o.phase = "completed" THEN Recorded \cup {b} ELSE Recorded \ {b}
        /\ Guarded' = IF o.fin THEN Guarded \cup {b} ELSE Guarded \ {b}
    BY <1>2, Facts, OneObject
  <2> QED BY <1>2, <2>1
<1>4. b \in Recorded =>
         b \notin phys \/ b \in Left \/ IgnoreForBackupDeletion \/ cfg.st # "live"
  BY DEF Recorded
<1>5. Promise!Release(b)
  BY <1>3, <1>4 DEF Promise!Release, Promise!Ends, Promise!config, Life, Recorded, Guarded
<1> QED BY <1>2, <1>5, Facts DEF WellFormed, TypeOK

LEMMA ReleaseStep ==
    ASSUME ~Recreate, PromiseInv, removeBackupFinalizer
    PROVE  /\ \E b \in Backups : Promise!Release(b) \/ Promise!Reconsider(b)
           /\ \A c \in Backups : WellFormed(api'[c], push'[c])
<1>1. UNCHANGED <<cfg, phys, parent, push>> /\ wb \in Backups
  BY Facts DEF removeBackupFinalizer, walgVars, TypeOK
<1>l. Left' = Left \ {wb}
  <2>1. wpc' = "idle"
    BY DEF removeBackupFinalizer, WorkerEnds, WorkerGoes
  <2> QED BY <2>1 DEF Left
<1>2. CASE api' = api
  <2>1. Life' = Life /\ Recorded' = Recorded /\ Guarded' = Guarded
    BY <1>2 DEF Life, Recorded, Guarded
  <2>2. Promise!Reconsider(wb)
    BY <1>1, <1>l, <2>1 DEF Promise!Reconsider, Promise!config, Life, Recorded, Guarded
  <2> QED BY <1>1, <1>2, <2>2, Facts
<1>3. CASE api' # api
  <2>1. /\ Present(api[wb]) /\ wcopy = api[wb]
        /\ api' = [api EXCEPT ![wb] = Stored([api[wb] EXCEPT !.fin = FALSE])]
    BY <1>3 DEF removeBackupFinalizer, CanUpdate
  <2>2. api[wb].st = "terminating"
    BY <2>1, Facts DEF removeBackupFinalizer, WorkerBehind, WorksOnBackup, Ending, Present
  <2>3. api[wb].phase = "completed" => wb \notin phys \/ wb \in Left
    BY <2>1 DEF removeBackupFinalizer, Left
  <2>4. PICK b \in Backups : b = wb
    BY <1>1
  <2>5. Promise!Release(b) /\ \A c \in Backups : WellFormed(api'[c], push'[c])
    BY <1>1, <1>l, <2>1, <2>2, <2>3, <2>4, Release
  <2> QED BY <2>5
<1> QED BY <1>2, <1>3

(* Without the config the reconciler drops the finalizer of a Backup that  *)
(* is being deleted; with it, the request goes into the queue.             *)
LEMMA EnqueueStep ==
    ASSUME ~Recreate, PromiseInv, EnqueueBackupDeletion
    PROVE  /\ (\E b \in Backups : Promise!Release(b)) \/ UNCHANGED Seen
           /\ \A c \in Backups : WellFormed(api'[c], push'[c])
<1>1. UNCHANGED <<cfg, phys, parent, push>> /\ rb \in Backups /\ Left' = Left
  BY Facts, LeftStays DEF EnqueueBackupDeletion, walgVars, workerVars, TypeOK
<1>2. CASE api' = api
  BY <1>1, <1>2, Facts DEF Seen, Report, Life, Recorded, Guarded
<1>3. CASE api' # api
  <2>1. /\ Present(api[rb]) /\ cfg.st = "gone"
        /\ api' = [api EXCEPT ![rb] = Stored([api[rb] EXCEPT !.fin = FALSE])]
    BY <1>3 DEF EnqueueBackupDeletion, CanUpdate
  <2>2. api[rb].st = "terminating"
    BY <2>1, Facts DEF EnqueueBackupDeletion, ReconcileBehind, Ending, Present
  <2> QED BY <1>1, <2>1, <2>2, Release
<1> QED BY <1>2, <1>3

(* With deletion management on the finalizer that is added guards a live   *)
(* Backup; with it off the finalizer goes, from a live Backup or from one  *)
(* whose deletion came after the reconciler read it.                       *)
LEMMA FinalizerStep ==
    ASSUME ~Recreate, PromiseInv, reconcileFinalizers
    PROVE  /\ \/ \E b \in Backups : Promise!Guard(b) \/ Promise!Unguard(b) \/ Promise!Release(b)
              \/ UNCHANGED Seen
           /\ \A c \in Backups : WellFormed(api'[c], push'[c])
<1> DEFINE f == ~IgnoreForBackupDeletion
<1>1. UNCHANGED <<cfg, phys, parent, push>> /\ rb \in Backups /\ Left' = Left
  BY Facts, LeftStays DEF reconcileFinalizers, walgVars, workerVars, TypeOK
<1>2. CASE api' = api
  BY <1>1, <1>2, Facts DEF Seen, Report, Life, Recorded, Guarded
<1>3. CASE api' # api
  <2>1. /\ Present(api[rb]) /\ rcopy = api[rb] /\ rcopy.fin = IgnoreForBackupDeletion
        /\ api' = [api EXCEPT ![rb] = Stored([api[rb] EXCEPT !.fin = f])]
    BY <1>3 DEF reconcileFinalizers, CanUpdate
  <2>f. f \in BOOLEAN /\ (f <=> ~IgnoreForBackupDeletion)
    OBVIOUS
  <2> HIDE DEF f
  <2>2. CASE api[rb].st = "terminating"
    <3>1. api[rb].fin /\ IgnoreForBackupDeletion
      BY <1>1, <2>1, <2>2, Facts DEF WellFormed
    <3>2. f = FALSE /\ IgnoreForBackupDeletion
      BY <2>f, <3>1
    <3>3. api' = [api EXCEPT ![rb] = Stored([api[rb] EXCEPT !.fin = FALSE])]
      BY <2>1, <3>2
    <3> QED BY <1>1, <2>2, <3>2, <3>3, Release
  <2>3. CASE api[rb].st = "live"
    <3> DEFINE o == [api[rb] EXCEPT !.fin = f]
    <3>1. o \in Backup /\ o.st = "live" /\ o.phase = api[rb].phase /\ o.fin = f
      BY <1>1, <2>3, <2>f, Facts DEF Backup
    <3>2. Stored(o) = o
      BY <3>1 DEF Stored
    <3>3. api' = [api EXCEPT ![rb] = o]
      BY <2>1, <3>2
    <3> HIDE DEF o
    <3>4. /\ Life' = [Life EXCEPT ![rb] = o.st]
          /\ Recorded' = IF o.phase = "completed" THEN Recorded \cup {rb} ELSE Recorded \ {rb}
          /\ Guarded' = IF o.fin THEN Guarded \cup {rb} ELSE Guarded \ {rb}
      BY <1>1, <3>1, <3>3, Facts, OneObject
    <3>5. Life' = Life /\ Recorded' = Recorded
      BY <1>1, <2>3, <3>1, <3>4 DEF Life, Recorded
    <3>6. \/ Guarded' = Guarded \cup {rb}
          \/ IgnoreForBackupDeletion /\ Guarded' = Guarded \ {rb}
      BY <2>f, <3>1, <3>4
    <3>7. \E b \in Backups : Promise!Guard(b) \/ Promise!Unguard(b)
      BY <1>1, <2>3, <3>5, <3>6 DEF Promise!Guard, Promise!Unguard, Promise!config, Life, Recorded, Guarded
    <3>8. \A c \in Backups : WellFormed(api'[c], push'[c])
      BY <1>1, <3>1, <3>3, Facts DEF WellFormed, TypeOK
    <3> QED BY <1>1, <3>7, <3>8
  <2> QED BY <2>1, <2>2, <2>3 DEF Present
<1> QED BY <1>2, <1>3

(* The end of the config, and the wipe of the storage that follows.        *)
LEMMA ConfigStep ==
    ASSUME ~Recreate, PromiseInv,
           DeleteConfig \/ StorageStatus \/ WipeStorage \/ removeConfigFinalizer
    PROVE  /\ Promise!Close \/ Promise!Report \/ Promise!Wipe \/ UNCHANGED Seen
           /\ \A c \in Backups : WellFormed(api'[c], push'[c])
<1>1. UNCHANGED <<api, parent, push>>
  BY DEF DeleteConfig, StorageStatus, WipeStorage, removeConfigFinalizer, apiVars, walgVars
<1>2. Life' = Life /\ Recorded' = Recorded /\ Guarded' = Guarded
  BY <1>1 DEF Life, Recorded, Guarded
<1>3. \A c \in Backups : WellFormed(api'[c], push'[c])
  BY <1>1, Facts
<1>4. CASE DeleteConfig
  <2> DEFINE x == IF cfg.fin THEN "terminating" ELSE "gone"
  <2>1. phys' = phys /\ cfg' = [cfg EXCEPT !.st = x] /\ x # "live" /\ Left' = Left
    BY <1>4, LeftStays DEF DeleteConfig, walgVars, workerVars
  <2> HIDE DEF x
  <2>2. (cfg'.st = "live") = FALSE /\ cfg'.unwritable = cfg.unwritable
    BY <2>1, Facts DEF TypeOK
  <2>3. Promise!Close
    BY <1>1, <1>2, <2>1, <2>2 DEF Promise!Close, Life, Recorded, Guarded
  <2> QED BY <1>3, <2>3
<1>5. CASE StorageStatus
  <2> DEFINE u == ~cfg.unwritable
  <2>1. phys' = phys /\ cfg' = [cfg EXCEPT !.unwritable = u] /\ Left' = Left
    BY <1>5, LeftStays DEF StorageStatus, walgVars, workerVars
  <2>2. cfg'.st = cfg.st
    BY <2>1, Facts DEF TypeOK
  <2>3. cfg'.unwritable = ~cfg.unwritable
    BY <2>1, Facts, Zenon DEF TypeOK
  <2>4. Promise!Report
    BY <1>1, <1>2, <2>1, <2>2, <2>3 DEF Promise!Report, Life, Recorded, Guarded
  <2> QED BY <1>3, <2>4
<1>6. CASE WipeStorage
  <2>1. cfg.st # "live" /\ cfg' = cfg /\ phys' \in {phys, {}}
    BY <1>6, Facts DEF WipeStorage, WorkerBehind, apiVars
  <2>l. Left = {} /\ Left' = {}
    BY <1>6 DEF WipeStorage, WorkerGoes, WorkerEnds, Left
  <2>2. CASE phys' = phys
    BY <1>1, <1>2, <1>3, <2>1, <2>2, <2>l DEF Seen, Report
  <2>3. CASE phys' = {}
    <3>1. Promise!Wipe
      BY <1>1, <1>2, <2>1, <2>3, <2>l DEF Promise!Wipe, Promise!config, Life, Recorded, Guarded
    <3> QED BY <1>3, <3>1
  <2> QED BY <2>1, <2>2, <2>3
<1>7. CASE removeConfigFinalizer
  <2> DEFINE x == IF cfg.st = "terminating" THEN "gone" ELSE cfg.st
  <2>1. /\ cfg.st # "live" /\ phys' = phys /\ x # "live"
        /\ cfg' = cfg \/ cfg' = [cfg EXCEPT !.fin = FALSE, !.st = x]
    BY <1>7, Facts DEF removeConfigFinalizer, WorkerBehind, walgVars
  <2> HIDE DEF x
  <2>2. cfg'.st # "live" /\ cfg'.unwritable = cfg.unwritable
    BY <2>1, Facts DEF TypeOK
  <2>3. Left = {} /\ Left' = {}
    BY <1>7 DEF removeConfigFinalizer, WorkerEnds, WorkerGoes, Left
  <2> QED BY <1>1, <1>2, <1>3, <2>1, <2>2, <2>3 DEF Seen, Report
<1> QED BY <1>4, <1>5, <1>6, <1>7

(* Everything else is invisible. *)
LEMMA OtherWrites ==
    ASSUME ~Recreate, PromiseInv,
           \/ \E x \in Backups : FailBackup(x) \/ reconcileRelatedBackupsMetadata(x)
           \/ reconcileOwnerReference \/ reconcileBackupMetadata
    PROVE  UNCHANGED Seen /\ \A c \in Backups : WellFormed(api'[c], push'[c])
<1>1. UNCHANGED <<cfg, phys, parent, workerVars>>
  BY DEF FailBackup, reconcileRelatedBackupsMetadata, reconcileOwnerReference,
     reconcileBackupMetadata, walgVars
<1>2. \A b \in Backups : push'[b] = push[b] \/ api[b].st # "unborn"
  <2>1. ASSUME NEW x \in Backups, FailBackup(x)
        PROVE  \A b \in Backups : push'[b] = push[b] \/ api[b].st # "unborn"
    BY <2>1, Facts DEF FailBackup, Present, TypeOK
  <2> QED BY <2>1 DEF reconcileRelatedBackupsMetadata, reconcileOwnerReference,
          reconcileBackupMetadata, walgVars
<1>3. \A b \in Backups : Alike(api[b], api'[b])
  <2>1. \A b \in Backups : Alike(api[b], api[b])
    BY Facts, AlikeWrites
  <2>2. ASSUME NEW x \in Backups, FailBackup(x) PROVE \A b \in Backups : Alike(api[b], api'[b])
    <3>1. api' = [api EXCEPT ![x] = [api[x] EXCEPT !.phase = "failed"]] /\ api[x].phase = "new"
      BY <2>2 DEF FailBackup
    <3>2. Alike(api[x], [api[x] EXCEPT !.phase = "failed"])
      BY <3>1, Facts, AlikeWrites
    <3> QED BY <3>1, <3>2, <2>1, Facts DEF TypeOK
  <2>3. CASE reconcileOwnerReference
    <3>1. api' = api \/ api' = [api EXCEPT ![rb] = [api[rb] EXCEPT !.owned = TRUE]]
      BY <2>3 DEF reconcileOwnerReference
    <3>2. \A b \in Backups : Alike(api[b], [api[b] EXCEPT !.owned = TRUE])
      BY Facts, AlikeWrites
    <3> QED BY <3>1, <3>2, <2>1, Facts DEF TypeOK
  <2>4. ASSUME NEW x \in Backups, NEW old \in Backup, NEW new \in Backup,
               api' = api \/ api' = [api EXCEPT ![x] = Patched(api[x], old, new)]
        PROVE  \A b \in Backups : Alike(api[b], api'[b])
    <3>1. Alike(api[x], Patched(api[x], old, new))
      BY Facts, AlikeWrites
    <3> QED BY <2>4, <3>1, <2>1, Facts DEF TypeOK
  <2>5. CASE reconcileBackupMetadata
    <3>1. rb \in Backups /\ rcopy \in Backup
      BY <2>5, Facts DEF reconcileBackupMetadata, TypeOK
    <3>2. WithMetadata(rb, rcopy) \in Backup
      BY <3>1, Facts, MetadataType
    <3>3. \/ api' = api
          \/ api' = [api EXCEPT ![rb] = Patched(api[rb], rcopy, WithMetadata(rb, rcopy))]
      BY <2>5 DEF reconcileBackupMetadata
    <3> QED BY <3>1, <3>2, <3>3, <2>4
  <2>6. ASSUME NEW c \in Backups, reconcileRelatedBackupsMetadata(c)
        PROVE  \A b \in Backups : Alike(api[b], api'[b])
    <3>1. rlist[c] \in Backup
      BY Facts DEF TypeOK
    <3>2. WithMetadata(c, rlist[c]) \in Backup
      BY <3>1, Facts, MetadataType
    <3>3. \/ api' = api
          \/ api' = [api EXCEPT ![c] = Patched(api[c], rlist[c], WithMetadata(c, rlist[c]))]
      BY <2>6 DEF reconcileRelatedBackupsMetadata
    <3> QED BY <3>1, <3>2, <3>3, <2>4
  <2> QED BY <2>2, <2>3, <2>5, <2>6
<1> QED BY <1>1, <1>2, <1>3, Facts, Unseen, AlikeKeepsForm

LEMMA QuietSteps ==
    ASSUME ~Recreate, PromiseInv, UNCHANGED <<api, push, parent, cfg, phys>>, Left' = Left
    PROVE  UNCHANGED Seen /\ \A c \in Backups : WellFormed(api'[c], push'[c])
BY Facts DEF Seen, Report, Life, Recorded, Guarded

(* The worker decides to leave the data of a Backup only when it takes the *)
(* request and finds the storage reported unwritable or not managed.       *)
LEMMA TakeStep ==
    ASSUME ~Recreate, PromiseInv, TakeBackupRequest
    PROVE  /\ (\E b \in Backups : Promise!Leave(b)) \/ UNCHANGED Seen
           /\ \A c \in Backups : WellFormed(api'[c], push'[c])
<1> DEFINE b == Head(queue)
<1>1. UNCHANGED <<api, push, parent, cfg, phys>> /\ wpc = "idle" /\ Left = {}
  BY DEF TakeBackupRequest, apiVars, walgVars, Left
<1>2. b \in Backups /\ api[b].st \in {"terminating", "gone"}
  <2>1. queue \in Seq(Backups \cup {Config}) /\ queue # <<>> /\ b # Config
    BY Facts DEF TakeBackupRequest, TypeOK
  <2>2. b = queue[1] /\ 1 \in 1 .. Len(queue) /\ b \in Backups
    BY <2>1
  <2>3. Ending(api[b])
    BY <2>1, <2>2 DEF PromiseInv, DataInv, DeletionInv, QueueBehind
  <2> QED BY <2>2, <2>3 DEF Ending
<1>3. CASE Left' = {}
  BY <1>1, <1>3, QuietSteps
<1>4. CASE Left' # {}
  <2>1. wpc' = "unfinalize" /\ wcopy'.phase = "completed" /\ Left' \subseteq {wb'}
    BY <1>4 DEF Left
  <2>2. WorkerGoes(DeletionStep(cache[b]), b, cache[b])
    BY <2>1 DEF TakeBackupRequest, WorkerEnds, WorkerGoes
  <2>3. DeletionStep(cache[b]) = "unfinalize" /\ cache[b].phase = "completed" /\ wb' = b
    BY <2>1, <2>2 DEF WorkerGoes
  <2>4. cfg.unwritable \/ IgnoreForBackupDeletion
    BY <2>3 DEF DeletionStep
  <2>5. Left' = Left \cup {b}
    BY <1>1, <1>4, <2>1, <2>3
  <2>6. Life' = Life /\ Recorded' = Recorded /\ Guarded' = Guarded
    BY <1>1 DEF Life, Recorded, Guarded
  <2>7. Promise!Leave(b)
    BY <1>1, <1>2, <2>4, <2>5, <2>6
       DEF Promise!Leave, Promise!Ending, Promise!config, Life, Recorded, Guarded
  <2> QED BY <1>1, <1>2, <2>7, Facts
<1> QED BY <1>3, <1>4

(* A restart drops what the worker was about to do. *)
LEMMA RestartStep ==
    ASSUME ~Recreate, PromiseInv, Restart
    PROVE  /\ (\E b \in Backups : Promise!Reconsider(b)) \/ UNCHANGED Seen
           /\ \A c \in Backups : WellFormed(api'[c], push'[c])
<1>1. UNCHANGED <<api, push, parent, cfg, phys>> /\ Left' = {}
  BY DEF Restart, apiVars, walgVars, WorkerEnds, WorkerGoes, Left
<1>2. CASE Left = {}
  BY <1>1, <1>2, QuietSteps
<1>3. CASE Left # {}
  <2>1. wb \in Backups /\ Left = {wb}
    BY <1>3, Facts DEF Left, TypeOK
  <2>2. Life' = Life /\ Recorded' = Recorded /\ Guarded' = Guarded
    BY <1>1 DEF Life, Recorded, Guarded
  <2>3. Left' = Left \ {wb}
    BY <1>1, <2>1
  <2>4. Promise!Reconsider(wb)
    BY <1>1, <2>2, <2>3 DEF Promise!Reconsider, Promise!config, Life, Recorded, Guarded
  <2> QED BY <1>1, <2>1, <2>4, Facts
<1> QED BY <1>2, <1>3

LEMMA PromiseStep ==
    ASSUME ~Recreate, PromiseInv, Next
    PROVE  (Promise!Next \/ UNCHANGED Seen) /\ \A c \in Backups : WellFormed(api'[c], push'[c])
<1> USE DEF apiVars, walgVars
<1> DEFINE Goal == /\ Promise!Next \/ UNCHANGED Seen
                   /\ \A c \in Backups : WellFormed(api'[c], push'[c])
<1>0. /\ Promise!Close \/ Promise!Report \/ Promise!Wipe => Promise!Next
      /\ \A b \in Backups :
           (\/ Promise!Create(b) \/ Promise!Begin(b) \/ Promise!Store(b) \/ Promise!Record(b)
            \/ Promise!Guard(b) \/ Promise!Unguard(b) \/ Promise!Delete(b)
            \/ Promise!Leave(b) \/ Promise!Reconsider(b)
            \/ Promise!Release(b) \/ Promise!Remove(b)) => Promise!Next
  BY DEF Promise!Next, Promise!Step
<1>1. CASE Environment
  BY <1>0, <1>1, CreateStep, PushStep, CompleteStep, DeleteStep, OtherWrites, ConfigStep
     DEF Environment
<1>2. CASE (\E b \in Backups : CacheSync(b)) \/ Resync \/ ReconcileConfig
  <2>1. UNCHANGED <<api, push, parent, cfg, phys>> /\ Left' = Left
    BY <1>2, LeftStays DEF CacheSync, Resync, ReconcileConfig, workerVars
  <2> QED BY <2>1, QuietSteps
<1>5. CASE Restart
  BY <1>0, <1>5, RestartStep
<1>3. CASE Reconcile
  <2>1. CASE (\E b \in Backups : StartReconcile(b)) \/ reconcileBackupPermanence \/ ReconcileFails
    <3>1. UNCHANGED <<api, push, parent, cfg, phys>> /\ Left' = Left
      BY <2>1, LeftStays
         DEF StartReconcile, reconcileBackupPermanence, ReconcileFails, ReconcileError, workerVars
    <3> QED BY <3>1, QuietSteps
  <2>2. CASE reconcileFinalizers
    BY <1>0, <2>2, FinalizerStep
  <2>3. CASE EnqueueBackupDeletion
    BY <1>0, <2>3, EnqueueStep
  <2> QED BY <1>3, <2>1, <2>2, <2>3, OtherWrites DEF Reconcile, ReconcileStep
<1>4. CASE Worker
  <2>1. CASE WipeStorage \/ removeConfigFinalizer
    BY <1>0, <2>1, ConfigStep
  <2>2. CASE UnmarkBackupPermanent \/ TakeConfigRequest
    <3>1. UNCHANGED <<api, push, parent, cfg, phys>>
      BY <2>2 DEF UnmarkBackupPermanent, TakeConfigRequest
    <3>2. Left = {} /\ Left' = {}
      BY <2>2 DEF UnmarkBackupPermanent, TakeConfigRequest, WorkerGoes, WorkerEnds, Left
    <3> QED BY <3>1, <3>2, QuietSteps
  <2>5. CASE TakeBackupRequest BY <1>0, <2>5, TakeStep
  <2>3. CASE DeleteTarget BY <1>0, <2>3, TargetStep
  <2>4. CASE removeBackupFinalizer
    <3>1. /\ \E b \in Backups : Promise!Release(b) \/ Promise!Reconsider(b)
          /\ \A c \in Backups : WellFormed(api'[c], push'[c])
      BY <2>4, ReleaseStep
    <3> QED BY <1>0, <3>1
  <2> QED BY <1>4, <1>5, <2>1, <2>2, <2>3, <2>4, <2>5 DEF Worker, Panic
<1> QED BY <1>1, <1>2, <1>3, <1>4, <1>5 DEF Next, Crash

(* What users are promised of the deletion of Backups is kept, whatever is *)
(* stale, out of order, failing or restarted in between, also when the     *)
(* BackupConfig is deleted or the storage reported unwritable, as long as  *)
(* names are not used again.                                               *)
THEOREM PromiseIsKept ==
    ASSUME ~Recreate PROVE Spec => KeepsPromise
<1>1. Init => Promise!Init /\ PromiseInv
  <2> SUFFICES ASSUME Init PROVE Promise!Init /\ PromiseInv
    OBVIOUS
  <2>1. NoObject("unborn").st = "unborn" /\ NoObject("unborn").phase = "new"
        /\ ~NoObject("unborn").fin
    BY DEF NoObject
  <2>2. \A b \in Backups : api[b].st = "unborn" /\ api[b].phase = "new" /\ ~api[b].fin
                          /\ push[b] = "idle"
    BY <2>1 DEF Init
  <2>3. PromiseInv
    BY <2>2, DataInvInit DEF PromiseInv, WellFormed
  <2>4. /\ phys = {} /\ cfg.st = "live" /\ parent = [b \in Backups |-> NoBase]
        /\ ~cfg.unwritable /\ Left = {}
    BY DEF Init, Left
  <2>5. Promise!Init
    BY <2>2, <2>4 DEF Promise!Init
  <2> QED BY <2>3, <2>5
<1>2. PromiseInv /\ [Next]_vars => PromiseInv' /\ [Promise!Next]_(Promise!vars)
  <2> SUFFICES ASSUME PromiseInv, [Next]_vars
               PROVE  PromiseInv' /\ [Promise!Next]_(Promise!vars)
    OBVIOUS
  <2>1. DataInv'
    BY DataInvNext DEF PromiseInv
  <2>2. CASE Next
    BY <2>1, <2>2, PromiseStep, SeenVars DEF PromiseInv
  <2>3. CASE UNCHANGED vars
    <3>1. UNCHANGED <<api, push, parent, cfg, phys>> /\ Left' = Left
      BY <2>3, LeftStays DEF vars, apiVars, walgVars, workerVars
    <3> QED BY <2>1, <3>1, QuietSteps, SeenVars DEF PromiseInv
  <2> QED BY <2>2, <2>3
<1> QED BY <1>1, <1>2, PTL DEF Spec, KeepsPromise, Promise!Spec
=============================================================================
