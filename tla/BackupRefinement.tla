-------------------------- MODULE BackupRefinement --------------------------
(* BackupLifecycle implements BackupPromise: of an object only its         *)
(* deletion state, its BackupID and its finalizer are kept, of the config  *)
(* its deletion and its StorageWritable condition.                         *)
EXTENDS BackupLifecycle

(* The Backup that the worker is about to release with its data in place.  *)
Left ==
    IF wpc = "unfinalize" /\ wcopy.phase = "completed" THEN {wb} \cap phys ELSE {}

Promise == INSTANCE BackupPromise WITH
    Keeps <- IgnoreForBackupDeletion,
    life <- [b \in Backups |-> api[b].st],
    recorded <- { b \in Backups : api[b].phase = "completed" },
    guarded <- { b \in Backups : api[b].fin },
    data <- phys,
    base <- parent,
    open <- cfg.st = "live",
    writable <- ~cfg.unwritable,
    left <- Left

(* Every step of the reconcilers, the worker, users and the sidecar is a   *)
(* step of the promise or invisible to it: data goes only when asked for,  *)
(* and a recorded Backup is released with its data in place only if the    *)
(* worker found the storage reported unwritable when it took the request,  *)
(* or deletion management is off, or the BackupConfig is ending, whatever  *)
(* is stale, out of order, failing or restarted in between.                *)
KeepsPromise == Promise!Spec
=============================================================================
