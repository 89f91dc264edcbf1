---------------------------- MODULE BackupPromise ----------------------------
(***************************************************************************)
(* What the operator promises about Backup resources and the data they     *)
(* stand for, without its queues, caches, workers and finalizer traffic.   *)
(* A Backup has a life, may be recorded (its status holds a BackupID) and  *)
(* may be guarded (the API server keeps it until it is released).          *)
(*                                                                         *)
(* It promises that only data asked for goes, with the deltas wal-g cannot *)
(* keep without it; that a recorded Backup is released only when its data  *)
(* is gone, or was left where it is because the storage was reported       *)
(* unwritable after the deletion was asked for; that the dead stay dead    *)
(* and that no data comes back for a recorded Backup.  It does not promise *)
(* that deltas of live Backups are spared.                                 *)
(***************************************************************************)
EXTENDS Dependents

CONSTANTS Backups,
          Keeps      \* is deletion management off for single Backups?

VARIABLES life,      \* of each Backup
          recorded,  \* Backups with a BackupID
          guarded,   \* Backups with a finalizer
          data,      \* Backups with data in the storage
          base,      \* the Backup a delta was taken on
          open,      \* is the BackupConfig there to stay?
          writable,  \* the last report on the storage
          left       \* Backups whose data it was decided to leave

config == <<open, writable>>
vars == <<life, recorded, guarded, data, base, left, config>>

Ending(b) == life[b] \in {"terminating", "gone"}
NameOf(b) == BackupName(b, base[b])
Deltas(b) == { c \in data : NameOf(c) \in
                 GetDependentBackups(NameOf(b), { NameOf(d) : d \in data }) }

Init ==
    /\ life \in [Backups -> {"unborn", "live"}]
    /\ data = { b \in Backups : life[b] = "live" } /\ recorded = data
    /\ guarded \subseteq data
    /\ base \in [Backups -> Backups \cup {NoBase}]
    /\ open = TRUE /\ writable = TRUE /\ left = {}

-----------------------------------------------------------------------------
Create(b) ==
    /\ life[b] = "unborn"
    /\ life' = [life EXCEPT ![b] = "live"]
    /\ UNCHANGED <<recorded, guarded, data, base, left, config>>

(* A backup is begun, on top of a stored one or full; its data arrives,    *)
(* maybe after the Backup is gone; its id is recorded.                     *)
Begin(b) ==
    /\ life[b] = "live" /\ b \notin recorded
    /\ \E p \in data \cup {NoBase} : base' = [base EXCEPT ![b] = p]
    /\ UNCHANGED <<life, recorded, guarded, data, left, config>>

Store(b) ==
    /\ life[b] # "unborn" /\ b \notin recorded
    /\ data' = data \cup {b}
    /\ UNCHANGED <<life, recorded, guarded, base, left, config>>

Record(b) ==
    /\ life[b] \in {"live", "terminating"} /\ b \in data
    /\ recorded' = recorded \cup {b}
    /\ UNCHANGED <<life, guarded, data, base, left, config>>

Guard(b) ==
    /\ life[b] = "live"
    /\ guarded' = guarded \cup {b}
    /\ UNCHANGED <<life, recorded, data, base, left, config>>

Ends(b) ==
    /\ life' = [life EXCEPT ![b] = "gone"]
    /\ recorded' = recorded \ {b} /\ guarded' = guarded \ {b}
    /\ left' \in {left, left \ {b}}
    /\ UNCHANGED <<data, base, config>>

Delete(b) ==
    /\ life[b] = "live"
    /\ \/ b \notin guarded /\ Ends(b)
       \/ /\ b \in guarded
          /\ life' = [life EXCEPT ![b] = "terminating"]
          /\ UNCHANGED <<recorded, guarded, data, base, left, config>>

(* With the storage reported unwritable, the data of a Backup being        *)
(* deleted may be left where it is; the decision may be dropped again.     *)
Leave(b) ==
    /\ Ending(b) /\ (~writable \/ Keeps)
    /\ left' = left \cup {b}
    /\ UNCHANGED <<life, recorded, guarded, data, base, config>>

Reconsider(b) ==
    /\ left' = left \ {b}
    /\ UNCHANGED <<life, recorded, guarded, data, base, config>>

(* The guard of a Backup being deleted goes, and the Backup with it. *)
Release(b) ==
    /\ life[b] = "terminating"
    /\ b \in recorded => b \notin data \/ b \in left \/ Keeps \/ ~open
    /\ Ends(b)

(* Where data is kept a live Backup may lose its guard, too. *)
Unguard(b) ==
    /\ Keeps /\ life[b] = "live"
    /\ guarded' = guarded \ {b}
    /\ UNCHANGED <<life, recorded, data, base, left, config>>

(* The data of a Backup being deleted or gone, with the deltas on it.      *)
Remove(b) ==
    /\ Ending(b)
    /\ data' = data \ ({b} \cup Deltas(b))
    /\ UNCHANGED <<life, recorded, guarded, base, left, config>>

Close ==
    /\ open' = FALSE
    /\ UNCHANGED <<life, recorded, guarded, data, base, left, writable>>

Report ==
    /\ writable' = ~writable
    /\ UNCHANGED <<life, recorded, guarded, data, base, left, open>>

Wipe ==
    /\ ~open
    /\ data' = {}
    /\ UNCHANGED <<life, recorded, guarded, base, left, config>>

Step(b) ==
    \/ Create(b) \/ Begin(b) \/ Store(b) \/ Record(b) \/ Guard(b)
    \/ Delete(b) \/ Leave(b) \/ Reconsider(b) \/ Release(b) \/ Unguard(b) \/ Remove(b)

Next == Close \/ Report \/ Wipe \/ \E b \in Backups : Step(b)

Spec == Init /\ [][Next]_vars
=============================================================================
