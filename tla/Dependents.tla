----------------------------- MODULE Dependents -----------------------------
(***************************************************************************)
(* The dependency relation between wal-g backups, read off their names     *)
(* (pkg/walg/backups.go).  A full backup is named base_<WAL>; a delta is   *)
(* named base_<WAL>_D_<WAL of its base>.  A name is the pair of its own    *)
(* WAL id and the WAL id of its base.                                      *)
(***************************************************************************)

CONSTANT NoBase      \* the base of a full backup (no "_D_" in its name)

BackupName(w, d) == [wal |-> w, base |-> d]

(* A delta is a name with a "_D_" part. *)
IsDelta(n) == n.base # NoBase

(* The loop that picks the deltas of list taken on top of backup n; the    *)
(* name itself is skipped.                                                 *)
findDirectDependencies(n, list) ==
    { m \in list : m # n /\ IsDelta(m) /\ m.base = n.wal }

(* A set of names closed under "has been taken on top of". *)
ClosedUnder(S, list) ==
    \A m \in S : findDirectDependencies(m, list) \subseteq S

(* What GetDependentBackups(includeIndirect = true) is meant to return:    *)
(* the least set that holds the direct dependents of n and is closed.      *)
(* DependentSearch shows that the code's queue computes it.                *)
GetDependentBackups(n, list) ==
    { m \in list : \A S \in SUBSET list :
                      (/\ findDirectDependencies(n, list) \subseteq S
                       /\ ClosedUnder(S, list)) => m \in S }
=============================================================================
